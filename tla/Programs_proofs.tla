------------------------- MODULE Programs_proofs --------------------------
(***************************************************************************)
(* The programs of the enclaves, for every size of theirs. The databases:  *)
(* the memory that passes over all its cells implements an array, the      *)
(* database program answers as if it had no memory in between, and the     *)
(* hybrid database answers every query once. Then the comparison of the    *)
(* millionaires, the universal circuit, and the exchange of inputs and     *)
(* answers; and, from these and from the proofs about the paths, all of    *)
(* the programs side by side.                                              *)
(***************************************************************************)
EXTENDS MCPrograms, Dijkstra_proofs

-----------------------------------------------------------------------------
(* The memory that passes over all its cells.                              *)

\* An int keeps the value of a long that fits it.
LEMMA AsIntIsIdentity ==
    ASSUME NEW v \in LinearValue
    PROVE  AsInt(v) = v
<1>1. v \in Int /\ -IntHalf <= v /\ v <= IntHalf - 1 /\ IntHalf \in Nat \ {0}
  BY FitsInt DEF AnyInt
<1>2. v + IntHalf >= 0 /\ v + IntHalf < 2 * IntHalf
  BY <1>1
<1>3. (v + IntHalf) % (2 * IntHalf) = v + IntHalf
  <2>1. \A a, b \in Int : 0 <= a /\ a < b => a % b = a
    OBVIOUS
  <2> QED BY <1>1, <1>2, <2>1
<1> QED BY <1>1, <1>3 DEF AsInt

\* What is stored is an int.
LEMMA AsIntInRange ==
    ASSUME NEW v \in LinearValue
    PROVE  AsInt(v) \in AnyInt
BY AsIntIsIdentity, FitsInt

\* The memory starts empty.
LEMMA LinearInitTyped == LinearInit => LinearTypeOK
BY LinearSizeAssumption, LinearZeroAssumption DEF LinearInit, LinearTypeOK, LinearIndex, LinearGets

\* Every request and every step of a loop keeps the types.
LEMMA LinearStepTyped == LinearTypeOK /\ [LinearNext]_linearVars => LinearTypeOK'
<1> SUFFICES ASSUME LinearTypeOK, [LinearNext]_linearVars PROVE LinearTypeOK'
  OBVIOUS
<1> USE LinearSizeAssumption
<1>1. ASSUME NEW r \in LinearGets, GetCell(r) PROVE LinearTypeOK'
  BY <1>1 DEF GetCell, LinearTypeOK
<1>2. ASSUME NEW r \in LinearSets, SetCell(r) PROVE LinearTypeOK'
  BY <1>2 DEF SetCell, LinearTypeOK
<1>3. CASE GetStep
  <2>1. linearI \in LinearIndex /\ linearI + 1 \in 0 .. LinearSize
    BY <1>3 DEF GetStep, LinearTypeOK, LinearIndex
  <2>2. AsInt(linearData[linearI]) \in AnyInt
    BY <2>1, AsIntInRange DEF LinearTypeOK
  <2> QED BY <1>3, <2>1, <2>2 DEF GetStep, LinearSelect, LinearTypeOK
<1>4. CASE SetStep
  <2>1. linearI \in LinearIndex /\ linearI + 1 \in 0 .. LinearSize
    BY <1>4 DEF SetStep, LinearTypeOK, LinearIndex
  <2>2. linearReq.value \in LinearValue
    BY LinearZeroAssumption DEF LinearTypeOK, LinearGets, LinearSets
  <2> QED BY <1>4, <2>1, <2>2 DEF SetStep, LinearTypeOK
<1>5. CASE Return
  BY <1>5 DEF Return, LinearTypeOK
<1>6. CASE UNCHANGED linearVars
  BY <1>6 DEF linearVars, LinearTypeOK
<1> QED BY <1>1, <1>2, <1>3, <1>4, <1>5, <1>6 DEF LinearNext

\* The memory, the request under way, the counter of the loop and the local of
\* get have the types ORAM2 gives them, the counter never past the vector.
THEOREM LinearTyped == LinearSpec => []LinearTypeOK
BY LinearInitTyped, LinearStepTyped, PTL DEF LinearSpec

-----------------------------------------------------------------------------

\* The loop that runs is the one of the request.
LinearMatching == phase \in {"get", "set"} => linearReq.kind = phase

\* At the start no loop runs.
LEMMA LinearMatchInit == LinearInit => LinearMatching
BY DEF LinearInit, LinearMatching

\* A loop runs until its request is answered.
LEMMA LinearMatchStep == LinearMatching /\ [LinearNext]_linearVars => LinearMatching'
BY DEF LinearMatching, LinearNext, GetCell, SetCell, GetStep, SetStep, Return, linearVars, LinearGets, LinearSets

\* The loop that runs is always the one of the request.
LEMMA LinearMatches == LinearSpec => []LinearMatching
BY LinearMatchInit, LinearMatchStep, PTL DEF LinearSpec

\* An empty memory is an empty array.
LEMMA InitIsArray == LinearInit => LinearArray!ArrayInit
BY LinearSizeAssumption, LinearZeroAssumption
   DEF LinearInit, LinearArray!ArrayInit, LinearArray!Gets, LinearIndex, linearStage, linearAns

\* A step of the loop that is not at the index asked for is none of the array;
\* the one at the index is its read or its write.
LEMMA StepIsArray ==
    LinearTypeOK /\ LinearMatching /\ [LinearNext]_linearVars => [LinearArray!ArrayNext]_(LinearArray!arrayVars)
<1> SUFFICES ASSUME LinearTypeOK, LinearMatching, [LinearNext]_linearVars
             PROVE  [LinearArray!ArrayNext]_(LinearArray!arrayVars)
  OBVIOUS
<1> USE LinearSizeAssumption
<1>t. /\ linearReq.index \in LinearIndex /\ linearReq.index \in Int /\ 0 <= linearReq.index /\ linearReq.index < LinearSize
      /\ linearReq.kind \in {"get", "set"}
      /\ linearI \in Int /\ LinearSize \in Int
  BY DEF LinearTypeOK, LinearGets, LinearSets, LinearIndex
<1>1. ASSUME NEW r \in LinearGets, GetCell(r) PROVE LinearArray!Ask(r)
  <2>1. r.index \in Int /\ 0 <= r.index /\ r.kind = "get"
    BY DEF LinearGets, LinearIndex
  <2> QED BY <1>1, <2>1 DEF GetCell, LinearArray!Ask, linearStage, linearAns
<1>2. ASSUME NEW r \in LinearSets, SetCell(r) PROVE LinearArray!Ask(r)
  <2>1. r.index \in Int /\ 0 <= r.index /\ r.kind = "set"
    BY DEF LinearSets, LinearIndex
  <2> QED BY <1>2, <2>1 DEF SetCell, LinearArray!Ask, linearStage, linearAns
<1>3. CASE GetStep
  <2>0. linearReq.kind = "get" /\ linearReq' = linearReq /\ linearData' = linearData /\ linearI' = linearI + 1 /\ phase' = phase
    BY <1>3 DEF GetStep, LinearMatching
  <2>1. CASE linearI = linearReq.index
    <3>1. AsInt(linearData[linearI]) = linearData[linearI]
      BY <1>t, <2>1, AsIntIsIdentity DEF LinearTypeOK
    <3>2. linearStage = "asked" /\ linearStage' = "done"
      BY <1>3, <1>t, <2>1 DEF GetStep, linearStage
    <3>3. linearAns' = linearData[linearReq.index]
      BY <1>3, <2>0, <2>1, <3>1, <3>2 DEF GetStep, LinearSelect, linearAns
    <3> QED BY <2>0, <3>2, <3>3 DEF LinearArray!Read, LinearArray!ArrayNext
  <2>2. CASE linearI # linearReq.index
    <3>1. linearStage' = linearStage
      BY <1>3, <1>t, <2>2 DEF GetStep, linearStage
    <3>2. linearAns' = linearAns
      BY <1>3, <2>2, <2>0, <3>1 DEF GetStep, LinearSelect, linearAns
    <3> QED BY <2>0, <3>1, <3>2 DEF LinearArray!arrayVars
  <2> QED BY <2>1, <2>2
<1>4. CASE SetStep
  <2>0. linearReq.kind = "set" /\ linearReq' = linearReq /\ linearI' = linearI + 1 /\ phase' = phase
    BY <1>4 DEF SetStep, LinearMatching
  <2>a. linearAns = NotPresent /\ linearAns' = NotPresent
    BY <2>0 DEF linearAns
  <2>1. CASE linearI = linearReq.index
    <3>1. linearStage = "asked" /\ linearStage' = "done"
      BY <1>4, <1>t, <2>1 DEF SetStep, linearStage
    <3> QED BY <1>4, <2>0, <2>1, <2>a, <3>1 DEF SetStep, LinearArray!Write, LinearArray!ArrayNext
  <2>2. CASE linearI # linearReq.index
    <3>1. linearStage' = linearStage
      BY <1>4, <1>t, <2>2 DEF SetStep, linearStage
    <3> QED BY <1>4, <2>0, <2>2, <2>a, <3>1 DEF SetStep, LinearArray!arrayVars
  <2> QED BY <2>1, <2>2
<1>5. CASE Return
  <2>1. linearStage = "done" /\ linearStage' = "idle"
    BY <1>5, <1>t DEF Return, linearStage
  <2>2. linearAns' = linearAns
    BY <1>5, <2>1 DEF Return, linearAns
  <2> QED BY <1>5, <2>1, <2>2 DEF Return, LinearArray!AnswerRequest, LinearArray!ArrayNext
<1>6. CASE UNCHANGED linearVars
  BY <1>6 DEF linearVars, linearStage, linearAns, LinearArray!arrayVars
<1>7. ASSUME NEW r \in LinearGets \cup LinearSets, LinearArray!Ask(r) PROVE LinearArray!ArrayNext
  BY <1>7 DEF LinearArray!ArrayNext, LinearArray!Requests, LinearArray!Gets, LinearArray!Sets, LinearGets, LinearSets
<1> QED BY <1>1, <1>2, <1>3, <1>4, <1>5, <1>6, <1>7 DEF LinearNext

\* The linear ORAM implements the array its caller sees: a read returns what
\* the last write of that index stored, although the loop passes every cell
\* and the local it fills starts as anything.
THEOREM LinearCorrect == LinearSpec => LinearIsArray
<1>1. LinearSpec => [](LinearTypeOK /\ LinearMatching)
  BY LinearTyped, LinearMatches, PTL
<1> QED
  BY <1>1, InitIsArray, StepIsArray, PTL DEF LinearSpec, LinearIsArray, LinearArray!ArraySpec

-----------------------------------------------------------------------------
(* The database program.                                                   *)

\* The branch the program took.
Branch ==
    /\ dbPc = "run" => oram \in {"plain", "unknown"}
    /\ dbPc \in {"fill", "query", "wait"} => oram \in {"tree", "linear"}

\* What a cell that has been set may hold: its entry, or what the constructor
\* left, where the memory lost the set.
Entered(n) == mem[n] = evl_input[n] \/ (MayLose /\ mem[n] = Zero)

\* The cells whose turn has come and whose request is no longer under way.
Passed == IF stage = "asked" THEN dbI - 1 ELSE dbI

\* While the memory is filled, every cell passed has been set, and the others are
\* as the constructor left them.
Filling ==
    dbPc = "fill" =>
        /\ dbI <= DatabaseSize
        /\ stage # "idle" => dbI > 0 /\ req.kind = "set"
        /\ stage = "asked" => req.index = dbI - 1 /\ req.value = evl_input[dbI - 1]
        /\ \A n \in Index : IF n < Passed THEN Entered(n) ELSE mem[n] = Zero

\* While it is queried every cell has been set; the request under way is the
\* query, and what it has read is the cell, or nothing where it was lost.
Querying ==
    /\ dbPc # "fill" /\ dbPc # "wait" => stage = "idle"
    /\ dbPc = "query" => \A n \in Index : Entered(n)
    /\ dbPc = "wait" =>
         /\ \A n \in Index : Entered(n)
         /\ dbI < NumQueries /\ stage # "idle" /\ req.kind = "get"
         /\ stage = "asked" => req.index = gen_input[dbI] /\ ans = NoAnswer
         /\ stage = "done" => ans = mem[gen_input[dbI]] \/ (MayLose /\ ans = NoAnswer)

\* The inductive invariant of the database program.
DbInv == DbTypeOK /\ Branch /\ Filling /\ Querying /\ SameAnswers

\* What a query that has been answered was told.
Told(n) ==
    /\ oram = "unknown" => dbAnswers[n] = Unreachable
    /\ oram # "unknown" /\ ~MayLose => dbAnswers[n] = evl_input[gen_input[n]]
    /\ MayLose => /\ dbAnswers[n] \in {mem[gen_input[n]], NoAnswer}
                  /\ mem[gen_input[n]] \in {evl_input[gen_input[n]], Zero}

\* SameAnswers query by query.
LEMMA ToldSame == SameAnswers <=> \A n \in Query : n < dbI /\ dbPc # "fill" => Told(n)
BY DEF SameAnswers, Told

\* The program starts before its first cell.
LEMMA InitDbInv == DbInit => DbInv
<1> SUFFICES ASSUME DbInit PROVE DbInv
  OBVIOUS
<1> USE ArrayAssumption, DatabaseSizeAssumption
<1>1. DbTypeOK
  BY DEF DbInit, DbTypeOK, ArrayInit, ArrayTypeOK, Kinds, Requests
<1>2. Branch /\ Filling /\ Querying
  BY DEF DbInit, ArrayInit, Branch, Filling, Passed, Querying, Kinds
<1>3. SameAnswers
  BY DEF DbInit, SameAnswers, Query
<1> QED BY <1>1, <1>2, <1>3 DEF DbInv

\* A query is answered without a memory.
LEMMA RunDbInv == DbInv /\ Run => DbInv'
<1> SUFFICES ASSUME DbInv, Run PROVE DbInv'
  OBVIOUS
<1> USE ArrayAssumption, DatabaseSizeAssumption
<1>1. /\ stage' = stage /\ mem' = mem /\ req' = req /\ ans' = ans
      /\ oram' = oram /\ evl_input' = evl_input /\ gen_input' = gen_input
      /\ dbPc = "run" /\ dbPc' \in {"run", "done"} /\ stage = "idle"
      /\ oram \in {"plain", "unknown"} /\ ~MayLose
  BY DEF Run, arrayVars, DbInv, Branch, Querying, MayLose
<1>2. CASE dbI < NumQueries
  <2>1. dbI \in Query /\ dbI' = dbI + 1 /\ dbPc' = "run"
    BY <1>2 DEF Run, Query, DbInv, DbTypeOK
  <2>2. Direct(dbI) = IF oram = "unknown" THEN Unreachable ELSE evl_input[gen_input[dbI]]
    BY <1>1 DEF Direct
  <2>3. Direct(dbI) \in Value \cup {Unreachable}
    BY <2>1, <2>2 DEF DbInv, DbTypeOK
  <2>4. dbAnswers' = [dbAnswers EXCEPT ![dbI] = Direct(dbI)]
    BY <1>2 DEF Run
  <2>5. DbTypeOK'
    BY <1>1, <2>1, <2>3, <2>4 DEF DbInv, DbTypeOK, ArrayTypeOK
  <2>6. SameAnswers'
    <3> SUFFICES ASSUME NEW n \in Query, n < dbI' PROVE Told(n)'
      BY DEF SameAnswers, Told
    <3>1. CASE n = dbI
      <4>1. dbAnswers'[n] = Direct(dbI)
        BY <2>1, <2>4, <3>1 DEF DbInv, DbTypeOK
      <4> QED BY <1>1, <2>2, <3>1, <4>1 DEF Told, MayLose
    <3>2. CASE n # dbI
      <4>1. n < dbI
        BY <2>1, <3>2 DEF DbInv, DbTypeOK, Query
      <4>2. Told(n)
        BY <1>1, <4>1, ToldSame DEF DbInv
      <4>3. dbAnswers'[n] = dbAnswers[n]
        BY <2>1, <2>4, <3>2 DEF DbInv, DbTypeOK
      <4> QED BY <1>1, <4>2, <4>3 DEF Told, MayLose
    <3> QED BY <3>1, <3>2
  <2> QED BY <1>1, <2>1, <2>5, <2>6 DEF DbInv, Branch, Filling, Querying
<1>3. CASE ~(dbI < NumQueries)
  <2>1. dbI' = dbI /\ dbAnswers' = dbAnswers /\ dbPc' = "done"
    BY <1>3 DEF Run
  <2> QED BY <1>1, <2>1 DEF DbInv, DbTypeOK, ArrayTypeOK, Branch, Filling, Querying, SameAnswers, MayLose
<1> QED BY <1>2, <1>3

\* A cell is set, or the queries begin.
LEMMA FillDbInv == DbInv /\ Fill => DbInv'
<1> SUFFICES ASSUME DbInv, Fill PROVE DbInv'
  OBVIOUS
<1> USE ArrayAssumption, DatabaseSizeAssumption
<1>1. /\ oram' = oram /\ evl_input' = evl_input /\ gen_input' = gen_input
      /\ dbAnswers' = dbAnswers /\ dbPc = "fill" /\ stage = "idle"
      /\ oram \in {"tree", "linear"} /\ dbI \in Nat /\ dbI <= DatabaseSize
      /\ \A n \in Index : IF n < dbI THEN Entered(n) ELSE mem[n] = Zero
  BY DEF Fill, DbInv, DbTypeOK, Branch, Filling, Passed
<1>2. CASE Filled(dbI)
  <2>1. dbPc' = "query" /\ dbI' = 0 /\ stage' = stage /\ mem' = mem /\ req' = req /\ ans' = ans
    BY <1>2 DEF Fill, arrayVars
  <2>2. \A n \in Index : Entered(n)'
    <3>1. \A n \in Index : n < dbI
      BY <1>1, <1>2 DEF Filled
    <3> QED BY <1>1, <2>1, <3>1 DEF Entered, MayLose
  <2>3. DbTypeOK'
    BY <1>1, <2>1 DEF DbInv, DbTypeOK, ArrayTypeOK
  <2> QED BY <1>1, <2>1, <2>2, <2>3 DEF DbInv, Branch, Filling, Querying, SameAnswers, Query
<1>3. CASE ~Filled(dbI)
  <2>1. dbI \in Index /\ dbI < DatabaseSize
    BY <1>1, <1>3 DEF Filled
  <2>2. /\ dbPc' = "fill" /\ dbI' = dbI + 1 /\ stage' = "asked" /\ mem' = mem
        /\ req' = [kind |-> "set", index |-> dbI, value |-> evl_input[dbI]]
        /\ ans' = NoAnswer
    BY <1>1, <1>3 DEF Fill, Ask
  <2>3. req' \in Requests
    BY <2>1, <2>2 DEF Requests, Sets, DbInv, DbTypeOK
  <2>4. DbTypeOK'
    BY <1>1, <2>2, <2>3 DEF DbInv, DbTypeOK, ArrayTypeOK
  <2>5. Filling'
    <3>1. Passed' = dbI
      BY <1>1, <2>2 DEF Passed
    <3>2. \A n \in Index : IF n < dbI THEN Entered(n)' ELSE mem'[n] = Zero
      BY <1>1, <2>2 DEF Entered, MayLose
    <3> QED BY <1>1, <2>1, <2>2, <3>1, <3>2 DEF Filling
  <2> QED BY <1>1, <2>2, <2>4, <2>5 DEF DbInv, Branch, Querying, SameAnswers
<1> QED BY <1>2, <1>3

\* A query is asked of the memory, or the program ends.
LEMMA AskQueryDbInv == DbInv /\ AskQuery => DbInv'
<1> SUFFICES ASSUME DbInv, AskQuery PROVE DbInv'
  OBVIOUS
<1> USE ArrayAssumption, DatabaseSizeAssumption
<1>1. /\ oram' = oram /\ evl_input' = evl_input /\ gen_input' = gen_input
      /\ dbAnswers' = dbAnswers /\ dbI' = dbI /\ dbPc = "query" /\ stage = "idle"
      /\ oram \in {"tree", "linear"} /\ mem' = mem
      /\ \A n \in Index : Entered(n)
  BY DEF AskQuery, Ask, arrayVars, DbInv, Branch, Querying
<1>2. SameAnswers' /\ \A n \in Index : Entered(n)'
  <2>1. dbPc' # "fill"
    BY DEF AskQuery
  <2> QED BY <1>1, <2>1 DEF DbInv, SameAnswers, Entered, MayLose
<1>3. CASE dbI < NumQueries
  <2>1. dbI \in Query /\ gen_input[dbI] \in Index
    BY <1>3 DEF DbInv, DbTypeOK, Query
  <2>2. /\ dbPc' = "wait" /\ stage' = "asked" /\ ans' = NoAnswer
        /\ req' = [kind |-> "get", index |-> gen_input[dbI], value |-> Zero]
    BY <1>3 DEF AskQuery, Ask
  <2>3. req' \in Requests
    BY <2>1, <2>2 DEF Requests, Gets
  <2>4. DbTypeOK'
    BY <1>1, <2>2, <2>3 DEF DbInv, DbTypeOK, ArrayTypeOK
  <2> QED BY <1>1, <1>2, <1>3, <2>2, <2>4 DEF DbInv, Branch, Filling, Querying
<1>4. CASE ~(dbI < NumQueries)
  <2>1. dbPc' = "done" /\ req' = req /\ stage' = stage /\ ans' = ans
    BY <1>4 DEF AskQuery, arrayVars
  <2> QED BY <1>1, <1>2, <2>1 DEF DbInv, DbTypeOK, ArrayTypeOK, Branch, Filling, Querying
<1> QED BY <1>3, <1>4

\* The answer of a query is taken.
LEMMA TakeAnswerDbInv == DbInv /\ TakeAnswer => DbInv'
<1> SUFFICES ASSUME DbInv, TakeAnswer PROVE DbInv'
  OBVIOUS
<1> USE ArrayAssumption, DatabaseSizeAssumption
<1>1. /\ oram' = oram /\ evl_input' = evl_input /\ gen_input' = gen_input
      /\ dbPc = "wait" /\ dbPc' = "query" /\ stage = "done" /\ stage' = "idle"
      /\ mem' = mem /\ req' = req /\ ans' = ans /\ dbI' = dbI + 1
      /\ dbAnswers' = [dbAnswers EXCEPT ![dbI] = ans]
      /\ dbI < NumQueries /\ oram \in {"tree", "linear"}
      /\ ans = mem[gen_input[dbI]] \/ (MayLose /\ ans = NoAnswer)
      /\ \A n \in Index : Entered(n)
  BY DEF TakeAnswer, AnswerRequest, Placed, DbInv, Branch, Querying
<1>2. dbI \in Query /\ dbI \in Nat
  BY <1>1 DEF DbInv, DbTypeOK, Query
<1>3. DbTypeOK'
  BY <1>1, <1>2 DEF DbInv, DbTypeOK, ArrayTypeOK
<1>4. \A n \in Index : Entered(n)'
  BY <1>1 DEF Entered, MayLose
<1>5. SameAnswers'
  <2> SUFFICES ASSUME NEW n \in Query, n < dbI' PROVE Told(n)'
    BY DEF SameAnswers, Told
  <2>1. CASE n = dbI
    <3>1. dbAnswers'[n] = ans
      BY <1>1, <1>2, <2>1 DEF DbInv, DbTypeOK
    <3>2. gen_input[n] \in Index
      BY DEF DbInv, DbTypeOK
    <3>3. Entered(gen_input[n])
      BY <1>1, <3>2
    <3> QED BY <1>1, <2>1, <3>1, <3>3 DEF Told, Entered, MayLose
  <2>2. CASE n # dbI
    <3>1. n < dbI
      BY <1>1, <1>2, <2>2 DEF Query
    <3>2. Told(n)
      BY <1>1, <3>1, ToldSame DEF DbInv
    <3>3. dbAnswers'[n] = dbAnswers[n]
      BY <1>1, <1>2, <2>2 DEF DbInv, DbTypeOK
    <3> QED BY <1>1, <3>2, <3>3 DEF Told, MayLose
  <2> QED BY <2>1, <2>2
<1> QED BY <1>1, <1>3, <1>4, <1>5 DEF DbInv, Branch, Filling, Querying

\* The memory works on a request.
LEMMA MemoryDbInv == DbInv /\ Memory => DbInv'
<1> SUFFICES ASSUME DbInv, Memory PROVE DbInv'
  OBVIOUS
<1> USE ArrayAssumption, DatabaseSizeAssumption
<1>1. /\ oram' = oram /\ evl_input' = evl_input /\ gen_input' = gen_input
      /\ dbPc' = dbPc /\ dbI' = dbI /\ dbAnswers' = dbAnswers /\ MayLose' = MayLose
  BY DEF Memory, dbVars, MayLose
<1>2. Branch' /\ stage # "idle" /\ (dbPc = "fill" \/ dbPc = "wait")
  BY <1>1 DEF Memory, Read, Write, Miss, AnswerRequest, DbInv, Branch, Querying
<1>3. mem' = mem => SameAnswers' /\ \A n \in Index : Entered(n) => Entered(n)'
  BY <1>1 DEF DbInv, SameAnswers, Entered
<1>4. CASE Read
  <2>1. /\ stage = "asked" /\ req.kind = "get" /\ stage' = "done"
        /\ ans' = mem[req.index] /\ mem' = mem /\ req' = req
    BY <1>4 DEF Read
  <2>2. req.index \in Index
    BY DEF DbInv, DbTypeOK, ArrayTypeOK, Requests, Gets, Sets
  <2>3. DbTypeOK'
    BY <1>1, <2>1, <2>2 DEF DbInv, DbTypeOK, ArrayTypeOK
  <2> QED BY <1>1, <1>2, <1>3, <2>1, <2>3 DEF DbInv, Filling, Querying
<1>5. CASE Write
  <2>1. /\ stage = "asked" /\ req.kind = "set" /\ stage' = "done" /\ dbPc = "fill"
        /\ mem' = [mem EXCEPT ![req.index] = req.value] /\ req' = req /\ ans' = ans
    BY <1>2, <1>5 DEF Write, DbInv, Querying
  <2>2. req.index \in Index /\ req.value \in Value
    BY DEF DbInv, DbTypeOK, ArrayTypeOK, Requests, Gets, Sets
  <2>3. DbTypeOK'
    BY <1>1, <2>1, <2>2 DEF DbInv, DbTypeOK, ArrayTypeOK
  <2>4. /\ dbI <= DatabaseSize /\ dbI > 0 /\ req.index = dbI - 1 /\ req.value = evl_input[dbI - 1]
        /\ \A n \in Index : IF n < dbI - 1 THEN Entered(n) ELSE mem[n] = Zero
    BY <2>1 DEF DbInv, Filling, Passed
  <2>5. mem \in [Index -> Value] /\ dbI \in Nat
    BY DEF DbInv, DbTypeOK, ArrayTypeOK
  <2>6. ASSUME NEW n \in Index PROVE IF n < dbI THEN Entered(n)' ELSE mem'[n] = Zero
    <3>1. CASE n = dbI - 1
      BY <1>1, <2>1, <2>4, <2>5, <3>1 DEF Entered
    <3>2. CASE n # dbI - 1
      <4>1. mem'[n] = mem[n]
        BY <2>1, <2>4, <2>5, <3>2
      <4>2. n < dbI <=> n < dbI - 1
        BY <2>5, <3>2
      <4> QED BY <1>1, <2>4, <4>1, <4>2 DEF Entered
    <3> QED BY <3>1, <3>2
  <2>7. Passed' = dbI
    BY <1>1, <2>1 DEF Passed
  <2>8. Filling'
    BY <1>1, <2>1, <2>4, <2>6, <2>7 DEF Filling
  <2>9. SameAnswers' /\ Querying'
    BY <1>1, <2>1 DEF SameAnswers, Querying
  <2> QED BY <1>2, <2>3, <2>8, <2>9 DEF DbInv
<1>6. CASE MayLose /\ Miss
  <2>1. stage = "asked" /\ stage' = "done" /\ mem' = mem /\ req' = req /\ ans' = ans
    BY <1>6 DEF Miss
  <2>2. DbTypeOK'
    BY <1>1, <2>1 DEF DbInv, DbTypeOK, ArrayTypeOK
  <2>3. Filling'
    <3> SUFFICES ASSUME dbPc = "fill"
                 PROVE  /\ dbI <= DatabaseSize /\ dbI > 0 /\ req.kind = "set"
                        /\ \A n \in Index : IF n < dbI THEN Entered(n)' ELSE mem[n] = Zero
      BY <1>1, <2>1 DEF Filling, Passed
    <3>1. /\ dbI <= DatabaseSize /\ dbI > 0 /\ req.kind = "set" /\ dbI \in Nat
          /\ \A n \in Index : IF n < dbI - 1 THEN Entered(n) ELSE mem[n] = Zero
      BY <2>1 DEF DbInv, DbTypeOK, Filling, Passed
    <3>2. ASSUME NEW n \in Index PROVE IF n < dbI THEN Entered(n)' ELSE mem[n] = Zero
      <4>1. n < dbI => n < dbI - 1 \/ n = dbI - 1
        BY <3>1
      <4>2. n < dbI - 1 => n < dbI
        BY <3>1
      <4> QED BY <1>1, <1>6, <2>1, <3>1, <4>1, <4>2 DEF Entered
    <3> QED BY <3>1, <3>2
  <2>4. Querying'
    BY <1>1, <1>2, <1>3, <1>6, <2>1 DEF DbInv, Querying
  <2> QED BY <1>2, <1>3, <2>1, <2>2, <2>3, <2>4 DEF DbInv
<1>7. CASE dbPc = "fill" /\ AnswerRequest
  <2>1. stage = "done" /\ stage' = "idle" /\ mem' = mem /\ req' = req /\ ans' = ans
    BY <1>7 DEF AnswerRequest
  <2>2. DbTypeOK'
    BY <1>1, <2>1 DEF DbInv, DbTypeOK, ArrayTypeOK
  <2>3. Filling'
    BY <1>1, <1>7, <2>1 DEF DbInv, Filling, Passed, Entered
  <2> QED BY <1>1, <1>2, <1>3, <1>7, <2>1, <2>2, <2>3 DEF DbInv, Querying
<1> QED BY <1>4, <1>5, <1>6, <1>7 DEF Memory

\* One step of the program or of its memory keeps all of it.
LEMMA StepDbInv == DbInv /\ [DbNext]_dbAllVars => DbInv'
<1>1. DbInv /\ UNCHANGED dbAllVars => DbInv'
  BY DEF dbAllVars, dbVars, arrayVars, DbInv, DbTypeOK, ArrayTypeOK, Branch, Filling, Querying,
         Passed, Entered, SameAnswers, MayLose
<1> QED BY <1>1, RunDbInv, FillDbInv, AskQueryDbInv, TakeAnswerDbInv, MemoryDbInv DEF DbNext

\* The database program runs within its invariant.
LEMMA DbInvariant == DbSpec => []DbInv
BY InitDbInv, StepDbInv, PTL DEF DbSpec

\* Every query answered so far has the entry it asked for, whether the program
\* reads the database directly, through the tree ORAM or through the linear one.
\* Where the tree loses requests (Lossy), a query it was asked has the entry, or
\* NOTPRESENT if it was lost, or zero if the set of its cell was: never another
\* cell's entry, for every size of the database and every number of queries.
THEOREM DatabaseAnswers == DbSpec => []SameAnswers
<1>1. DbInv => SameAnswers
  BY DEF DbInv
<1> QED BY <1>1, DbInvariant, PTL

\* Before the first query the memory holds the whole database, each cell its
\* entry, or zero where a tree that loses requests lost the set.
THEOREM DatabaseFilled == DbSpec => []FilledFirst
<1>1. DbInv => FilledFirst
  BY DEF DbInv, Querying, Entered, FilledFirst
<1> QED BY <1>1, DbInvariant, PTL

-----------------------------------------------------------------------------
(* The hybrid database.                                                    *)

\* What the parties brought.
HdGiven ==
    /\ split \in BOOLEAN
    /\ db \in [Cell -> [hi : CellWords, lo : CellWords]]
    /\ queries \in [HybridQuery -> Asked]

\* The loops stay within their arrays.
HdPlace ==
    /\ hybridDbPc = "fill" => hybridK \in Cell
    /\ hybridDbPc = "ask" => hybridK \in HybridQuery

\* The cells set so far.
HdCells ==
    \A i \in Cell :
        cells[i] = IF hybridDbPc = "fill" /\ ~(i < hybridK) THEN 0 ELSE JoinedWords(db[i])

\* The queries that have had their turn.
Answered(q) == hybridDbPc \in {"bits", "done"} \/ (hybridDbPc = "ask" /\ q < hybridK)

\* Every query that has been answered has the answer of the database.
HdAnswers == \A q \in HybridQuery : Answered(q) => dbOutput[q] = Get(queries[q])

\* In the first program a secret cell is flagged once it has been asked for; the
\* split program flags none.
HdFlags ==
    \A i \in Secret :
        flags[i] = (~split /\ \E q \in HybridQuery : Answered(q) /\ queries[q] = i + HybridSize)

\* The bits given to the circuit in the end.
HdBits ==
    hybridDbPc = "done" =>
        dbBitInput = IF split THEN [b \in DbBits |-> DataBit(b[1], b[2])]
                     ELSE [b \in DbBits |-> IF flags[b] THEN 1 ELSE 0]

\* The inductive invariant.
HdIInv == HybridDbTypeOK /\ HdGiven /\ HdPlace /\ HdCells /\ HdAnswers /\ HdFlags /\ HdBits

\* The word of a cell and the number for an absent one fit two words; a cell of
\* the first program is 0 or 1, which the number for an absent one is not.
LEMMA WordsFit ==
    ASSUME HdGiven
    PROVE  /\ \A i \in Cell : JoinedWords(db[i]) \in 0 .. Two[2 * Width] - 1
           /\ Absent \in 0 .. Two[2 * Width] - 1
           /\ ~split => Absent > 1 /\ \A i \in Cell : JoinedWords(db[i]) \in {0, 1}
<1> DEFINE t == Two[Width]  u == Two[2 * Width]
<1>0. Width \in Nat /\ Width > 2 /\ 2 * Width \in Nat /\ Width + Width = 2 * Width
    BY HybridSizeAssumption
<1>1. t \in Nat /\ t > 2 /\ u \in Nat /\ u > 0
    BY <1>0, TwoPositive
<1>2. u = t * t
    BY <1>0, TwoAdds
<1> HIDE DEF u
<1>3. ASSUME NEW i \in Cell
      PROVE  /\ db[i].hi \in 0 .. t - 1 /\ db[i].lo \in 0 .. t - 1
    BY HybridSizeAssumption DEF HdGiven
<1> HIDE DEF t
<1>4. 1 \in 0 .. u - 1 /\ 0 \in 0 .. u - 1
    BY <1>1, <1>2
<1>5. ASSUME NEW i \in Cell PROVE JoinedWords(db[i]) \in 0 .. u - 1
    <2>1. CASE split
        <3> DEFINE h == db[i].hi  l == db[i].lo  p == h * t
        <3>1. h \in 0 .. t - 1 /\ l \in 0 .. t - 1
            BY <1>3
        <3>2. JoinedWords(db[i]) = h * t + l
            BY <2>1 DEF JoinedWords, t
        <3> HIDE DEF h, l
        <3>3. p \in Nat /\ p <= (t - 1) * t
            <4>1. (t - 1 - h) * t \in Nat
                BY <1>1, <3>1
            <4>2. (t - 1) * t = h * t + (t - 1 - h) * t
                BY <1>1, <3>1
            <4>3. h * t \in Nat
                BY <1>1, <3>1
            <4> QED BY <4>1, <4>2, <4>3
        <3>4. (t - 1) * t = t * t - t /\ t * t \in Nat
            BY <1>1
        <3> HIDE DEF p
        <3>5. p + l \in 0 .. u - 1
            BY <1>1, <1>2, <3>1, <3>3, <3>4
        <3> QED BY <3>2, <3>5 DEF p
    <2>2. CASE ~split
        BY <2>2, <1>4 DEF JoinedWords
    <2> QED BY <2>1, <2>2
<1>6. ~split => Absent > 1 /\ \A i \in Cell : JoinedWords(db[i]) \in {0, 1}
    <2>1. Two[Width - 1] \in Nat /\ Two[Width - 1] > Width - 1
        BY <1>0, TwoPositive
    <2>2. Two[Width - 1] - 1 > 1
        BY <1>0, <2>1
    <2> QED BY <2>2 DEF Absent, JoinedWords
<1>7. Absent \in 0 .. u - 1
    <2>1. ASSUME NEW n \in Nat, NEW m \in Nat, n + m = 2 * Width PROVE Two[n] - 1 \in 0 .. u - 1
        <3>1. Two[n] \in Nat /\ Two[n] > 0 /\ Two[m] \in Nat /\ Two[m] > 0
            BY TwoPositive
        <3>2. u = Two[n] * Two[m]
            BY <2>1, TwoAdds DEF u
        <3> DEFINE a == Two[n]  b == Two[m]
        <3>3. a \in Nat /\ a > 0 /\ b \in Nat /\ b > 0 /\ u = a * b
            BY <3>1, <3>2
        <3> HIDE DEF a, b
        <3>4. a * (b - 1) \in Nat /\ a * b = a + a * (b - 1)
            BY <3>3
        <3>5. a - 1 \in 0 .. u - 1
            BY <1>1, <3>3, <3>4
        <3> QED BY <3>5 DEF a
    <2>2. CASE split
        <3>1. 2 * Width - 1 \in Nat /\ 1 \in Nat /\ (2 * Width - 1) + 1 = 2 * Width
            BY <1>0
        <3>2. Two[2 * Width - 1] - 1 \in 0 .. u - 1
            BY <2>1, <3>1
        <3> QED BY <2>2, <3>2 DEF Absent
    <2>3. CASE ~split
        <3>1. Width - 1 \in Nat /\ Width + 1 \in Nat /\ (Width - 1) + (Width + 1) = 2 * Width
            BY <1>0
        <3>2. Two[Width - 1] - 1 \in 0 .. u - 1
            BY <2>1, <3>1
        <3> QED BY <2>3, <3>2 DEF Absent
    <2> QED BY <2>2, <2>3
<1> QED BY <1>5, <1>6, <1>7 DEF u

\* The program starts before its first cell.
LEMMA HdInitOK == HybridDbInit => HdIInv
<1> SUFFICES ASSUME HybridDbInit PROVE HdIInv
    OBVIOUS
<1> USE DEF HybridDbInit
<1>1. Two[2 * Width] \in Nat /\ Two[2 * Width] > 0
    BY HybridSizeAssumption, TwoPositive
<1>2. 0 \in 0 .. Two[2 * Width] - 1
    BY <1>1
<1>3. hybridK \in Cell /\ hybridK \in 0 .. HybridSize + Queries
    BY HybridSizeAssumption DEF Cell
<1>4. HybridDbTypeOK
    BY <1>2, <1>3 DEF HybridDbTypeOK
<1>5. HdGiven /\ HdPlace /\ HdBits
    BY <1>3 DEF HdGiven, HdPlace, HdBits
<1>6. HdCells
    BY DEF HdCells, Cell
<1>7. HdAnswers /\ HdFlags
    BY DEF HdAnswers, HdFlags, Answered
<1> QED BY <1>4, <1>5, <1>6, <1>7 DEF HdIInv

\* A cell is filled.
LEMMA FillCellInv == HdIInv /\ FillCell => HdIInv'
<1> SUFFICES ASSUME HdIInv, FillCell PROVE HdIInv'
    OBVIOUS
<1>1. /\ UNCHANGED <<split, db, queries, flags, dbOutput, dbBitInput>>
      /\ hybridDbPc = "fill" /\ cells' = Set(hybridK, JoinedWords(db[hybridK]))
      /\ Advance(HybridSize, "ask")
    BY DEF FillCell
<1>2. HybridDbTypeOK /\ HdGiven /\ HdPlace /\ HdCells /\ HdFlags
    BY DEF HdIInv
<1>3. hybridK \in Cell
    BY <1>1, <1>2 DEF HdPlace
<1>4. HdGiven'
    BY <1>1, <1>2 DEF HdGiven
<1>5. \/ hybridDbPc' = "fill" /\ hybridK' = hybridK + 1 /\ hybridK + 1 \in Cell
      \/ hybridDbPc' = "ask" /\ hybridK' = 0 /\ hybridK + 1 = HybridSize
    BY <1>1, <1>3, HybridSizeAssumption DEF Advance, Cell
<1>6. hybridK' \in 0 .. HybridSize + Queries /\ HdPlace'
    BY <1>5, HybridSizeAssumption DEF HdPlace, Cell, HybridQuery
<1>7. \A i \in Cell : cells'[i] = IF i = hybridK THEN JoinedWords(db[hybridK]) ELSE cells[i]
    BY <1>1 DEF Set
<1>8. cells' \in [Cell -> 0 .. Two[2 * Width] - 1]
    <2>1. JoinedWords(db[hybridK]) \in 0 .. Two[2 * Width] - 1
        BY <1>2, <1>3, WordsFit
    <2>2. cells \in [Cell -> 0 .. Two[2 * Width] - 1]
        BY <1>2 DEF HybridDbTypeOK
    <2> QED BY <1>1, <2>1, <2>2 DEF Set
<1>9. HybridDbTypeOK'
    BY <1>1, <1>2, <1>5, <1>6, <1>8 DEF HybridDbTypeOK, DbBits
<1>10. HdCells'
    <2> SUFFICES ASSUME NEW i \in Cell
                 PROVE  cells'[i] = IF hybridDbPc' = "fill" /\ ~(i < hybridK') THEN 0
                                    ELSE JoinedWords(db[i])
        BY <1>1 DEF HdCells, JoinedWords
    <2>1. cells[i] = IF ~(i < hybridK) THEN 0 ELSE JoinedWords(db[i])
        BY <1>1, <1>2 DEF HdCells
    <2>2. i \in Int /\ hybridK \in Int /\ i < HybridSize
        BY <1>3, HybridSizeAssumption DEF Cell
    <2>3. CASE i = hybridK
        BY <1>7, <1>5, <2>2, <2>3
    <2>4. CASE i # hybridK
        BY <1>7, <1>5, <2>1, <2>2, <2>4, HybridSizeAssumption
    <2> QED BY <2>3, <2>4
<1>11. HdAnswers' /\ HdFlags' /\ HdBits'
    <2>1. \A q \in HybridQuery : ~Answered(q)'
        BY <1>5 DEF Answered, HybridQuery
    <2>2. \A q \in HybridQuery : ~Answered(q)
        BY <1>1 DEF Answered
    <2>3. HdAnswers'
        BY <2>1 DEF HdAnswers
    <2>4. HdFlags'
        BY <1>1, <1>2, <2>1, <2>2 DEF HdFlags
    <2>5. HdBits'
        BY <1>5 DEF HdBits
    <2> QED BY <2>3, <2>4, <2>5
<1> QED BY <1>4, <1>6, <1>9, <1>10, <1>11 DEF HdIInv

\* A query is answered, or left to the circuit.
LEMMA AskCellInv == HdIInv /\ AskCell => HdIInv'
<1> SUFFICES ASSUME HdIInv, AskCell PROVE HdIInv'
    OBVIOUS
<1>1. /\ UNCHANGED <<split, db, queries, cells, dbBitInput>>
      /\ hybridDbPc = "ask" /\ Advance(Queries, "bits")
      /\ dbOutput' = [dbOutput EXCEPT ![hybridK] = Get(queries[hybridK])]
      /\ flags' = IF split THEN flags ELSE Flagged(queries[hybridK])
    BY DEF AskCell
<1>2. HybridDbTypeOK /\ HdGiven /\ HdPlace /\ HdCells /\ HdAnswers /\ HdFlags
    BY DEF HdIInv
<1>3. hybridK \in HybridQuery
    BY <1>1, <1>2 DEF HdPlace
<1>4. HdGiven'
    BY <1>1, <1>2 DEF HdGiven
<1>5. \/ hybridDbPc' = "ask" /\ hybridK' = hybridK + 1 /\ hybridK + 1 \in HybridQuery
      \/ hybridDbPc' = "bits" /\ hybridK' = 0 /\ hybridK + 1 = Queries
    BY <1>1, <1>3, HybridSizeAssumption DEF Advance, HybridQuery
<1>6. hybridK' \in 0 .. HybridSize + Queries /\ HdPlace'
    BY <1>5, HybridSizeAssumption DEF HdPlace, Cell, HybridQuery
<1>7. \A q \in HybridQuery : Answered(q)' <=> q = hybridK \/ Answered(q)
    BY <1>1, <1>3, <1>5, HybridSizeAssumption DEF Answered, HybridQuery
<1>8. \A n : Get(n)' = Get(n)
    BY <1>1 DEF Get, Absent
<1>9. Get(queries[hybridK]) \in 0 .. Two[2 * Width] - 1
    <2>1. Absent \in 0 .. Two[2 * Width] - 1
        BY <1>2, WordsFit
    <2> QED BY <1>2, <2>1 DEF Get, HybridDbTypeOK
<1>10. /\ dbOutput \in [HybridQuery -> 0 .. Two[2 * Width] - 1]
       /\ flags \in [Secret -> BOOLEAN]
    BY <1>2 DEF HybridDbTypeOK
<1>11. HybridDbTypeOK'
    <2>1. dbOutput' \in [HybridQuery -> 0 .. Two[2 * Width] - 1]
        BY <1>1, <1>9, <1>10
    <2>2. flags' \in [Secret -> BOOLEAN]
        BY <1>1, <1>10 DEF Flagged
    <2> QED BY <1>1, <1>2, <1>5, <1>6, <2>1, <2>2 DEF HybridDbTypeOK, DbBits
<1>12. HdCells'
    BY <1>1, <1>2, <1>5 DEF HdCells, JoinedWords
<1>13. HdAnswers'
    <2> SUFFICES ASSUME NEW q \in HybridQuery, Answered(q)'
                 PROVE  dbOutput'[q] = Get(queries[q])
        BY <1>1, <1>8 DEF HdAnswers
    <2>1. CASE q = hybridK
        BY <1>1, <1>10, <2>1
    <2>2. CASE q # hybridK
        <3>1. Answered(q)
            BY <1>7, <2>2
        <3> QED BY <1>1, <1>2, <1>10, <2>2, <3>1 DEF HdAnswers
    <2> QED BY <2>1, <2>2
<1>14. HdFlags'
    <2> SUFFICES ASSUME NEW i \in Secret
                 PROVE  flags'[i] = (~split /\ \E q \in HybridQuery : Answered(q)' /\ queries[q] = i + HybridSize)
        BY <1>1 DEF HdFlags
    <2>1. flags[i] = (~split /\ \E q \in HybridQuery : Answered(q) /\ queries[q] = i + HybridSize)
        BY <1>2 DEF HdFlags
    <2>2. CASE split
        BY <1>1, <2>1, <2>2
    <2>3. CASE ~split
        <3>1. flags'[i] = (flags[i] \/ i + HybridSize = queries[hybridK])
            BY <1>1, <2>3 DEF Flagged
        <3>2. (\E q \in HybridQuery : Answered(q)' /\ queries[q] = i + HybridSize)
                <=> (\E q \in HybridQuery : Answered(q) /\ queries[q] = i + HybridSize)
                    \/ i + HybridSize = queries[hybridK]
            BY <1>3, <1>7, Zenon
        <3>3. flags[i] \in BOOLEAN
            BY <1>10
        <3> QED BY <2>1, <2>3, <3>1, <3>2, <3>3
    <2> QED BY <2>2, <2>3
<1>15. HdBits'
    BY <1>5 DEF HdBits
<1> QED BY <1>4, <1>6, <1>11, <1>12, <1>13, <1>14, <1>15 DEF HdIInv

\* The bits for the circuit are made.
LEMMA MakeBitsInv == HdIInv /\ MakeBits => HdIInv'
<1> SUFFICES ASSUME HdIInv, MakeBits PROVE HdIInv'
    OBVIOUS
<1>1. /\ UNCHANGED <<split, db, queries, cells, flags, dbOutput, hybridK>>
      /\ hybridDbPc = "bits" /\ hybridDbPc' = "done"
      /\ dbBitInput' = IF split THEN [b \in DbBits |-> DataBit(b[1], b[2])]
                       ELSE [b \in DbBits |-> IF flags[b] THEN 1 ELSE 0]
    BY DEF MakeBits
<1>2. HybridDbTypeOK /\ HdGiven /\ HdPlace /\ HdCells /\ HdAnswers /\ HdFlags
    BY DEF HdIInv
<1>3. HdGiven' /\ HdPlace'
    BY <1>1, <1>2 DEF HdGiven, HdPlace
<1>4. \A q : Answered(q)' /\ Answered(q)
    BY <1>1 DEF Answered
<1>5. \A n : Get(n)' = Get(n)
    BY <1>1 DEF Get, Absent
<1>6. HdCells'
    BY <1>1, <1>2 DEF HdCells, JoinedWords
<1>7. HdAnswers'
    BY <1>1, <1>2, <1>4, <1>5 DEF HdAnswers
<1>8. HdFlags'
    BY <1>1, <1>2, <1>4 DEF HdFlags
<1>9. DbBits' = DbBits
    BY <1>1 DEF DbBits
<1>10. \A i, j : DataBit(i, j)' = DataBit(i, j)
    BY <1>1 DEF DataBit, BitOf, JoinedWords
<1>11. HdBits'
    BY <1>1, <1>9, <1>10 DEF HdBits
<1>12. dbBitInput' \in [DbBits -> {0, 1}]
    <2>1. CASE ~split
        BY <1>1, <2>1
    <2>2. CASE split
        <3>1. ASSUME NEW b \in DbBits PROVE DataBit(b[1], b[2]) \in {0, 1}
            <4>1. b[1] \in Cell /\ b[2] \in Nat
                BY <2>2, HybridSizeAssumption DEF DbBits, CellBit
            <4>2. JoinedWords(db[b[1]]) \in Nat
                <5>1. JoinedWords(db[b[1]]) \in 0 .. Two[2 * Width] - 1
                    BY <1>2, <4>1, WordsFit
                <5> QED BY <5>1
            <4>3. Two[b[2]] \in Nat /\ Two[b[2]] > 0
                BY <4>1, TwoPositive
            <4>4. JoinedWords(db[b[1]]) \div Two[b[2]] \in Nat
                BY <4>2, <4>3, Divided
            <4> QED BY <4>4 DEF DataBit, BitOf
        <3> QED BY <1>1, <2>2, <3>1
    <2> QED BY <1>2, <2>1, <2>2 DEF HdGiven
<1>13. HybridDbTypeOK'
    BY <1>1, <1>2, <1>9, <1>12 DEF HybridDbTypeOK
<1> QED BY <1>3, <1>6, <1>7, <1>8, <1>11, <1>13 DEF HdIInv

\* Every step keeps the invariant of the hybrid database.
LEMMA HdStep == HdIInv /\ [HybridDbNext]_hybridDbVars => HdIInv'
<1> SUFFICES ASSUME HdIInv, [HybridDbNext]_hybridDbVars PROVE HdIInv'
    OBVIOUS
<1>1. CASE FillCell
    BY <1>1, FillCellInv
<1>2. CASE AskCell
    BY <1>2, AskCellInv
<1>3. CASE MakeBits
    BY <1>3, MakeBitsInv
<1>4. CASE UNCHANGED hybridDbVars
    BY <1>4 DEF hybridDbVars, HdIInv, HybridDbTypeOK, HdGiven, HdPlace, HdCells, HdAnswers, HdFlags,
                HdBits, DbBits, Answered, JoinedWords, Get, Absent, DataBit, BitOf
<1> QED BY <1>1, <1>2, <1>3, <1>4 DEF HybridDbNext

\* The hybrid database runs within its invariant.
LEMMA HdInvariant == HybridDbSpec => []HdIInv
BY HdInitOK, HdStep, PTL DEF HybridDbSpec

\* From the invariant: the types.
LEMMA IInvHdTyped == HdIInv => HybridDbTypeOK
BY DEF HdIInv

\* When the program has ended every query has its answer and its flag.
LEMMA HdEnded ==
    ASSUME HdIInv, hybridDbPc = "done"
    PROVE  /\ \A i \in Cell : cells[i] = JoinedWords(db[i])
           /\ \A q \in HybridQuery : dbOutput[q] = Get(queries[q]) /\ queries[q] \in Nat
           /\ \A i \in Secret : flags[i] = (~split /\ \E q \in HybridQuery : queries[q] = i + HybridSize)
           /\ Cell = 0 .. HybridSize - 1 /\ HybridSize \in Nat
<1>1. \A q : Answered(q)
    BY DEF Answered
<1>2. \A q \in HybridQuery : queries[q] \in Nat
    BY HybridSizeAssumption DEF HdIInv, HdGiven
<1> QED BY <1>1, <1>2, HybridSizeAssumption DEF HdIInv, HdCells, HdAnswers, HdFlags, Cell

\* A cell holds the number that stands for an absent one only in the second
\* program, and only if the evaluator put it there.
LEMMA IInvAbsent == HdIInv => AbsentIsAbsent
<1> SUFFICES ASSUME HdIInv, hybridDbPc = "done", split => \A i \in Cell : JoinedWords(db[i]) # Absent,
                    NEW q \in HybridQuery
             PROVE  (dbOutput[q] = Absent) = (queries[q] >= HybridSize)
    BY DEF AbsentIsAbsent
<1>1. \A i \in Cell : cells[i] # Absent
    <2>1. \A i \in Cell : cells[i] = JoinedWords(db[i])
        BY HdEnded
    <2>2. CASE split
        BY <2>1, <2>2
    <2>3. CASE ~split
        <3>1. Absent > 1 /\ Absent \in 0 .. Two[2 * Width] - 1 /\ \A i \in Cell : JoinedWords(db[i]) \in {0, 1}
            BY <2>3, WordsFit DEF HdIInv
        <3> QED BY <2>1, <3>1
    <2> QED BY <2>2, <2>3
<1>2. dbOutput[q] = Get(queries[q]) /\ queries[q] \in Nat /\ Cell = 0 .. HybridSize - 1 /\ HybridSize \in Nat
    BY HdEnded
<1>3. CASE queries[q] \in Cell
    BY <1>1, <1>2, <1>3 DEF Get
<1>4. CASE queries[q] \notin Cell
    BY <1>2, <1>4 DEF Get
<1> QED BY <1>3, <1>4

\* From the invariant: no query is answered twice.
LEMMA IInvEachQueryOnce == HdIInv => EachQueryOnce
<1> SUFFICES ASSUME HdIInv, hybridDbPc = "done", ~split
             PROVE  /\ \A q \in HybridQuery : queries[q] < HybridSize + Secrets =>
                          (dbOutput[q] = Absent) = (\E i \in Secret : queries[q] = HybridSize + i /\ dbBitInput[i] = 1)
                    /\ \A i \in Secret : dbBitInput[i] = 1 => \E q \in HybridQuery : queries[q] = HybridSize + i
    BY DEF EachQueryOnce
<1>0. Secret = 0 .. Secrets - 1 /\ Secrets \in Nat /\ HybridSize \in Nat
    BY HybridSizeAssumption DEF Secret
<1>1. \A i \in Secret : dbBitInput[i] = 1 <=> \E q \in HybridQuery : queries[q] = HybridSize + i
    <2> SUFFICES ASSUME NEW i \in Secret
                 PROVE  dbBitInput[i] = 1 <=> \E q \in HybridQuery : queries[q] = HybridSize + i
        OBVIOUS
    <2>1. dbBitInput[i] = IF flags[i] THEN 1 ELSE 0
        BY DEF HdIInv, HdBits, DbBits
    <2>2. flags[i] = \E q \in HybridQuery : queries[q] = i + HybridSize
        BY HdEnded
    <2>3. i + HybridSize = HybridSize + i
        BY <1>0
    <2> QED BY <2>1, <2>2, <2>3
<1>2. ASSUME NEW q \in HybridQuery, queries[q] < HybridSize + Secrets
      PROVE  (dbOutput[q] = Absent) = (\E i \in Secret : queries[q] = HybridSize + i /\ dbBitInput[i] = 1)
    <2>1. (dbOutput[q] = Absent) = (queries[q] >= HybridSize)
        BY IInvAbsent DEF AbsentIsAbsent
    <2>2. queries[q] \in Nat
        BY HdEnded
    <2>3. CASE queries[q] >= HybridSize
        <3>1. queries[q] - HybridSize \in Secret /\ queries[q] = HybridSize + (queries[q] - HybridSize)
            BY <1>0, <1>2, <2>2, <2>3
        <3>2. dbBitInput[queries[q] - HybridSize] = 1
            BY <1>1, <3>1
        <3> QED BY <2>1, <2>3, <3>1, <3>2
    <2>4. CASE ~(queries[q] >= HybridSize)
        <3>1. \A i \in Secret : queries[q] # HybridSize + i
            BY <1>0, <2>2, <2>4
        <3> QED BY <2>1, <2>4, <3>1
    <2> QED BY <2>3, <2>4
<1> QED BY <1>1, <1>2

\* The bits of a cell, from bit f on, make a word of what is left when f bits
\* are shifted out.
LEMMA WordIsShifted ==
    ASSUME HdIInv, hybridDbPc = "done", split, NEW i \in Cell, NEW f \in {0, Width}
    PROVE  WordOf(i, f) = (JoinedWords(db[i]) \div Two[f]) % Two[Width]
<1> DEFINE a == JoinedWords(db[i])  c == a \div Two[f]
<1>0. Width \in Nat /\ f \in Nat
    BY HybridSizeAssumption
<1>1. a \in Nat
    <2>1. a \in 0 .. Two[2 * Width] - 1
        BY WordsFit DEF HdIInv
    <2> QED BY <2>1
<1>2. c \in Nat
    <2>1. Two[f] \in Nat /\ Two[f] > 0
        BY <1>0, TwoPositive
    <2> HIDE DEF a
    <2> QED BY <1>1, <2>1, Divided
<1>3. ASSUME NEW j \in 0 .. Width - 1
      PROVE  dbBitInput[<<i, f + j>>] = BitOf(c, j)
    <2>1. <<i, f + j>> \in DbBits
        BY <1>0 DEF DbBits, CellBit
    <2>2. dbBitInput[<<i, f + j>>] = DataBit(i, f + j)
        BY <2>1 DEF HdIInv, HdBits
    <2>3. c \div Two[j] = a \div Two[f + j]
        <3>1. j \in Nat
            BY <1>0
        <3> HIDE DEF a
        <3> QED BY <1>0, <1>1, <3>1, ShiftsAdd
    <2> QED BY <2>2, <2>3 DEF DataBit, BitOf
<1>4. WordOf(i, f) = FromBits([j \in 0 .. Width - 1 |-> BitOf(c, j)], Width)
    <2>1. [j \in 0 .. Width - 1 |-> dbBitInput[<<i, f + j>>]] = [j \in 0 .. Width - 1 |-> BitOf(c, j)]
        <3> HIDE DEF c
        <3> QED BY <1>3
    <2> QED BY <2>1 DEF WordOf
<1> HIDE DEF c
<1>5. FromBits([j \in 0 .. Width - 1 |-> BitOf(c, j)], Width) = c % Two[Width]
    BY <1>0, <1>2, BitsGiveBack
<1> QED BY <1>4, <1>5 DEF c

\* The bits of a cell give its two words back.
LEMMA WordsComeBack ==
    ASSUME HdIInv, hybridDbPc = "done", split, NEW i \in Cell
    PROVE  WordOf(i, 0) = db[i].lo /\ WordOf(i, Width) = db[i].hi
<1> DEFINE t == Two[Width]  h == db[i].hi  l == db[i].lo  a == JoinedWords(db[i])
<1>1. t \in Nat /\ t > 0 /\ Two[0] = 1
    BY HybridSizeAssumption, TwoPositive, TwoRecurs
<1>2. h \in 0 .. t - 1 /\ l \in 0 .. t - 1
    BY HybridSizeAssumption DEF HdIInv, HdGiven
<1>3. a = h * t + l
    BY DEF JoinedWords
<1>4. WordOf(i, 0) = (a \div 1) % t /\ WordOf(i, Width) = (a \div t) % t
    BY <1>1, WordIsShifted
<1> HIDE DEF t, h, l, a
<1>5. a \div t = h /\ a % t = l
    BY <1>1, <1>2, <1>3, DividedOnly
<1>6. a \in Nat
    <2>1. h * t \in Nat
        BY <1>1, <1>2
    <2> QED BY <1>2, <1>3, <2>1
<1>7. a \div 1 = a
    BY <1>6
<1>8. h % t = h
    <2>1. 0 * t + h = h
        BY <1>1, <1>2
    <2>2. (0 * t + h) % t = h
        BY <1>1, <1>2, DividedOnly
    <2> QED BY <2>1, <2>2
<1> QED BY <1>4, <1>5, <1>7, <1>8 DEF h, l

\* From the invariant: the bits and the cells are of the one database.
LEMMA IInvOneDatabase == HdIInv => OneDatabase
<1> SUFFICES ASSUME HdIInv, hybridDbPc = "done", split
             PROVE  /\ \A i \in Cell : WordOf(i, 0) = db[i].lo /\ WordOf(i, Width) = db[i].hi
                    /\ \A q \in HybridQuery : queries[q] \in Cell =>
                          dbOutput[q] = WordOf(queries[q], Width) * Two[Width] + WordOf(queries[q], 0)
    BY DEF OneDatabase
<1>1. \A i \in Cell : WordOf(i, 0) = db[i].lo /\ WordOf(i, Width) = db[i].hi
    BY WordsComeBack
<1>2. ASSUME NEW q \in HybridQuery, queries[q] \in Cell
      PROVE  dbOutput[q] = WordOf(queries[q], Width) * Two[Width] + WordOf(queries[q], 0)
    <2>1. dbOutput[q] = JoinedWords(db[queries[q]])
        BY <1>2, HdEnded DEF Get
    <2> QED BY <1>1, <1>2, <2>1 DEF JoinedWords
<1> QED BY <1>1, <1>2

\* From the invariant: what the first program's enclave says of a cell.
LEMMA IInvToldIfZero == HdIInv => ToldIfZero
<1> SUFFICES ASSUME HdIInv, hybridDbPc = "done", ~split, NEW q \in HybridQuery, queries[q] \in Cell
             PROVE  dbOutput[q] = IF db[queries[q]] = [hi |-> 0, lo |-> 0] THEN 0 ELSE 1
    BY DEF ToldIfZero
<1>1. dbOutput[q] = JoinedWords(db[queries[q]])
    BY HdEnded DEF Get
<1>2. db[queries[q]] \in [hi : CellWords, lo : CellWords]
    BY DEF HdIInv, HdGiven
<1> QED BY <1>1, <1>2 DEF JoinedWords

\* Enclave and circuit between them serve the queries, whatever the cells, the
\* queries and the width of a word; but the enclave of the first program tells of
\* a cell only whether it is zero.
THEOREM HybridDbServes == HybridDbSpec => []QueriesServed
<1>1. HdIInv => QueriesServed
    BY IInvEachQueryOnce, IInvOneDatabase, IInvAbsent, IInvToldIfZero DEF QueriesServed
<1> QED BY <1>1, HdInvariant, PTL

-----------------------------------------------------------------------------
(* The comparison of the millionaires.                                     *)

\* What the addition of the borrow to a word gives.
LEMMA WordSum ==
    ASSUME NEW b1 \in MilWord, NEW b \in {0, 1}
    PROVE  (b1 + b) % W = IF b1 + b = W THEN 0 ELSE b1 + b
<1>1. b1 \in Int /\ 0 <= b1 /\ b1 < W /\ W \in Int /\ W > 0 /\ b \in Int /\ 0 <= b /\ b <= 1
  BY MilSizeAssumption DEF MilWord
<1>2. \A x, y \in Int : 0 <= x /\ x < y => x % y = x
  OBVIOUS
<1>3. \A y \in Int : y > 0 => y % y = 0
  OBVIOUS
<1>4. CASE b1 + b = W
  BY <1>1, <1>3, <1>4
<1>5. CASE b1 + b # W
  <2>1. b1 + b < W /\ 0 <= b1 + b
    BY <1>1, <1>5
  <2> QED BY <1>1, <1>2, <1>5, <2>1
<1> QED BY <1>4, <1>5

\* One word more: the number is less if the word is less, or equal and the
\* words below are less.
LEMMA LessStep ==
    ASSUME NEW a \in MilNumber, NEW b \in MilNumber, NEW n \in 0 .. MilSize - 1
    PROVE  Less(a, b, n + 1) <=> a[n] < b[n] \/ (a[n] = b[n] /\ Less(a, b, n))
<1>0. n \in Int /\ 0 <= n /\ (n + 1) - 1 = n
  OBVIOUS
<1>1. ASSUME Less(a, b, n + 1) PROVE a[n] < b[n] \/ (a[n] = b[n] /\ Less(a, b, n))
  <2>1. PICK k \in 0 .. n : a[k] < b[k] /\ \A l \in k + 1 .. n : a[l] = b[l]
    BY <1>0, <1>1 DEF Less
  <2>2. CASE k = n
    BY <2>1, <2>2
  <2>3. CASE k # n
    <3>1. k \in 0 .. n - 1 /\ n \in k + 1 .. n
      BY <2>3, <1>0
    <3>2. \A l \in k + 1 .. n - 1 : l \in k + 1 .. n
      BY <1>0, <3>1
    <3> QED BY <2>1, <3>1, <3>2 DEF Less
  <2> QED BY <2>2, <2>3
<1>2. ASSUME a[n] < b[n] PROVE Less(a, b, n + 1)
  <2>1. n \in 0 .. n /\ \A l \in n + 1 .. n : FALSE
    BY <1>0
  <2> QED BY <1>0, <1>2, <2>1 DEF Less
<1>3. ASSUME a[n] = b[n], Less(a, b, n) PROVE Less(a, b, n + 1)
  <2>1. PICK k \in 0 .. n - 1 : a[k] < b[k] /\ \A l \in k + 1 .. n - 1 : a[l] = b[l]
    BY <1>3 DEF Less
  <2>2. k \in 0 .. n /\ \A l \in k + 1 .. n : l \in k + 1 .. n - 1 \/ l = n
    BY <1>0
  <2> QED BY <1>0, <1>3, <2>1, <2>2 DEF Less
<1> QED BY <1>1, <1>2, <1>3

\* No words, no less.
LEMMA LessEmpty == ASSUME NEW a, NEW b PROVE ~Less(a, b, 0)
BY DEF Less

\* Neither of two numbers is less than the other and greater too.
LEMMA LessAsymmetric ==
    ASSUME NEW a \in MilNumber, NEW b \in MilNumber, Less(a, b, MilSize)
    PROVE  ~Less(b, a, MilSize)
<1> SUFFICES ASSUME Less(b, a, MilSize) PROVE FALSE
  OBVIOUS
<1> USE MilSizeAssumption
<1>1. PICK k \in 0 .. MilSize - 1 : a[k] < b[k] /\ \A l \in k + 1 .. MilSize - 1 : a[l] = b[l]
  BY DEF Less
<1>2. PICK m \in 0 .. MilSize - 1 : b[m] < a[m] /\ \A l \in m + 1 .. MilSize - 1 : b[l] = a[l]
  BY DEF Less
<1>3. a[k] \in Int /\ b[k] \in Int /\ a[m] \in Int /\ b[m] \in Int
  BY DEF MilNumber, MilWord
<1>4. CASE k < m
  <2>1. m \in k + 1 .. MilSize - 1
    BY <1>4
  <2> QED BY <1>1, <1>2, <1>3, <2>1
<1>5. CASE m < k
  <2>1. k \in m + 1 .. MilSize - 1
    BY <1>5
  <2> QED BY <1>1, <1>2, <1>3, <2>1
<1>6. CASE m = k
  BY <1>1, <1>2, <1>3, <1>6
<1> QED BY <1>4, <1>5, <1>6

\* The borrow after a word: it is never there without reason, and it is lost
\* only to a word of all ones.
LEMMA BorrowStep ==
    ASSUME NEW a \in MilNumber, NEW b \in MilNumber, NEW n \in 0 .. MilSize - 1, NEW c \in {0, 1},
           c = 1 => Less(a, b, n)
    PROVE  /\ Borrows(a[n], b[n], c) => Less(a, b, n + 1)
           /\ (c = 0 => ~Less(a, b, n)) /\ b[n] # W - 1 /\ ~Borrows(a[n], b[n], c)
                => ~Less(a, b, n + 1)
<1>1. a[n] \in MilWord /\ b[n] \in MilWord /\ a[n] \in Int /\ b[n] \in Int /\ W \in Int
      /\ 0 <= a[n] /\ b[n] <= W - 1
  BY MilSizeAssumption DEF MilNumber, MilWord
<1>2. (b[n] + c) % W = IF b[n] + c = W THEN 0 ELSE b[n] + c
  BY <1>1, WordSum
<1>3. Borrows(a[n], b[n], c) <=> b[n] + c # W /\ a[n] < b[n] + c
  BY <1>1, <1>2 DEF Borrows
<1>4. CASE c = 0
  BY <1>1, <1>3, <1>4, LessStep
<1>5. CASE c = 1
  BY <1>1, <1>3, <1>5, LessStep
<1> QED BY <1>4, <1>5

-----------------------------------------------------------------------------

\* While a comparison runs the borrow says that the words passed are less;
\* each result says the same of the whole numbers.
Carried ==
    milPc \in {"alice", "bob"} =>
        /\ borrow = 1 => Less(First, Second, milI)
        /\ NoFullWord /\ borrow = 0 => ~Less(First, Second, milI)

\* What is known of the outputs once the numbers have been compared.
AliceKnown ==
    milPc \in {"bob", "both"} =>
        /\ outputalice = 0 => Less(alice, bob, MilSize)
        /\ NoFullWord /\ outputalice = 1 => ~Less(alice, bob, MilSize)

\* The same of the second comparison.
BobKnown ==
    milPc = "both" =>
        /\ outputbob = 0 => Less(bob, alice, MilSize)
        /\ NoFullWord /\ outputbob = 1 => ~Less(bob, alice, MilSize)

\* The inductive invariant of the comparison.
MilIInv == MilTypeOK /\ Carried /\ AliceKnown /\ BobKnown /\ WinnerIsRicher /\ Decides

\* The comparison starts at the first word.
LEMMA MilIInvInit == MilInit => MilIInv
<1> SUFFICES ASSUME MilInit PROVE MilIInv
  OBVIOUS
<1>1. MilTypeOK
  BY MilSizeAssumption DEF MilInit, MilTypeOK
<1>2. Carried
  BY LessEmpty DEF MilInit, Carried
<1> QED BY <1>1, <1>2 DEF MilInit, MilIInv, AliceKnown, BobKnown, WinnerIsRicher, Decides

\* Both programs compute the same borrow, the same result and the same clearing.
LEMMA MasksSelect ==
    MilTypeOK =>
        /\ \A c \in BOOLEAN : MaskSelect(makeSame(c), 1, 0) = IF c THEN 1 ELSE 0
        /\ Compared = IF borrow = 0 THEN 1 ELSE 0
        /\ ClearLow(SettledWord, outputalice) = IF SettledWord = 1 THEN 0 ELSE outputalice
        /\ ClearLow(SettledWord, outputbob) = IF SettledWord = 1 THEN 0 ELSE outputbob
<1> SUFFICES ASSUME MilTypeOK
             PROVE  /\ \A c \in BOOLEAN : MaskSelect(makeSame(c), 1, 0) = IF c THEN 1 ELSE 0
                    /\ Compared = IF borrow = 0 THEN 1 ELSE 0
                    /\ ClearLow(SettledWord, outputalice) = IF SettledWord = 1 THEN 0 ELSE outputalice
                    /\ ClearLow(SettledWord, outputbob) = IF SettledWord = 1 THEN 0 ELSE outputbob
  OBVIOUS
<1>1. W - 1 # 0
  BY MilSizeAssumption
<1>2. \A c \in BOOLEAN : MaskSelect(makeSame(c), 1, 0) = IF c THEN 1 ELSE 0
  BY <1>1 DEF MaskSelect, makeSame
<1>3. Compared = IF borrow = 0 THEN 1 ELSE 0
  BY <1>1 DEF Compared, MaskSelect, makeSame
<1>4. 0 - (0 % 2) = 0 /\ 1 - (1 % 2) = 0
  OBVIOUS
<1> QED BY <1>2, <1>3, <1>4 DEF ClearLow, MilTypeOK, SettledWord

\* A word is passed.
LEMMA MilIInvWord ==
    MilIInv /\ (CompareWord \/ NaiveCompareWord) => MilIInv'
<1> SUFFICES ASSUME MilIInv, CompareWord \/ NaiveCompareWord PROVE MilIInv'
  OBVIOUS
<1> USE MilSizeAssumption
<1>1. /\ milPc \in {"alice", "bob"} /\ milPc' = milPc /\ milI < MilSize /\ milI' = milI + 1
      /\ alice' = alice /\ bob' = bob /\ milNaive' = milNaive
      /\ outputalice' = outputalice /\ outputbob' = outputbob
  BY DEF CompareWord, NaiveCompareWord
<1>2. borrow' = IF Borrows(First[milI], Second[milI], borrow) THEN 1 ELSE 0
  <2>1. CASE CompareWord
    <3>1. Borrows(First[milI], Second[milI], borrow) \in BOOLEAN
      BY DEF Borrows
    <3> QED BY <2>1, <3>1, MasksSelect DEF CompareWord, MilIInv
  <2>2. CASE NaiveCompareWord
    BY <2>2 DEF NaiveCompareWord
  <2> QED BY <2>1, <2>2
<1>3. First \in MilNumber /\ Second \in MilNumber /\ First' = First /\ Second' = Second
      /\ milI \in 0 .. MilSize - 1 /\ borrow \in {0, 1} /\ NoFullWord' = NoFullWord
  BY <1>1 DEF MilIInv, MilTypeOK, First, Second, NoFullWord
<1>4. MilTypeOK'
  BY <1>1, <1>2, <1>3 DEF MilIInv, MilTypeOK
<1>5. NoFullWord => Second[milI] # W - 1
  BY <1>3 DEF NoFullWord, Second
<1>6. Carried'
  <2>1. borrow' = 1 => Less(First, Second, milI + 1)
    BY <1>1, <1>2, <1>3, BorrowStep DEF MilIInv, Carried
  <2>2. NoFullWord /\ borrow' = 0 => ~Less(First, Second, milI + 1)
    BY <1>1, <1>2, <1>3, <1>5, BorrowStep DEF MilIInv, Carried
  <2> QED BY <1>1, <1>3, <2>1, <2>2 DEF Carried, Less
<1>7. AliceKnown' /\ BobKnown'
  BY <1>1, <1>3 DEF MilIInv, AliceKnown, BobKnown, Less
<1> QED BY <1>1, <1>4, <1>6, <1>7 DEF MilIInv, WinnerIsRicher, Decides

\* A comparison ends.
LEMMA MilIInvFinish ==
    MilIInv /\ ((~milNaive /\ Finish(Compared)) \/ (milNaive /\ Finish(NaiveCompared))) => MilIInv'
<1> SUFFICES ASSUME MilIInv, (~milNaive /\ Finish(Compared)) \/ (milNaive /\ Finish(NaiveCompared))
             PROVE  MilIInv'
  OBVIOUS
<1> USE MilSizeAssumption
<1> DEFINE x == IF borrow = 0 THEN 1 ELSE 0
<1>1. Finish(x)
  BY MasksSelect DEF NaiveCompared, MilIInv
<1>2. /\ milPc \in {"alice", "bob"} /\ milI = MilSize /\ milI' = 0 /\ borrow' = 0
      /\ alice' = alice /\ bob' = bob /\ milNaive' = milNaive /\ NoFullWord' = NoFullWord
      /\ x \in {0, 1}
  BY <1>1 DEF Finish, NoFullWord
<1>3. /\ x = 0 => Less(First, Second, MilSize)
      /\ NoFullWord /\ x = 1 => ~Less(First, Second, MilSize)
  BY <1>2 DEF MilIInv, Carried, MilTypeOK
<1>4. CASE milPc = "alice"
  <2>1. milPc' = "bob" /\ outputalice' = x /\ outputbob' = outputbob
    BY <1>1, <1>4 DEF Finish
  <2>2. MilTypeOK'
    BY <1>2, <2>1 DEF MilIInv, MilTypeOK
  <2>3. AliceKnown'
    BY <1>2, <1>3, <1>4, <2>1 DEF AliceKnown, First, Second, Less
  <2>4. Carried'
    BY <1>2, <2>1, LessEmpty DEF Carried
  <2> QED BY <2>1, <2>2, <2>3, <2>4 DEF MilIInv, BobKnown, WinnerIsRicher, Decides
<1>5. CASE milPc = "bob"
  <2>1. milPc' = "both" /\ outputbob' = x /\ outputalice' = outputalice
    BY <1>1, <1>5 DEF Finish
  <2>2. MilTypeOK'
    BY <1>2, <2>1 DEF MilIInv, MilTypeOK
  <2>3. BobKnown'
    BY <1>2, <1>3, <1>5, <2>1 DEF BobKnown, First, Second, Less
  <2>4. AliceKnown'
    BY <1>2, <1>5, <2>1 DEF MilIInv, AliceKnown, Less
  <2> QED BY <2>1, <2>2, <2>3, <2>4 DEF MilIInv, Carried, WinnerIsRicher, Decides
<1> QED BY <1>2, <1>4, <1>5

\* The two results are settled.
LEMMA MilIInvSettle == MilIInv /\ (Settle \/ NaiveSettle) => MilIInv'
<1> SUFFICES ASSUME MilIInv, Settle \/ NaiveSettle PROVE MilIInv'
  OBVIOUS
<1>1. /\ milPc = "both" /\ milPc' = "done" /\ alice' = alice /\ bob' = bob /\ milNaive' = milNaive
      /\ milI' = milI /\ borrow' = borrow /\ NoFullWord' = NoFullWord
      /\ outputalice' = IF outputalice = 1 /\ outputbob = 1 THEN 0 ELSE outputalice
      /\ outputbob' = IF outputalice = 1 /\ outputbob = 1 THEN 0 ELSE outputbob
  BY MasksSelect DEF Settle, NaiveSettle, SettledWord, NoFullWord, MilIInv
<1>2. MilTypeOK'
  BY <1>1 DEF MilIInv, MilTypeOK
<1>3. alice \in MilNumber /\ bob \in MilNumber /\ outputalice \in {0, 1} /\ outputbob \in {0, 1}
  BY DEF MilIInv, MilTypeOK
<1>4. /\ outputalice = 0 => Less(alice, bob, MilSize)
      /\ NoFullWord /\ outputalice = 1 => ~Less(alice, bob, MilSize)
      /\ outputbob = 0 => Less(bob, alice, MilSize)
      /\ NoFullWord /\ outputbob = 1 => ~Less(bob, alice, MilSize)
  BY <1>1 DEF MilIInv, AliceKnown, BobKnown
<1>5. Less(alice, bob, MilSize) => ~Less(bob, alice, MilSize)
  BY <1>3, LessAsymmetric
<1>6. Less(alice, bob, MilSize)' = Less(alice, bob, MilSize) /\ Less(bob, alice, MilSize)' = Less(bob, alice, MilSize)
  BY <1>1 DEF Less
<1>7. WinnerIsRicher'
  BY <1>1, <1>3, <1>4, <1>6 DEF WinnerIsRicher
<1>8. Decides'
  BY <1>1, <1>3, <1>4, <1>5, <1>6 DEF Decides
<1> QED BY <1>1, <1>2, <1>7, <1>8 DEF MilIInv, Carried, AliceKnown, BobKnown

\* Every step keeps the invariant of the comparison.
LEMMA MilStep == MilIInv /\ [MilNext]_milVars => MilIInv'
<1> SUFFICES ASSUME MilIInv, [MilNext]_milVars PROVE MilIInv'
  OBVIOUS
<1>1. CASE UNCHANGED milVars
  BY <1>1 DEF milVars, MilIInv, MilTypeOK, Carried, First, Second, AliceKnown, BobKnown,
       NoFullWord, WinnerIsRicher, Decides, Less
<1> QED BY <1>1, MilIInvWord, MilIInvFinish, MilIInvSettle DEF MilNext

\* The comparison runs within its invariant.
LEMMA MilInvariant == MilSpec => []MilIInv
BY MilStep, MilIInvInit, PTL DEF MilSpec

\* Neither program, masked or plain, ever names the poorer one, whatever the
\* words of the two numbers: a borrow that is lost only makes for a draw.  And
\* numbers without a word of all ones are compared rightly.
THEOREM ComparisonTells == MilSpec => []OutputsTell
<1>1. MilIInv => OutputsTell
  BY DEF MilIInv, OutputsTell
<1> QED BY <1>1, MilInvariant, PTL

-----------------------------------------------------------------------------
(* The universal circuit.                                                  *)

\* The pool after one more gate.
MeaningNext(before, g) ==
    [p \in Pool |-> IF p = ucProg.d[g]
                    THEN Known(ucProg.tt[g], PoolAt(before, ucProg.x[g]), PoolAt(before, ucProg.y[g]))
                    ELSE before[p]]

\* The pool before the first gate.
MeaningFirst == [p \in Pool |-> IF p \in DOMAIN ucInput THEN ucInput[p] ELSE 0]

\* What a place of the pool may mean.
MeaningValue == {0, 1, Unknown}

\* A gate's result is a bit or not known.
LEMMA KnownTyped ==
    ASSUME NEW tt, NEW a, NEW b
    PROVE  Known(tt, a, b) \in MeaningValue
BY DEF Known, MeaningValue

\* Meaning is the recursion it is written as.
LEMMA MeaningRecurs ==
    ASSUME ucInput \in [0 .. NumInputs - 1 -> UcBit]
    PROVE  /\ Meaning[0] = MeaningFirst
           /\ \A n \in 0 .. GateCount - 1 : Meaning[n + 1] = MeaningNext(Meaning[n], n)
           /\ \A n \in 0 .. GateCount : Meaning[n] \in [Pool -> MeaningValue]
<1> DEFINE V == [Pool -> MeaningValue]
           next == [x \in Nat \X V |-> MeaningNext(x[2], x[1])]
           body(g, n) == IF n = 0 THEN MeaningFirst ELSE MeaningNext(g[n - 1], n - 1)
<1>1. MeaningFirst \in V
    BY DEF MeaningFirst, MeaningValue, UcBit
<1>2. next \in [Nat \X V -> V]
    BY KnownTyped DEF MeaningNext
<1> HIDE DEF V
<1>r. PICK f \in [Nat -> V] : Recurs(f, MeaningFirst, next)
    <2> HIDE DEF next
    <2> QED BY <1>1, <1>2, NatRecursion
<1>3. f[0] = MeaningFirst /\ \A n \in Nat : f[n + 1] = next[<<n, f[n]>>]
    BY <1>r DEF Recurs
<1>4. ASSUME NEW n \in Nat PROVE f[n + 1] = MeaningNext(f[n], n)
    <2>1. <<n, f[n]>> \in Nat \X V
        BY <1>3
    <2>2. next[<<n, f[n]>>] = MeaningNext(f[n], n)
        BY <2>1
    <2> QED BY <1>3, <2>2
<1> HIDE DEF next
<1> DEFINE h == [n \in 0 .. GateCount |-> f[n]]
<1>5. h = [n \in 0 .. GateCount |-> body(h, n)]
    <2>1. ASSUME NEW n \in 0 .. GateCount PROVE f[n] = body(h, n)
        <3>1. CASE n = 0
            BY <1>3, <3>1
        <3>2. CASE n # 0
            <4>1. n - 1 \in Nat /\ n - 1 \in 0 .. GateCount /\ (n - 1) + 1 = n
                BY <3>2, UcSizesAssumption
            <4>2. f[(n - 1) + 1] = MeaningNext(f[n - 1], n - 1)
                BY <1>4, <4>1
            <4>3. h[n - 1] = f[n - 1]
                BY <4>1
            <4> HIDE DEF h
            <4>4. f[n] = MeaningNext(h[n - 1], n - 1)
                BY <4>1, <4>2, <4>3
            <4> QED BY <3>2, <4>4
        <3> QED BY <3>1, <3>2
    <2> HIDE DEF body
    <2> QED BY <2>1
<1>6. Meaning = [n \in 0 .. GateCount |-> body(Meaning, n)]
    <2>1. Meaning = CHOOSE m : m = [n \in 0 .. GateCount |-> body(m, n)]
        BY DEF Meaning, MeaningFirst, MeaningNext
    <2> HIDE DEF h, body
    <2> QED BY <1>5, <2>1
<1> HIDE DEF h, body
<1>7. \A n \in 0 .. GateCount : Meaning[n] = body(Meaning, n)
    BY <1>6
<1>8. Meaning[0] = MeaningFirst
    BY <1>7, UcSizesAssumption DEF body
<1>9. ASSUME NEW n \in 0 .. GateCount - 1
      PROVE  Meaning[n + 1] = MeaningNext(Meaning[n], n)
    <2>1. n + 1 \in 0 .. GateCount /\ n + 1 # 0 /\ (n + 1) - 1 = n
        BY UcSizesAssumption
    <2>2. Meaning[n + 1] = MeaningNext(Meaning[(n + 1) - 1], (n + 1) - 1)
        BY <1>7, <2>1 DEF body
    <2> QED BY <2>1, <2>2
<1>10. \A n \in 0 .. GateCount : Meaning[n] \in V
    <2> DEFINE S == {n \in Nat : n <= GateCount => Meaning[n] \in V}
    <2>1. 0 \in S
        BY <1>1, <1>8
    <2>2. ASSUME NEW n \in Nat, n \in S PROVE n + 1 \in S
        <3>1. SUFFICES ASSUME n + 1 <= GateCount PROVE Meaning[n + 1] \in V
            OBVIOUS
        <3>2. n \in 0 .. GateCount - 1 /\ Meaning[n] \in V
            BY <2>2, <3>1, UcSizesAssumption
        <3>3. MeaningNext(Meaning[n], n) \in V
            BY <3>2, KnownTyped DEF MeaningNext, V
        <3> QED BY <1>9, <3>2, <3>3
    <2> HIDE DEF S
    <2>3. Nat \subseteq S
        BY <2>1, <2>2, NatInductive
    <2> QED BY <2>3, UcSizesAssumption DEF S
<1> QED BY <1>8, <1>9, <1>10 DEF V

\* It depends on the program and its inputs only.
LEMMA SameMeaning ==
    ASSUME UNCHANGED <<ucProg, ucInput>>
    PROVE  Meaning' = Meaning
BY DEF Meaning

\* The two bits of a truth table's index.
LEMMA TruthTyped ==
    ASSUME NEW tt \in Int, NEW x \in UcBit, NEW y \in UcBit
    PROVE  /\ 2 ^ (y + 2 * x) \in Nat \ {0}
           /\ Truth(tt, x, y) \in UcBit
<1>1. 2 ^ (y + 2 * x) \in Nat \ {0}
    <2>1. CASE x = 0 /\ y = 0
        BY <2>1
    <2>2. CASE x = 0 /\ y = 1
        BY <2>2
    <2>3. CASE x = 1 /\ y = 0
        BY <2>3
    <2>4. CASE x = 1 /\ y = 1
        BY <2>4
    <2> QED BY <2>1, <2>2, <2>3, <2>4 DEF UcBit
<1>2. \A b \in Nat \ {0} : (tt \div b) % 2 \in {0, 1}
    OBVIOUS
<1> QED BY <1>1, <1>2 DEF Truth, UcBit

\* What is known of a gate is what it computes, of any bits its unknown
\* operands may be.
LEMMA KnownIsTruth ==
    ASSUME NEW tt \in Int, NEW a, NEW b, NEW x \in UcBit, NEW y \in UcBit,
           a = Unknown \/ x = a, b = Unknown \/ y = b,
           Known(tt, a, b) # Unknown
    PROVE  Truth(tt, x, y) = Known(tt, a, b)
<1> DEFINE as == IF a = Unknown THEN UcBit ELSE {a}
           bs == IF b = Unknown THEN UcBit ELSE {b}
           r  == {n % 2 : n \in {tt \div (2 ^ (2 * p + q)) : p \in as, q \in bs}}
<1>1. x \in as /\ y \in bs
    OBVIOUS
<1>2. y + 2 * x = 2 * x + y
    BY DEF UcBit
<1>3. Truth(tt, x, y) \in r
    BY <1>1, <1>2 DEF Truth
<1>4. Known(tt, a, b) = IF r = {0} THEN 0 ELSE IF r = {1} THEN 1 ELSE Unknown
    BY DEF Known
<1> HIDE DEF r
<1> QED BY <1>3, <1>4

\* What is known of the pool is so.
PoolKnown(f) == \A p \in Pool : f[p] # Unknown => destinations[p] = f[p]

\* The output o of a program whose gates leave f in the pool.
OutputOf(f, o) == IF ucProg.output[o] \in Pool THEN f[ucProg.output[o]] ELSE 0

\* The plain form runs a program within the pool.
UcProgOK ==
    /\ \A g \in Gates : ucProg.tt[g] \in Int
    /\ ucNaive => /\ \A g \in Gates : /\ ucProg.x[g] \in Pool /\ ucProg.y[g] \in Pool
                                      /\ ucProg.d[g] \in Pool
                  /\ \A o \in Outputs : ucProg.output[o] \in Pool

\* The inductive invariant: the pool is the one meant after as many gates, and
\* outputs are taken when there are no more.
UcIInv ==
    /\ UcTypeOK
    /\ UcProgOK
    /\ PoolKnown(Meaning[gate])
    /\ out > 0 => gate = GateCount
    /\ \A o \in Outputs :
          IF o < out
          THEN OutputOf(Meaning[GateCount], o) # Unknown =>
                  outputs[o] = OutputOf(Meaning[GateCount], o)
          ELSE outputs[o] = 0

\* The circuit starts with its inputs in the pool.
LEMMA UcInitOK == UcInit => UcIInv
<1> SUFFICES ASSUME UcInit PROVE UcIInv
    OBVIOUS
<1> DEFINE in == 0 .. NumInputs - 1
<1>0. /\ ucInput \in [in -> UcBit] /\ destinations = FilledPool(ucInput)
      /\ ucNaive \in BOOLEAN /\ outputs = [o \in Outputs |-> 0] /\ gate = 0 /\ out = 0
    BY DEF UcInit
<1>p. \A p \in Pool : p \in in <=> p < NumInputs
    BY UcSizesAssumption DEF Pool
<1>1. destinations = MeaningFirst
    <2>1. DOMAIN ucInput = in
        BY <1>0
    <2> HIDE DEF in
    <2> QED BY <1>0, <1>p, <2>1 DEF FilledPool, MeaningFirst
<1>2. UcTypeOK
    <2>1. destinations \in [Pool -> UcBit]
        <3> HIDE DEF in
        <3> QED BY <1>0, <1>p DEF FilledPool, UcBit
    <2>2. outputs \in [Outputs -> UcBit]
        BY <1>0 DEF UcBit
    <2>3. gate \in 0 .. GateCount /\ out \in 0 .. NumOutputs
        BY <1>0, UcSizesAssumption
    <2> QED BY <1>0, <2>1, <2>2, <2>3 DEF UcTypeOK
<1>3. UcProgOK
    <2>1. CASE ucNaive
        <3>1. \A g \in Int : g % PoolSize \in Pool
            <4> SUFFICES ASSUME NEW g \in Int PROVE g % PoolSize \in Pool
                OBVIOUS
            <4>1. PoolSize \in Nat /\ PoolSize > 0
                BY UcSizesAssumption
            <4>2. g % PoolSize \in Int /\ 0 <= g % PoolSize /\ g % PoolSize < PoolSize
                BY <4>1
            <4> QED BY <4>1, <4>2 DEF Pool
        <3>2. ucProg = Hacked
            BY <2>1 DEF UcInit
        <3>3. \A g \in Gates : /\ ucProg.tt[g] = 5 /\ ucProg.x[g] = g % PoolSize
                                /\ ucProg.y[g] = g % PoolSize /\ ucProg.d[g] = g % PoolSize
            BY <3>2 DEF Hacked
        <3>4. \A o \in Outputs : ucProg.output[o] = o % PoolSize
            BY <3>2 DEF Hacked
        <3>5. Gates \subseteq Int /\ Outputs \subseteq Int
            BY DEF Gates, Outputs
        <3>6. \A g \in Gates : /\ ucProg.tt[g] \in Int /\ ucProg.x[g] \in Pool
                                /\ ucProg.y[g] \in Pool /\ ucProg.d[g] \in Pool
            <4> TAKE g \in Gates
            <4>1. ucProg.tt[g] = 5 /\ g % PoolSize \in Pool
                BY <3>1, <3>3, <3>5
            <4> QED BY <3>3, <4>1
        <3>7. \A o \in Outputs : ucProg.output[o] \in Pool
            <4> TAKE o \in Outputs
            <4>1. o % PoolSize \in Pool
                BY <3>1, <3>5
            <4> QED BY <3>4, <4>1
        <3> QED BY <3>6, <3>7 DEF UcProgOK
    <2>2. CASE ~ucNaive
        <3>1. ucProg \in Programs \/ ucProg = Hardcoded
            BY <2>2 DEF UcInit
        <3>2. \A g \in Gates : Hardcoded.tt[g] = 5
            BY DEF Hardcoded
        <3>3. \A g \in Gates : ucProg.tt[g] \in Int
            BY <3>1, <3>2, UcProgramsAssumption DEF Gates
        <3> QED BY <2>2, <3>3 DEF UcProgOK
    <2> QED BY <2>1, <2>2
<1>4. PoolKnown(Meaning[gate])
    BY <1>1, MeaningRecurs DEF UcInit, PoolKnown
<1>5. gate = 0 /\ out = 0 /\ outputs = [o \in Outputs |-> 0]
    BY DEF UcInit
<1>6. \A o \in Outputs : ~(o < out) /\ outputs[o] = 0
    BY <1>5 DEF Outputs
<1> QED BY <1>2, <1>3, <1>4, <1>5, <1>6 DEF UcIInv

\* One gate more is known.
LEMMA GateKnown ==
    ASSUME UcIInv, gate < GateCount, NEW x \in UcBit, NEW y \in UcBit,
           ucProg.x[gate] \in Pool => x = destinations[ucProg.x[gate]],
           ucProg.y[gate] \in Pool => y = destinations[ucProg.y[gate]],
           UNCHANGED <<ucProg, ucInput>>, gate' = gate + 1,
           destinations' = [p \in Pool |-> IF p = ucProg.d[gate] THEN Truth(ucProg.tt[gate], x, y)
                                           ELSE destinations[p]]
    PROVE  PoolKnown(Meaning[gate])' /\ destinations' \in [Pool -> UcBit]
<1>1. /\ gate \in Gates /\ gate \in 0 .. GateCount - 1 /\ ucProg.tt[gate] \in Int
      /\ ucInput \in [0 .. NumInputs - 1 -> UcBit] /\ destinations \in [Pool -> UcBit]
    BY UcSizesAssumption DEF UcIInv, UcTypeOK, UcProgOK, Gates
<1> DEFINE m == Meaning[gate]
           a == PoolAt(m, ucProg.x[gate])
           b == PoolAt(m, ucProg.y[gate])
           tt == ucProg.tt[gate]
<1>2. Meaning'[gate + 1] = MeaningNext(m, gate)
    BY <1>1, MeaningRecurs, SameMeaning
<1>3. PoolKnown(m)
    BY DEF UcIInv
<1>4. /\ a = Unknown \/ x = a
      /\ b = Unknown \/ y = b
    BY <1>3 DEF PoolAt, PoolKnown
<1>5. Truth(tt, x, y) \in UcBit /\ tt \in Int
    BY <1>1, TruthTyped
<1> HIDE DEF m, a, b, tt
<1>6. Known(tt, a, b) # Unknown => Truth(tt, x, y) = Known(tt, a, b)
    BY <1>4, <1>5, KnownIsTruth
<1>7. \A p \in Pool : MeaningNext(m, gate)[p] = IF p = ucProg.d[gate] THEN Known(tt, a, b) ELSE m[p]
    BY DEF MeaningNext, a, b, tt
<1>8. \A p \in Pool : destinations'[p] = IF p = ucProg.d[gate] THEN Truth(tt, x, y) ELSE destinations[p]
    BY DEF tt
<1>9. \A p \in Pool : MeaningNext(m, gate)[p] # Unknown => destinations'[p] = MeaningNext(m, gate)[p]
    BY <1>3, <1>6, <1>7, <1>8 DEF PoolKnown
<1>10. PoolKnown(Meaning[gate])'
    BY <1>2, <1>9 DEF PoolKnown
<1>11. destinations' \in [Pool -> UcBit]
    BY <1>1, <1>5 DEF tt
<1> QED BY <1>10, <1>11

\* One gate is computed.
LEMMA GateStep ==
    ASSUME UcIInv, Gate \/ NaiveGate
    PROVE  UcIInv'
<1>1. /\ gate < GateCount /\ gate' = gate + 1
      /\ UNCHANGED <<ucNaive, ucProg, ucInput, outputs, out>>
    BY DEF Gate, NaiveGate
<1>2. /\ gate \in Gates /\ gate + 1 \in 0 .. GateCount /\ gate # GateCount /\ out = 0
      /\ destinations \in [Pool -> UcBit]
    BY <1>1, UcSizesAssumption DEF UcIInv, UcTypeOK, Gates
<1>3. PoolKnown(Meaning[gate])' /\ destinations' \in [Pool -> UcBit]
    <2>1. CASE Gate
        <3>1. PICK x \in Operand(ucProg.x[gate]), y \in Operand(ucProg.y[gate]) :
                  destinations' = Stored(ucProg.d[gate], Truth(ucProg.tt[gate], x, y))
            BY <2>1 DEF Gate
        <3>2. x \in UcBit /\ y \in UcBit
            BY <1>2 DEF Operand
        <3>3. /\ ucProg.x[gate] \in Pool => x = destinations[ucProg.x[gate]]
              /\ ucProg.y[gate] \in Pool => y = destinations[ucProg.y[gate]]
            BY DEF Operand
        <3> QED BY <1>1, <3>1, <3>2, <3>3, GateKnown DEF Stored
    <2>2. CASE NaiveGate
        <3> DEFINE x == destinations[ucProg.x[gate]]
                   y == destinations[ucProg.y[gate]]
        <3>1. ucProg.x[gate] \in Pool /\ ucProg.y[gate] \in Pool
            BY <1>2, <2>2 DEF NaiveGate, UcIInv, UcProgOK
        <3>2. x \in UcBit /\ y \in UcBit
            BY <1>2, <3>1
        <3>3. destinations' = [p \in Pool |-> IF p = ucProg.d[gate]
                                              THEN Truth(ucProg.tt[gate], x, y)
                                              ELSE destinations[p]]
            BY <1>2, <2>2 DEF NaiveGate
        <3> QED BY <1>1, <3>2, <3>3, GateKnown
    <2> QED BY <2>1, <2>2
<1>4. UcTypeOK'
    BY <1>1, <1>2, <1>3 DEF UcIInv, UcTypeOK
<1>5. UcProgOK'
    BY <1>1 DEF UcIInv, UcProgOK
<1>6. \A o \in Outputs : ~(o < out') /\ outputs'[o] = 0
    BY <1>1, <1>2 DEF UcIInv, Outputs
<1> QED BY <1>1, <1>2, <1>3, <1>4, <1>5, <1>6 DEF UcIInv

\* One output is copied.
LEMMA OutputStep ==
    ASSUME UcIInv, Output \/ NaiveOutput
    PROVE  UcIInv'
<1>1. /\ gate = GateCount /\ out < NumOutputs /\ out' = out + 1
      /\ UNCHANGED <<ucNaive, ucProg, ucInput, destinations, gate>>
    BY DEF Output, NaiveOutput
<1>2. out \in Outputs /\ out + 1 \in 0 .. NumOutputs
    BY <1>1, UcSizesAssumption DEF UcIInv, UcTypeOK, Outputs
<1>3. outputs' = [outputs EXCEPT ![out] =
                    IF ucProg.output[out] \in Pool THEN destinations[ucProg.output[out]] ELSE 0]
    <2>1. CASE Output
        <3>1. outputs[out] = 0 /\ outputs \in [Outputs -> UcBit]
            BY <1>2 DEF UcIInv, UcTypeOK, Outputs
        <3> QED BY <1>2, <2>1, <3>1 DEF Output
    <2>2. CASE NaiveOutput
        <3>1. ucProg.output[out] \in Pool
            BY <1>2, <2>2 DEF NaiveOutput, UcIInv, UcProgOK
        <3> QED BY <2>2, <3>1 DEF NaiveOutput
    <2> QED BY <2>1, <2>2
<1>4. Meaning' = Meaning
    BY <1>1, SameMeaning
<1>5. PoolKnown(Meaning[GateCount])
    BY <1>1 DEF UcIInv
<1>6. UcTypeOK'
    <2>1. (IF ucProg.output[out] \in Pool THEN destinations[ucProg.output[out]] ELSE 0) \in UcBit
        BY DEF UcIInv, UcTypeOK, UcBit
    <2>2. outputs' \in [Outputs -> UcBit]
        BY <1>3, <2>1 DEF UcIInv, UcTypeOK
    <2> QED BY <1>1, <1>2, <2>2 DEF UcIInv, UcTypeOK
<1>7. UcProgOK'
    BY <1>1 DEF UcIInv, UcProgOK
<1>8. PoolKnown(Meaning[gate])'
    BY <1>1, <1>4 DEF UcIInv, PoolKnown
<1> DEFINE m == Meaning[GateCount]
<1> HIDE DEF m
<1>9. ASSUME NEW o \in Outputs
      PROVE  IF o < out'
             THEN OutputOf(m, o) # Unknown => outputs'[o] = OutputOf(m, o)
             ELSE outputs'[o] = 0
    <2>1. o \in Int /\ out \in Int /\ outputs \in [Outputs -> UcBit]
        BY <1>2 DEF Outputs, UcIInv, UcTypeOK
    <2>2. CASE o = out
        <3>1. outputs'[o] = IF ucProg.output[o] \in Pool THEN destinations[ucProg.output[o]] ELSE 0
            BY <1>3, <2>1, <2>2
        <3> QED BY <1>1, <1>5, <2>1, <2>2, <3>1 DEF OutputOf, PoolKnown, m
    <2>3. CASE o # out
        <3>1. outputs'[o] = outputs[o]
            BY <1>3, <2>1, <2>3
        <3>2. o < out' <=> o < out
            BY <1>1, <2>1, <2>3
        <3>3. IF o < out
              THEN OutputOf(m, o) # Unknown => outputs[o] = OutputOf(m, o)
              ELSE outputs[o] = 0
            BY DEF UcIInv, m
        <3> QED BY <3>1, <3>2, <3>3
    <2> QED BY <2>2, <2>3
<1>10. \A o \in Outputs : OutputOf(Meaning[GateCount], o)' = OutputOf(m, o)
    BY <1>1, <1>4 DEF OutputOf, m
<1>11. (out > 0 => gate = GateCount)'
    BY <1>1
<1>12. \A o \in Outputs :
          IF o < out'
          THEN OutputOf(Meaning[GateCount], o)' # Unknown =>
                  outputs'[o] = OutputOf(Meaning[GateCount], o)'
          ELSE outputs'[o] = 0
    BY <1>9, <1>10
<1> QED BY <1>6, <1>7, <1>8, <1>11, <1>12 DEF UcIInv

\* Every step keeps the invariant of the circuit.
LEMMA UcStep == UcIInv /\ [UcNext]_ucVars => UcIInv'
<1> SUFFICES ASSUME UcIInv, [UcNext]_ucVars PROVE UcIInv'
    OBVIOUS
<1>1. CASE UNCHANGED ucVars
    <2>1. /\ UNCHANGED <<ucNaive, ucProg, ucInput, destinations, outputs, gate, out>>
        BY <1>1 DEF ucVars
    <2>2. Meaning' = Meaning
        BY <2>1, SameMeaning
    <2>3. UcTypeOK' /\ UcProgOK' /\ PoolKnown(Meaning[gate])' /\ (out > 0 => gate = GateCount)'
        BY <2>1, <2>2 DEF UcIInv, UcTypeOK, UcProgOK, PoolKnown
    <2>4. \A o \in Outputs : OutputOf(Meaning[GateCount], o)' = OutputOf(Meaning[GateCount], o)
        BY <2>1, <2>2 DEF OutputOf
    <2> QED BY <2>1, <2>3, <2>4 DEF UcIInv
<1> QED BY <1>1, GateStep, OutputStep DEF UcNext

\* The circuit runs within its invariant.
LEMMA UcInvariant == UcSpec => []UcIInv
BY UcInitOK, UcStep, PTL DEF UcSpec

\* From the invariant: the outputs are what the program means.
LEMMA IInvOutputsMean == UcIInv => OutputsMean
BY DEF UcIInv, OutputsMean, OutputOf

\* The universal circuit computes what its program means, however large pool,
\* program, inputs and outputs are: an output the program determines is the one
\* given, by the pass over the pool and by the plain form, and no bit the stack
\* held in its place ever shows.
THEOREM CircuitComputes == UcSpec => []OutputsMean
BY IInvOutputsMean, UcInvariant, PTL

-----------------------------------------------------------------------------
(* Inputs and answers.                                                     *)

\* memcpy: what was copied behind one another comes out again.
LEMMA PartsOfJoined ==
    ASSUME NEW a, NEW b, a = [i \in Places(M) |-> a[i]], b = [i \in Places(M) |-> b[i]]
    PROVE  /\ Part(Joined(a, b, M), 0, M) = a
           /\ Part(Joined(a, b, M), M, M) = b
<1>1. ASSUME NEW i \in Places(M)
      PROVE  /\ 0 + i \in Places(2 * M) /\ 0 + i < M /\ 0 + i = i
             /\ M + i \in Places(2 * M) /\ ~(M + i < M) /\ M + i - M = i
    BY PadAssumption DEF Places
<1>2. ASSUME NEW i \in Places(M)
      PROVE  Joined(a, b, M)[0 + i] = a[i] /\ Joined(a, b, M)[M + i] = b[i]
    <2>1. \A k \in Places(2 * M) : Joined(a, b, M)[k] = IF k < M THEN a[k] ELSE b[k - M]
        BY DEF Joined
    <2> DEFINE k == M + i
    <2>2. k \in Places(2 * M) /\ ~(k < M) /\ k - M = i
        BY PadAssumption DEF Places
    <2> HIDE DEF k
    <2>3. Joined(a, b, M)[k] = b[i]
        BY <2>1, <2>2
    <2>4. Joined(a, b, M)[0 + i] = a[i]
        BY <1>1, <2>1
    <2> QED BY <2>3, <2>4 DEF k
<1> DEFINE m == Joined(a, b, M)
<1>3. \A i \in Places(M) : m[0 + i] = a[i] /\ m[M + i] = b[i]
    BY <1>2
<1> HIDE DEF m
<1>4. Part(m, 0, M) = a
    BY <1>3 DEF Part
<1>5. Part(m, M, M) = b
    BY <1>3 DEF Part
<1> QED BY <1>4, <1>5 DEF m

\* The padding is left behind.
LEMMA PartOfPadded ==
    ASSUME NEW a, a = [o \in Places(O) |-> a[o]]
    PROVE  Part(Padded(a), 0, O) = a
<1>1. ASSUME NEW o \in Places(O)
      PROVE  0 + o \in Places(O + Pad) /\ 0 + o < O /\ 0 + o = o
    BY PadAssumption DEF Places
<1>2. ASSUME NEW o \in Places(O)
      PROVE  Padded(a)[0 + o] = a[o]
    BY <1>1 DEF Padded
<1> QED BY <1>2 DEF Part

\* The first words of an answer are the answer.
LEMMA PartOfAnswer ==
    ASSUME NEW a, a = [o \in Places(O) |-> a[o]]
    PROVE  Part(a, 0, O) = a
<1>1. ASSUME NEW o \in Places(O) PROVE a[0 + o] = a[o]
    BY PadAssumption DEF Places
<1> QED BY <1>1 DEF Part

\* Words are words.
LEMMA WordsTyped ==
    ASSUME NEW from \in {"zero", "file", "default", "own"}, NEW b \in Buffer
    PROVE  /\ Words(from, b) \in [Places(M) -> Word]
           /\ Words(from, b) = [i \in Places(M) |-> Words(from, b)[i]]
BY DEF Words, Word

\* What the sender's enclave reads for its program, and sends.
SndRead(in) ==
    IF prog = "SFEDJ" THEN <<in["edges"], in["conns"]>> ELSE <<in[prog]>>

\* The message the sender's enclave makes of its inputs.
Packed(in) ==
    IF prog = "SFEDJ" THEN Joined(in["edges"], in["conns"], M) ELSE in[prog]

\* The buffers at the start.
Zeros == [b \in Buffer |-> Words("zero", b)]

\* The buffers once the input of file f, if any, has been put.
SndHolds(f) ==
    IF f = "none" THEN Zeros
    ELSE IF f = "SFEDJ" THEN [Zeros EXCEPT !["edges"] = Words("file", "edges"),
                                           !["conns"] = Words("file", "conns")]
    ELSE [Zeros EXCEPT ![f] = Words("file", f)]

\* What the evaluator's enclave holds of a file that was put in.
EvlHolds(f) ==
    IF f = "none" THEN [p \in Prog |-> "zero"]
    ELSE [[p \in Prog |-> "zero"] EXCEPT ![f] = "file"]

\* Of each party: what its flag and its buffers are at its place.
SndAt ==
    /\ sPc \in {"put", "input", "wait", "result", "done"}
    /\ sUser = (sPc # "put" /\ sFile # "none")
    /\ sIn \in [Buffer -> [Places(M) -> Word]]
    /\ sPc = "put" => sIn = Zeros
    /\ sPc = "input" => sIn = SndHolds(sFile)
    /\ sPc \in {"wait", "result", "done"} => SndRead(sIn) = SndUses
    /\ sPc = "wait" => msg = Packed(sIn)
EvlAt ==
    /\ ePc \in {"put", "input", "done"}
    /\ eUser = (ePc # "put" /\ eFile # "none")
    /\ eIn \in [Prog -> {"zero", "file", "default"}]
    /\ ePc = "put" => eIn = EvlHolds("none")
    /\ ePc = "input" => eIn = EvlHolds(eFile)

\* The cases ReportIsProgram leaves out.
LeftOut ==
    \/ prog = "SFEOR" /\ eFile = "none"
    \/ naive /\ (prog = "SFEUC" \/ (prog = "SFEDJ" /\ eFile = "none"))

\* What has been computed, and how far the answer has come.
Computed ==
    /\ ePc = "done" <=> sPc \in {"result", "done"}
    /\ ePc = "done" =>
          /\ genIn = Packed(sIn)
          /\ answer = [o \in Places(O) |-> answer[o]]
          /\ ~LeftOut => answer = Answer
    /\ sPc = "result" => msg = IF prog = "SFEMIL" THEN Padded(answer) ELSE answer
    /\ IF sPc = "done" THEN report = answer ELSE report = <<>>

\* What the parties were started with.
ConfOK ==
    /\ prog \in Prog /\ naive \in BOOLEAN
    /\ sFile \in Prog \cup {"none"} /\ eFile \in Prog \cup {"none"}

\* The inductive invariant of the exchange.
ExchangeIInv == ConfOK /\ SndAt /\ EvlAt /\ Computed

\* Each program's input has a buffer; the graph's two parts have one each.
LEMMA ProgBuffers == {"SFEMIL", "SFEUC", "SFEOR"} \subseteq Buffer /\ {"edges", "conns"} \subseteq Buffer
BY DEF Buffer

\* The buffers start with words.
LEMMA ZerosTyped == Zeros \in [Buffer -> [Places(M) -> Word]]
BY WordsTyped DEF Zeros

\* The buffers hold words whatever was put in.
LEMMA SndHoldsTyped ==
    ASSUME NEW f \in Prog \cup {"none"}
    PROVE  SndHolds(f) \in [Buffer -> [Places(M) -> Word]]
BY ZerosTyped, WordsTyped DEF SndHolds, Prog, Buffer

\* The exchange starts with empty buffers.
LEMMA ExchangeInitOK == ExchangeInit => ExchangeIInv
<1> SUFFICES ASSUME ExchangeInit PROVE ExchangeIInv
    OBVIOUS
<1>1. SndAt
    BY ZerosTyped DEF ExchangeInit, SndAt, Zeros
<1>2. EvlAt
    BY DEF ExchangeInit, EvlAt, EvlHolds
<1> QED BY <1>1, <1>2 DEF ExchangeInit, ExchangeIInv, ConfOK, Computed

\* Nothing of the configuration ever changes.
LEMMA SameConf ==
    ASSUME UNCHANGED conf
    PROVE  /\ LeftOut' = LeftOut /\ SndUses' = SndUses
           /\ Answer' = Answer /\ (ConfOK => ConfOK')
BY DEF conf, LeftOut, SndUses, Answer, ConfOK, Uses

\* The sender puts an input in, or none.
LEMMA SndPutStep ==
    ASSUME ExchangeIInv, SndPut \/ SndBare
    PROVE  ExchangeIInv'
<1>1. /\ UNCHANGED <<conf, eUser, eIn, msg, apps, ePc>>
      /\ sPc = "put" /\ sPc' = "input" /\ sIn = Zeros
    BY DEF SndPut, SndBare, ExchangeIInv, SndAt
<1>2. sUser' = (sFile # "none") /\ sIn' = SndHolds(sFile)
    <2>1. CASE SndBare
        BY <1>1, <2>1 DEF SndBare, ExchangeIInv, SndAt, SndHolds
    <2>2. CASE SndPut /\ sFile = "SFEDJ"
        <3>1. Part(parse_input_sfe_dj, 0, M) = Words("file", "edges")
              /\ Part(parse_input_sfe_dj, M, M) = Words("file", "conns")
            BY PartsOfJoined, WordsTyped, ProgBuffers DEF parse_input_sfe_dj
        <3> QED BY <1>1, <2>2, <3>1 DEF SndPut, SndHolds
    <2>3. CASE SndPut /\ sFile # "SFEDJ"
        BY <1>1, <2>3 DEF SndPut, SndHolds, parse_input_sfe
    <2> QED BY <2>1, <2>2, <2>3
<1>3. ConfOK' /\ sFile' = sFile
    BY <1>1, SameConf DEF ExchangeIInv, conf
<1>4. SndAt'
    BY <1>1, <1>2, <1>3, SndHoldsTyped DEF SndAt, ConfOK, SndHolds, ExchangeIInv
<1>5. EvlAt'
    BY <1>1 DEF ExchangeIInv, EvlAt, conf, EvlHolds
<1>6. Computed'
    BY <1>1 DEF ExchangeIInv, Computed, conf, apps
<1> QED BY <1>3, <1>4, <1>5, <1>6 DEF ExchangeIInv

\* The evaluator puts an input in, or none.
LEMMA EvlPutStep ==
    ASSUME ExchangeIInv, EvlPut \/ EvlBare
    PROVE  ExchangeIInv'
<1>1. /\ UNCHANGED <<conf, sUser, sIn, msg, apps, sPc>>
      /\ ePc = "put" /\ ePc' = "input" /\ eIn = EvlHolds("none")
    BY DEF EvlPut, EvlBare, ExchangeIInv, EvlAt
<1>2. eUser' = (eFile # "none") /\ eIn' = EvlHolds(eFile)
    BY <1>1 DEF EvlPut, EvlBare, EvlHolds, ExchangeIInv, EvlAt
<1>3. /\ ConfOK' /\ SndUses' = SndUses
      /\ sFile' = sFile /\ eFile' = eFile /\ prog' = prog
    BY <1>1, SameConf DEF ExchangeIInv, conf
<1>4. SndAt'
    BY <1>1, <1>3 DEF ExchangeIInv, SndAt, SndRead, Packed, SndHolds
<1>5. EvlAt'
    BY <1>1, <1>2, <1>3 DEF EvlAt, EvlHolds, ExchangeIInv, ConfOK
<1>6. Computed'
    BY <1>1 DEF ExchangeIInv, Computed, conf, apps
<1> QED BY <1>3, <1>4, <1>5, <1>6 DEF ExchangeIInv

\* What the enclave reads for its program is what that takes of its party.
LEMMA OwnIsUsed ==
    ASSUME ConfOK, sUser = (sFile # "none"), sIn = SndHolds(sFile)
    PROVE  SndUses = IF prog = "SFEDJ" THEN <<Own("edges"), Own("conns")>> ELSE <<Own(prog)>>
<1>1. CASE sFile = "none"
    BY <1>1 DEF SndUses, Own, Uses, SndHolds, Zeros, ConfOK, Prog, Buffer
<1>2. CASE sFile # "none"
    <2>1. \A b \in Buffer : Own(b) = SndHolds(sFile)[b]
        BY <1>2 DEF Own
    <2>2. CASE prog = "SFEDJ"
        <3>1. SndHolds(sFile)["edges"] = Words(Uses(sFile), "edges")
              /\ SndHolds(sFile)["conns"] = Words(Uses(sFile), "conns")
            BY <1>2, <2>2 DEF SndHolds, Zeros, Buffer, Uses, ConfOK, Prog
        <3> QED BY <2>1, <2>2, <3>1, ProgBuffers DEF SndUses
    <2>3. CASE prog # "SFEDJ"
        <3>1. prog \in Buffer
            BY <2>3 DEF ConfOK, Prog, Buffer
        <3>2. SndHolds(sFile)[prog] = Words(Uses(sFile), prog)
            BY <1>2, <2>3, <3>1 DEF SndHolds, Zeros, Uses, ConfOK, Prog
        <3> QED BY <1>2, <2>1, <2>3, <3>1, <3>2 DEF SndUses
    <2> QED BY <2>2, <2>3
<1> QED BY <1>1, <1>2

\* A program's own input is words.
LEMMA OwnTyped ==
    ASSUME sIn \in [Buffer -> [Places(M) -> Word]], NEW b \in Buffer
    PROVE  Own(b) \in [Places(M) -> Word]
BY WordsTyped DEF Own

\* The sender's enclave sends its input.
LEMMA SendInputStep ==
    ASSUME ExchangeIInv, SendInput
    PROVE  ExchangeIInv'
<1>1. /\ UNCHANGED <<conf, sUser, eUser, eIn, apps, ePc>>
      /\ sPc = "input" /\ sPc' = "wait"
      /\ sUser = (sFile # "none") /\ sIn = SndHolds(sFile)
      /\ sIn \in [Buffer -> [Places(M) -> Word]]
    BY DEF SendInput, ExchangeIInv, SndAt
<1>2. /\ ConfOK /\ ConfOK' /\ SndUses' = SndUses
      /\ sFile' = sFile /\ eFile' = eFile /\ prog' = prog
    BY <1>1, SameConf DEF ExchangeIInv, conf
<1>3. sIn' \in [Buffer -> [Places(M) -> Word]]
    <2>1. prog # "SFEDJ" => prog \in Buffer
        BY <1>2 DEF ConfOK, Prog, Buffer
    <2>2. \A b \in Buffer : Own(b) \in [Places(M) -> Word]
        BY <1>1, OwnTyped
    <2>3. CASE prog = "SFEDJ"
        BY <1>1, <2>2, <2>3, ProgBuffers DEF SendInput
    <2>4. CASE prog # "SFEDJ"
        BY <1>1, <2>1, <2>2, <2>4 DEF SendInput
    <2> QED BY <2>3, <2>4
<1>4. SndRead(sIn)' = IF prog = "SFEDJ" THEN <<Own("edges"), Own("conns")>> ELSE <<Own(prog)>>
    <2>1. CASE prog = "SFEDJ"
        <3>1. sIn'["edges"] = Own("edges") /\ sIn'["conns"] = Own("conns")
            BY <1>1, <2>1, ProgBuffers DEF SendInput
        <3> QED BY <1>2, <2>1, <3>1 DEF SndRead
    <2>2. CASE prog # "SFEDJ"
        <3>1. prog \in Buffer
            BY <1>2, <2>2 DEF ConfOK, Prog, Buffer
        <3>2. sIn'[prog] = Own(prog)
            BY <1>1, <2>2, <3>1 DEF SendInput
        <3> QED BY <1>2, <2>2, <3>2 DEF SndRead
    <2> QED BY <2>1, <2>2
<1>5. SndRead(sIn)' = SndUses
    BY <1>1, <1>2, <1>4, OwnIsUsed
<1>6. msg' = Packed(sIn)'
    BY <1>2 DEF SendInput, Packed
<1>7. SndAt'
    BY <1>1, <1>2, <1>3, <1>5, <1>6 DEF SndAt
<1>8. EvlAt' /\ Computed'
    BY <1>1, <1>2 DEF ExchangeIInv, EvlAt, EvlHolds, Computed, apps
<1> QED BY <1>2, <1>7, <1>8 DEF ExchangeIInv

\* Once the evaluator's enclave has computed, whatever the program.
LEMMA AnsweringStep ==
    ASSUME ExchangeIInv, NEW p, NEW in, NEW words, NEW reported, Answering(p, in, words, reported),
           in = Packed(sIn),
           words = [o \in Places(O) |-> words[o]],
           reported = IF p = "SFEMIL" THEN Padded(words) ELSE words,
           ~LeftOut => words = Answer,
           eIn' \in [Prog -> {"zero", "file", "default"}]
    PROVE  ExchangeIInv'
<1>1. /\ UNCHANGED <<conf, sUser, eUser, sIn, report>>
      /\ ePc = "input" /\ ePc' = "done" /\ sPc = "wait" /\ sPc' = "result"
      /\ genIn' = in /\ answer' = words /\ msg' = reported /\ prog = p
    BY DEF Answering
<1>2. /\ ConfOK' /\ SndUses' = SndUses /\ Answer' = Answer
      /\ LeftOut' = LeftOut /\ sFile' = sFile /\ eFile' = eFile /\ prog' = prog
    BY <1>1, SameConf DEF ExchangeIInv, conf
<1>3. SndAt'
    BY <1>1, <1>2 DEF ExchangeIInv, SndAt, SndRead
<1>4. EvlAt'
    BY <1>1, <1>2 DEF ExchangeIInv, EvlAt
<1>5. Packed(sIn)' = Packed(sIn)
    BY <1>1, <1>2 DEF Packed
<1>6. Computed'
    BY <1>1, <1>2, <1>5 DEF ExchangeIInv, Computed
<1> QED BY <1>2, <1>3, <1>4, <1>6 DEF ExchangeIInv

\* The words the evaluator's program runs on are those it takes of its party.
LEMMA GivenIsUsed ==
    ASSUME ExchangeIInv, ePc = "input", eFile # "none" \/ prog \in {"SFEUC", "SFEDJ"}
    PROVE  Given(prog) = Uses(eFile)
<1>1. eUser = (eFile # "none") /\ eIn = EvlHolds(eFile) /\ prog \in Prog
    BY DEF ExchangeIInv, EvlAt, ConfOK
<1> QED BY <1>1 DEF Given, Uses, EvlHolds

\* A program's answer is words.
LEMMA TermWords ==
    ASSUME NEW p, NEW e, NEW s
    PROVE  Term(p, e, s) = [o \in Places(O) |-> Term(p, e, s)[o]]
BY DEF Term

\* The evaluator's enclave compares the numbers.
LEMMA ComputeMilStep ==
    ASSUME ExchangeIInv, ComputeMil
    PROVE  ExchangeIInv'
<1> DEFINE words == Term("SFEMIL", eIn'["SFEMIL"], <<msg>>)
<1>1. /\ eIn' = IF eUser THEN eIn ELSE [eIn EXCEPT !["SFEMIL"] = "default"]
      /\ Answering("SFEMIL", msg, words, Padded(words))
    BY DEF ComputeMil
<1>2. prog = "SFEMIL" /\ ePc = "input" /\ sPc = "wait"
    BY <1>1 DEF Answering
<1>3. msg = Packed(sIn) /\ SndRead(sIn) = SndUses
    BY <1>2 DEF ExchangeIInv, SndAt
<1>4. eIn' \in [Prog -> {"zero", "file", "default"}]
    BY <1>1 DEF ExchangeIInv, EvlAt, Prog
<1>5. words = Answer
    <2>1. eIn'["SFEMIL"] = Uses(eFile)
        BY <1>1, <1>2 DEF ExchangeIInv, EvlAt, EvlHolds, Prog, Uses
    <2>2. <<msg>> = SndUses
        BY <1>2, <1>3 DEF Packed, SndRead
    <2> QED BY <1>2, <2>1, <2>2 DEF Answer
<1>6. words = [o \in Places(O) |-> words[o]]
    BY TermWords
<1> HIDE DEF words
<1> QED BY <1>1, <1>2, <1>3, <1>4, <1>5, <1>6, AnsweringStep

\* It runs the universal circuit.
LEMMA ComputeUcStep ==
    ASSUME ExchangeIInv, ComputeUc
    PROVE  ExchangeIInv'
<1> DEFINE words == Term("SFEUC", IF naive THEN "own" ELSE Given("SFEUC"), <<msg>>)
<1>1. eIn' = eIn /\ Answering("SFEUC", msg, words, words)
    BY DEF ComputeUc
<1>2. prog = "SFEUC" /\ ePc = "input" /\ sPc = "wait"
    BY <1>1 DEF Answering
<1>3. msg = Packed(sIn) /\ SndRead(sIn) = SndUses
    BY <1>2 DEF ExchangeIInv, SndAt
<1>4. eIn' \in [Prog -> {"zero", "file", "default"}]
    BY <1>1 DEF ExchangeIInv, EvlAt
<1>5. ASSUME ~LeftOut PROVE words = Answer
    <2>1. Given("SFEUC") = Uses(eFile) /\ ~naive
        BY <1>2, <1>5, GivenIsUsed DEF LeftOut
    <2>2. <<msg>> = SndUses
        BY <1>2, <1>3, <1>5 DEF Packed, SndRead
    <2> QED BY <1>2, <2>1, <2>2 DEF Answer
<1>6. words = [o \in Places(O) |-> words[o]]
    BY TermWords
<1> HIDE DEF words
<1> QED BY <1>1, <1>2, <1>3, <1>4, <1>5, <1>6, AnsweringStep

\* It finds the shortest path.
LEMMA ComputeDjStep ==
    ASSUME ExchangeIInv, ComputeDj
    PROVE  ExchangeIInv'
<1> DEFINE graph == IF naive /\ ~eUser THEN <<Words("own", "edges"), Words("own", "conns")>>
                    ELSE <<edges(msg), connections(msg)>>
           words == Term("SFEDJ", IF naive /\ ~eUser THEN "own" ELSE Given("SFEDJ"), graph)
           in == Joined(edges(msg), connections(msg), M)
<1>1. eIn' = eIn /\ Answering("SFEDJ", in, words, words)
    BY DEF ComputeDj
<1>2. prog = "SFEDJ" /\ ePc = "input" /\ sPc = "wait"
    BY <1>1 DEF Answering
<1>3. /\ msg = Joined(sIn["edges"], sIn["conns"], M)
      /\ <<sIn["edges"], sIn["conns"]>> = SndUses
    BY <1>2 DEF ExchangeIInv, SndAt, Packed, SndRead
<1>4. sIn["edges"] = [i \in Places(M) |-> sIn["edges"][i]]
      /\ sIn["conns"] = [i \in Places(M) |-> sIn["conns"][i]]
    BY ProgBuffers DEF ExchangeIInv, SndAt
<1>5. edges(msg) = sIn["edges"] /\ connections(msg) = sIn["conns"]
    BY <1>3, <1>4, PartsOfJoined DEF edges, connections
<1>6. in = Packed(sIn)
    BY <1>2, <1>3, <1>5 DEF Packed
<1>7. eIn' \in [Prog -> {"zero", "file", "default"}]
    BY <1>1 DEF ExchangeIInv, EvlAt
<1>8. ASSUME ~LeftOut PROVE words = Answer
    <2>1. Given("SFEDJ") = Uses(eFile)
        BY <1>2, <1>8, GivenIsUsed
    <2>2. ~(naive /\ ~eUser)
        BY <1>2, <1>8 DEF LeftOut, ExchangeIInv, EvlAt
    <2>3. graph = SndUses
        BY <1>3, <1>5, <1>8, <2>2
    <2> HIDE DEF graph
    <2> QED BY <1>2, <2>1, <2>2, <2>3 DEF Answer
<1>9. words = [o \in Places(O) |-> words[o]]
    BY TermWords
<1> HIDE DEF words, in
<1> QED BY <1>1, <1>2, <1>6, <1>7, <1>8, <1>9, AnsweringStep

\* It asks the database.
LEMMA ComputeOrStep ==
    ASSUME ExchangeIInv, ComputeOr
    PROVE  ExchangeIInv'
<1> DEFINE words == IF eUser THEN Term("SFEOR", eIn["SFEOR"], <<msg>>)
                  ELSE [o \in Places(O) |-> Filler("zero")]
<1>1. eIn' = eIn /\ Answering("SFEOR", msg, words, words)
    BY DEF ComputeOr
<1>2. prog = "SFEOR" /\ ePc = "input" /\ sPc = "wait"
    BY <1>1 DEF Answering
<1>3. msg = Packed(sIn) /\ SndRead(sIn) = SndUses
    BY <1>2 DEF ExchangeIInv, SndAt
<1>4. eIn' \in [Prog -> {"zero", "file", "default"}]
    BY <1>1 DEF ExchangeIInv, EvlAt
<1>5. ASSUME ~LeftOut PROVE words = Answer
    <2>1. eUser /\ Given("SFEOR") = Uses(eFile)
        BY <1>2, <1>5, GivenIsUsed DEF LeftOut, ExchangeIInv, EvlAt
    <2>2. <<msg>> = SndUses
        BY <1>2, <1>3, <1>5 DEF Packed, SndRead
    <2> QED BY <1>2, <2>1, <2>2 DEF Answer, Given
<1>6. words = [o \in Places(O) |-> words[o]]
    BY TermWords
<1> HIDE DEF words
<1> QED BY <1>1, <1>2, <1>3, <1>4, <1>5, <1>6, AnsweringStep

\* The sender's enclave takes the answer.
LEMMA HandleResultStep ==
    ASSUME ExchangeIInv, HandleResult
    PROVE  ExchangeIInv'
<1>1. /\ UNCHANGED <<conf, sUser, eUser, sIn, eIn, msg, genIn, answer, ePc>>
      /\ sPc = "result" /\ sPc' = "done" /\ report' = Part(msg, 0, O)
    BY DEF HandleResult, Report
<1>2. /\ answer = [o \in Places(O) |-> answer[o]] /\ ePc = "done"
      /\ msg = IF prog = "SFEMIL" THEN Padded(answer) ELSE answer
    BY <1>1 DEF ExchangeIInv, Computed
<1>3. report' = answer
    BY <1>1, <1>2, PartOfPadded, PartOfAnswer
<1>4. /\ ConfOK' /\ SndUses' = SndUses /\ Answer' = Answer
      /\ LeftOut' = LeftOut /\ sFile' = sFile /\ eFile' = eFile /\ prog' = prog
    BY <1>1, SameConf DEF ExchangeIInv, conf
<1>5. SndAt' /\ EvlAt'
    BY <1>1, <1>4 DEF ExchangeIInv, SndAt, SndRead, EvlAt
<1>6. Packed(sIn)' = Packed(sIn)
    BY <1>1, <1>4 DEF Packed
<1>7. Computed'
    BY <1>1, <1>2, <1>3, <1>4, <1>6 DEF ExchangeIInv, Computed
<1> QED BY <1>4, <1>5, <1>7 DEF ExchangeIInv

\* Every step keeps the invariant of the exchange.
LEMMA ExchangeStep == ExchangeIInv /\ [ExchangeNext]_exchangeVars => ExchangeIInv'
<1> SUFFICES ASSUME ExchangeIInv, [ExchangeNext]_exchangeVars PROVE ExchangeIInv'
    OBVIOUS
<1>1. CASE UNCHANGED exchangeVars
    <2>1. /\ UNCHANGED <<conf, sUser, eUser, sIn, eIn, msg, genIn, answer, report, sPc, ePc>>
        BY <1>1 DEF exchangeVars, apps
    <2>2. /\ ConfOK' /\ SndUses' = SndUses /\ Answer' = Answer
          /\ LeftOut' = LeftOut /\ sFile' = sFile /\ eFile' = eFile /\ prog' = prog
        BY <2>1, SameConf DEF ExchangeIInv, conf
    <2>3. SndAt' /\ EvlAt'
        BY <2>1, <2>2 DEF ExchangeIInv, SndAt, SndRead, Packed, SndHolds, EvlAt, EvlHolds
    <2>4. Computed'
        BY <2>1, <2>2 DEF ExchangeIInv, Computed, Packed
    <2> QED BY <2>2, <2>3, <2>4 DEF ExchangeIInv
<1> QED
    BY <1>1, SndPutStep, EvlPutStep, SendInputStep, ComputeMilStep, ComputeUcStep, ComputeDjStep,
       ComputeOrStep, HandleResultStep DEF ExchangeNext

\* The exchange runs within its invariant.
LEMMA ExchangeInvariant == ExchangeSpec => []ExchangeIInv
BY ExchangeInitOK, ExchangeStep, PTL DEF ExchangeSpec

\* From the invariant: the types.
LEMMA IInvExchangeTyped == ExchangeIInv => ExchangeTypeOK
<1> SUFFICES ASSUME ExchangeIInv PROVE ExchangeTypeOK
    OBVIOUS
<1>1. report # <<>> => DOMAIN report = Places(O)
    BY DEF ExchangeIInv, Computed
<1> QED BY <1>1 DEF ExchangeIInv, SndAt, EvlAt, ExchangeTypeOK

\* The flags, buffers and places have their types in every state.
THEOREM ExchangeTyped == ExchangeSpec => []ExchangeTypeOK
BY IInvExchangeTyped, ExchangeInvariant, PTL

\* From the invariant: the answer is the program's.
LEMMA IInvAnswerIsProgram == ExchangeIInv => AnswerIsProgram
BY DEF ExchangeIInv, Computed, AnswerIsProgram, ReportIsProgram, DumpsAgree, LeftOut, Packed

\* However long inputs, answers and padding are: an answer comes to the sender's
\* and to the evaluator's application as the program gave it, for the inputs it
\* takes of the two parties, cut apart and joined on their way as they are.
THEOREM ExchangeCorrect == ExchangeSpec => []AnswerIsProgram
BY IInvAnswerIsProgram, ExchangeInvariant, PTL

-----------------------------------------------------------------------------
(* The programs side by side.                                              *)

\* The inductive invariant: each program's own.
ProgramsIInv ==
    /\ program \in Ran
    /\ MilIInv /\ UcIInv /\ HdIInv /\ ExchangeIInv /\ DbInv
    /\ LinearTypeOK /\ LinearMatching
    /\ IF program = "hybrid_dj" THEN HyFound ELSE DjIInv /\ TailInit

\* A program that stays where it starts has its invariant too.
LEMMA ProgramsInitOK == Init => ProgramsIInv
<1> SUFFICES ASSUME Init PROVE ProgramsIInv
    OBVIOUS
<1>1. MilInit /\ UcInit /\ HybridDbInit /\ ExchangeInit /\ DbInit /\ LinearInit
    BY DEF Init, IdleBut, MilIdle, UcIdle, HybridDbIdle, ExchangeIdle, DatabaseIdle
<1>2. program \in Ran /\ DjGiven /\ DjStart /\ TailInit
    <2>1. \A graphs, naives : graphs \subseteq Inputs /\ naives \subseteq BOOLEAN /\ DjOn(graphs, naives)
                                 => DjGiven /\ DjStart
        BY DEF DjOn, DjGiven
    <2>2. /\ SmallGraphs \cup HardcodedGraphs \subseteq Inputs /\ SuperGraphs \subseteq Inputs
          /\ {NoGraph} \subseteq Inputs
        BY GraphsAssumption DEF AllGraphs
    <2> HIDE DEF DjGiven, DjStart
    <2>3. \/ DjIdle \/ DjOn(SmallGraphs \cup HardcodedGraphs, BOOLEAN)
          \/ DjOn(SuperGraphs, {FALSE})
        BY DEF Init, IdleBut
    <2>4. program \in Ran /\ TailInit
        BY DEF Init, IdleBut
    <2>5. DjGiven /\ DjStart
        BY <2>1, <2>2, <2>3 DEF DjIdle
    <2> QED BY <2>4, <2>5
<1>3. DjIInv /\ HyFound
    BY <1>2, DjIInvInit, HyFoundInit
<1>4. LinearTypeOK /\ LinearMatching
    BY <1>1, LinearInitTyped DEF LinearInit, LinearMatching
<1> QED BY <1>1, <1>2, <1>3, <1>4, MilIInvInit, UcInitOK, HdInitOK, ExchangeInitOK, InitDbInv DEF ProgramsIInv

\* A step is one of the program that runs, and the others stand still.
LEMMA StepOfEach ==
    ASSUME [Next]_programsVars
    PROVE  /\ [MilNext]_milVars /\ [UcNext]_ucVars /\ [HybridDbNext]_hybridDbVars
           /\ [ExchangeNext]_exchangeVars /\ [LinearNext]_linearVars /\ [DbNext]_dbAllVars
           /\ UNCHANGED program
           /\ program = "hybrid_dj" => [HybridDjNext]_hybridDjVars
           /\ program # "hybrid_dj" => [DjNext]_djVars /\ UNCHANGED tail
<1>1. CASE UNCHANGED programsVars
    BY <1>1 DEF programsVars, hybridDjVars
<1>2. CASE Next
    <2>1. CASE program = "mil" /\ MilNext /\ Others("mil")
        BY <2>1 DEF Others
    <2>2. CASE program = "uc" /\ UcNext /\ Others("uc")
        BY <2>2 DEF Others
    <2>3. CASE program = "dj" /\ DjNext /\ Others("dj")
        BY <2>3 DEF Others
    <2>4. CASE program = "hybrid_dj" /\ HybridDjNext /\ Others("hybrid_dj")
        BY <2>4 DEF Others
    <2>5. CASE program = "hybrid_db" /\ HybridDbNext /\ Others("hybrid_db")
        BY <2>5 DEF Others
    <2>6. CASE program = "exchange" /\ ExchangeNext /\ Others("exchange")
        BY <2>6 DEF Others
    <2>7. CASE program = "linear" /\ LinearNext /\ Others("linear")
        BY <2>7 DEF Others
    <2>8. CASE program = "database" /\ DbNext /\ Others("database")
        BY <2>8 DEF Others
    <2> QED BY <1>2, <2>1, <2>2, <2>3, <2>4, <2>5, <2>6, <2>7, <2>8 DEF Next
<1> QED BY <1>1, <1>2

\* The program that runs keeps its invariant, and the others theirs.
LEMMA ProgramsStep == ProgramsIInv /\ [Next]_programsVars => ProgramsIInv'
<1> SUFFICES ASSUME ProgramsIInv, [Next]_programsVars PROVE ProgramsIInv'
    OBVIOUS
<1>1. /\ [MilNext]_milVars /\ [UcNext]_ucVars /\ [HybridDbNext]_hybridDbVars
      /\ [ExchangeNext]_exchangeVars /\ [LinearNext]_linearVars /\ [DbNext]_dbAllVars
      /\ UNCHANGED program
      /\ program = "hybrid_dj" => [HybridDjNext]_hybridDjVars
      /\ program # "hybrid_dj" => [DjNext]_djVars /\ UNCHANGED tail
    BY StepOfEach
<1>2. MilIInv' /\ UcIInv' /\ HdIInv' /\ ExchangeIInv' /\ DbInv'
    BY <1>1, MilStep, UcStep, HdStep, ExchangeStep, StepDbInv DEF ProgramsIInv
<1>3. LinearTypeOK' /\ LinearMatching'
    BY <1>1, LinearStepTyped, LinearMatchStep DEF ProgramsIInv
<1>4. CASE program = "hybrid_dj"
    <2>1. HyFound'
        BY <1>1, <1>4, HyFoundStep DEF ProgramsIInv
    <2> QED BY <1>1, <1>2, <1>3, <1>4, <2>1 DEF ProgramsIInv
<1>5. CASE program # "hybrid_dj"
    <2>1. DjIInv'
        BY <1>1, <1>5, DjIInvStep DEF ProgramsIInv
    <2>2. TailInit'
        BY <1>1, <1>5 DEF ProgramsIInv, TailInit, tail, NoBits
    <2> QED BY <1>1, <1>2, <1>3, <1>5, <2>1, <2>2 DEF ProgramsIInv
<1> QED BY <1>4, <1>5

\* The programs run within their invariants, side by side.
LEMMA ProgramsInvariant == Spec => []ProgramsIInv
BY ProgramsInitOK, ProgramsStep, PTL DEF Spec

\* Whichever program runs, all of their variables keep their types.
THEOREM ProgramsTyped == Spec => []ProgramsTypeOK
<1>1. ProgramsIInv => ProgramsTypeOK
    <2> SUFFICES ASSUME ProgramsIInv PROVE ProgramsTypeOK
        OBVIOUS
    <2>1. MilTypeOK /\ UcTypeOK /\ HybridDbTypeOK /\ ExchangeTypeOK /\ LinearTypeOK /\ DbTypeOK
        BY IInvHdTyped, IInvExchangeTyped DEF ProgramsIInv, MilIInv, UcIInv, DbInv
    <2>2. program # "hybrid_dj" => DjTypeOK
        BY DEF ProgramsIInv, DjIInv, DjSearchInv, DjTyped
    <2>3. program = "hybrid_dj" => HybridDjTypeOK
        BY IInvHyTyped DEF ProgramsIInv, HyFound
    <2> QED BY <2>1, <2>2, <2>3 DEF ProgramsTypeOK, ProgramsIInv
<1> QED BY <1>1, ProgramsInvariant, PTL

\* Whichever program runs, on whatever inputs of its parties, its answer is the
\* one the parties asked for.
THEOREM ProgramsAnswer ==
    Spec => [](/\ OutputsTell /\ OutputsMean /\ ShortestPath /\ EndIsPort
               /\ QueriesServed /\ AnswerIsProgram /\ SameAnswers)
<1>1. ProgramsIInv => /\ OutputsTell /\ OutputsMean /\ ShortestPath /\ EndIsPort
                      /\ QueriesServed /\ AnswerIsProgram /\ SameAnswers
    <2> SUFFICES ASSUME ProgramsIInv
                 PROVE  /\ OutputsTell /\ OutputsMean /\ ShortestPath /\ EndIsPort
                        /\ QueriesServed /\ AnswerIsProgram /\ SameAnswers
        OBVIOUS
    <2>1. MilIInv /\ UcIInv /\ HdIInv /\ ExchangeIInv /\ DbInv
        BY DEF ProgramsIInv
    <2>2. OutputsTell /\ SameAnswers
        BY <2>1 DEF MilIInv, OutputsTell, DbInv
    <2>3. OutputsMean /\ AnswerIsProgram
        BY <2>1, IInvOutputsMean, IInvAnswerIsProgram
    <2>4. QueriesServed
        BY <2>1, IInvEachQueryOnce, IInvOneDatabase, IInvAbsent, IInvToldIfZero DEF QueriesServed
    <2>5. ShortestPath
        BY IInvShortestPath DEF ProgramsIInv, HyFound
    <2>6. EndIsPort
        <3>1. CASE program = "hybrid_dj"
            BY <3>1, IInvEndIsPort DEF ProgramsIInv, HyFound
        <3>2. CASE program # "hybrid_dj"
            <4>1. djI \in 0 .. Nodes /\ Nodes \in Nat
                BY <3>2, SizesFacts DEF ProgramsIInv, DjIInv, DjSearchInv, DjTyped, DjTypeOK
            <4>2. ~Finished
                BY <4>1 DEF Finished
            <4> QED BY <4>2 DEF EndIsPort
        <3> QED BY <3>1, <3>2
    <2> QED BY <2>2, <2>3, <2>4, <2>5, <2>6
<1> QED BY <1>1, ProgramsInvariant, PTL

\* Beside the others too, the memory that passes over all its cells is an array.
THEOREM ProgramsLinear == Spec => LinearIsArray
<1>1. Init => LinearInit
    BY DEF Init, IdleBut
<1>2. [Next]_programsVars => [LinearNext]_linearVars
    BY StepOfEach
<1>3. Spec => LinearSpec
    BY <1>1, <1>2, PTL DEF Spec, LinearSpec
<1> QED BY <1>3, LinearCorrect
=============================================================================
