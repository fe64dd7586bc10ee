---------------------------- MODULE SfeDatabase ----------------------------
(* The database program of the enclave (sfe_or_entry): the evaluator's       *)
(* database is answered at the indices of the sender's queries, directly, or *)
(* through one of the two oblivious memories.  Both implement OramArray       *)
(* (TreeOram, LinearOram), with which the program is composed.  The tree     *)
(* loses requests at some sizes, the program's 900 cells among them: with    *)
(* Lossy the database is one of such a size, whatever DatabaseSize is.       *)
EXTENDS OramArray

CONSTANTS DatabaseSize, NumQueries

ASSUME DatabaseSizeAssumption ==
    /\ DatabaseSize \in Nat /\ NumQueries \in Nat
    /\ Index = 0 .. DatabaseSize - 1

VARIABLES
    oram,      \* the argument `oram': plain, tree, linear or unknown
    evl_input, gen_input,
    dbPc,        \* "run" (no memory), "fill", "query", "wait", "done"
    dbI,         \* the loop's counter
    dbAnswers

dbVars == <<oram, evl_input, gen_input, dbPc, dbI, dbAnswers>>
dbAllVars == <<dbVars, arrayVars>>

Kinds == {"plain", "tree", "linear", "unknown"}
Query == 0 .. NumQueries - 1
NoOutput == -1   \* not written yet
Unreachable == 777

DbTypeOK ==
    /\ ArrayTypeOK
    /\ oram \in Kinds
    /\ evl_input \in [Index -> Value]
    /\ gen_input \in [Query -> Index]
    /\ dbPc \in {"run", "fill", "query", "wait", "done"}
    /\ dbI \in Nat
    /\ dbAnswers \in [Query -> Value \cup {NoOutput, Unreachable, NoAnswer}]

DbInit ==
    /\ ArrayInit
    /\ oram \in Kinds
    /\ evl_input \in [Index -> Value]
    /\ gen_input \in [Query -> Index]
    /\ dbPc = IF oram \in {"tree", "linear"} THEN "fill" ELSE "run"
    /\ dbI = 0
    /\ dbAnswers = [q \in Query |-> NoOutput]

\* Variant: the query is answered by itself.
DirectIndex(n) == gen_input[n]

\* What the loops without a memory write at place n.
Direct(n) == IF oram = "plain" THEN evl_input[gen_input[n]] ELSE Unreachable

Run ==
    /\ dbPc = "run"
    /\ IF dbI < NumQueries
       THEN /\ dbAnswers' = [dbAnswers EXCEPT ![dbI] = Direct(dbI)]
            /\ dbI' = dbI + 1
            /\ UNCHANGED dbPc
       ELSE dbPc' = "done" /\ UNCHANGED <<dbI, dbAnswers>>
    /\ UNCHANGED <<oram, evl_input, gen_input, arrayVars>>

\* Variant: the last cell is not filled.
FilledEarly(n) == n >= DatabaseSize - 1

Filled(n) == n >= DatabaseSize

\* o.set(i, evl_input[i]), and on to the queries when all is set.
Fill ==
    /\ dbPc = "fill"
    /\ stage = "idle"
    /\ IF Filled(dbI)
       THEN dbPc' = "query" /\ dbI' = 0 /\ UNCHANGED arrayVars
       ELSE /\ Ask([kind |-> "set", index |-> dbI, value |-> evl_input[dbI]])
            /\ dbI' = dbI + 1
            /\ UNCHANGED dbPc
    /\ UNCHANGED <<oram, evl_input, gen_input, dbAnswers>>

\* o.get(gen_input[i])
AskQuery ==
    /\ dbPc = "query"
    /\ stage = "idle"
    /\ IF dbI < NumQueries
       THEN Ask([kind |-> "get", index |-> gen_input[dbI], value |-> Zero]) /\ dbPc' = "wait"
       ELSE dbPc' = "done" /\ UNCHANGED arrayVars
    /\ UNCHANGED <<oram, evl_input, gen_input, dbI, dbAnswers>>

\* Variant: the answer goes to the place of the cell.
PlacedByIndex(n) == [dbAnswers EXCEPT ![gen_input[n] % NumQueries] = ans]

Placed(n) == [dbAnswers EXCEPT ![n] = ans]

\* output[i] = what get returns
TakeAnswer ==
    /\ dbPc = "wait"
    /\ AnswerRequest
    /\ dbAnswers' = Placed(dbI)
    /\ dbI' = dbI + 1
    /\ dbPc' = "query"
    /\ UNCHANGED <<oram, evl_input, gen_input>>

\* Whether the memory may lose a request: the tree may, the vector never.
MayLose == oram = "tree" /\ Lossy

\* The memory works on a request or loses it, or returns from a set.
Memory ==
    /\ Read \/ Write \/ (MayLose /\ Miss) \/ (dbPc = "fill" /\ AnswerRequest)
    /\ UNCHANGED dbVars

DbNext == Run \/ Fill \/ AskQuery \/ TakeAnswer \/ Memory

DbSpec == DbInit /\ [][DbNext]_dbAllVars /\ WF_dbAllVars(DbNext)

-----------------------------------------------------------------------------
\* Every query answered so far has the entry it asked for, whether the database
\* is read directly or through a memory; but a tree that loses requests may lose
\* the query, whose answer is then NOTPRESENT, or may have lost the entry when it
\* was filled, whose cell is then still the constructor's.  No query is ever
\* answered with another cell's entry, and all that reach a cell with the same.
\* The branch the code calls unreachable gives 777.
SameAnswers ==
    \A n \in Query :
        n < dbI /\ dbPc # "fill" =>
            LET cell == gen_input[n]
            IN  /\ oram = "unknown" => dbAnswers[n] = Unreachable
                /\ oram # "unknown" /\ ~MayLose => dbAnswers[n] = evl_input[cell]
                /\ MayLose => /\ dbAnswers[n] \in {mem[cell], NoAnswer}
                              /\ mem[cell] \in {evl_input[cell], Zero}

\* Before the first query is asked of it the memory holds the whole database,
\* each cell its entry; only a tree that loses requests may have cells as the
\* constructor left them.
FilledFirst ==
    dbPc \in {"query", "wait"} =>
        \A i \in Index : mem[i] = evl_input[i] \/ (MayLose /\ mem[i] = Zero)
=============================================================================
