------------------------------ MODULE HybridDb ------------------------------
(* The database programs of the hybrid model.  The evaluator brings cells of *)
(* two words each, the sender brings queries.  In the first program          *)
(* (yao_or) the enclave answers the queries of its own cells and sets a      *)
(* flag for each cell behind them that is asked for: those are the circuit's *)
(* to answer.  In the second (yao_or_split_entry) the enclave answers some   *)
(* of the queries and gives the circuit the whole database, bit by bit, for  *)
(* the others.                                                               *)
EXTENDS Bits

CONSTANTS
    HybridSize,          \* yao_or_datasize, yao_or_split_datasize
    Secrets,       \* yao_or_secretsize
    Queries,       \* yao_or_queries, yao_or_split_queries
    Width,         \* the bits of a word, 32 in the code
    CellWords,         \* the words a cell is made of
    Asked          \* the indices a query may hold

Cell == 0 .. HybridSize - 1
Secret == 0 .. Secrets - 1
HybridQuery == 0 .. Queries - 1
CellBit == 0 .. 2 * Width - 1

ASSUME HybridSizeAssumption ==
    /\ HybridSize \in Nat \ {0} /\ Secrets \in Nat \ {0} /\ Queries \in Nat \ {0}
    /\ Width \in Nat \ 0 .. 2 /\ CellWords \subseteq 0 .. Two[Width] - 1 /\ Asked \subseteq Nat

VARIABLES
    split,         \* which program
    db,            \* the evaluator's words: input[2i] and input[2i+1]
    queries,       \* the sender's
    cells,          \* ORAM2_YAO::data, ORAM2_YAO_SPLIT::data
    flags,         \* ORAM2_YAO::flags
    dbOutput,        \* the enclave's answers
    dbBitInput,      \* what the labels are made for
    hybridDbPc, hybridK

hybridDbVars == <<split, db, queries, cells, flags, dbOutput, dbBitInput, hybridDbPc, hybridK>>

\* The largest int and the largest long.
Absent == IF split THEN Two[2 * Width - 1] - 1 ELSE Two[Width - 1] - 1

DbBits == IF split THEN Cell \X CellBit ELSE Secret

HybridDbInit ==
    /\ split \in BOOLEAN
    /\ db \in [Cell -> [hi : CellWords, lo : CellWords]]
    /\ queries \in [HybridQuery -> Asked]
    /\ cells = [i \in Cell |-> 0]
    /\ flags = [i \in Secret |-> FALSE]
    /\ dbOutput = [q \in HybridQuery |-> 0]
    /\ dbBitInput = [b \in DbBits |-> 0]
    /\ hybridDbPc = "fill" /\ hybridK = 0

\* Both words in one long; the first program joins them with ||.
JoinedWords(c) ==
    IF split THEN c.hi * Two[Width] + c.lo
    ELSE IF c.hi # 0 \/ c.lo # 0 THEN 1 ELSE 0

Advance(limit, next) ==
    IF hybridK + 1 < limit THEN hybridK' = hybridK + 1 /\ UNCHANGED hybridDbPc ELSE hybridK' = 0 /\ hybridDbPc' = next

\* Every cell is passed over, and the one meant is set.
Set(index, value) == [i \in Cell |-> IF i = index THEN value ELSE cells[i]]

\* One cell of the database is set.
FillCell ==
    /\ hybridDbPc = "fill"
    /\ cells' = Set(hybridK, JoinedWords(db[hybridK]))
    /\ Advance(HybridSize, "ask")
    /\ UNCHANGED <<split, db, queries, flags, dbOutput, dbBitInput>>

\* Variant: the result starts with nothing.
ZeroAbsent(index) == IF index \in Cell THEN cells[index] ELSE 0

\* The answer to one query.
Get(index) == IF index \in Cell THEN cells[index] ELSE Absent

\* Variant: the flags show the last query only.
LastFlag(index) == [i \in Secret |-> i + HybridSize = index]

\* The flags after one query.
Flagged(index) == [i \in Secret |-> flags[i] \/ i + HybridSize = index]

AskCell ==
    /\ hybridDbPc = "ask"
    /\ dbOutput' = [dbOutput EXCEPT ![hybridK] = Get(queries[hybridK])]
    /\ flags' = IF split THEN flags ELSE Flagged(queries[hybridK])
    /\ Advance(Queries, "bits")
    /\ UNCHANGED <<split, db, queries, cells, dbBitInput>>

\* Bit j of cell i.
DataBit(i, j) == BitOf(JoinedWords(db[i]), j)

\* yao_or_get_bit_input, and the loop at the end of yao_or_split_entry.
MakeBits ==
    /\ hybridDbPc = "bits"
    /\ dbBitInput' = IF split THEN [b \in DbBits |-> DataBit(b[1], b[2])]
                   ELSE [b \in DbBits |-> IF flags[b] THEN 1 ELSE 0]
    /\ hybridDbPc' = "done"
    /\ UNCHANGED <<split, db, queries, cells, flags, dbOutput, hybridK>>

HybridDbNext == FillCell \/ AskCell \/ MakeBits

HybridDbSpec == HybridDbInit /\ [][HybridDbNext]_hybridDbVars

-----------------------------------------------------------------------------
HybridDbTypeOK ==
    /\ cells \in [Cell -> 0 .. Two[2 * Width] - 1]
    /\ flags \in [Secret -> BOOLEAN]
    /\ dbOutput \in [HybridQuery -> 0 .. Two[2 * Width] - 1]
    /\ dbBitInput \in [DbBits -> {0, 1}]
    /\ hybridDbPc \in {"fill", "ask", "bits", "done"}
    /\ hybridK \in 0 .. HybridSize + Queries

\* The two parts of the first program share the queries out: a query of a cell
\* that exists is answered by the enclave or flagged for the circuit, never
\* both and never neither, and no flag is up that nobody asked for.
EachQueryOnce ==
    hybridDbPc = "done" /\ ~split =>
        /\ \A q \in HybridQuery : queries[q] < HybridSize + Secrets =>
              (dbOutput[q] = Absent) = (\E i \in Secret : queries[q] = HybridSize + i /\ dbBitInput[i] = 1)
        /\ \A i \in Secret : dbBitInput[i] = 1 => \E q \in HybridQuery : queries[q] = HybridSize + i

\* A word read back from its bits.
WordOf(i, first) == FromBits([j \in 0 .. Width - 1 |-> dbBitInput[<<i, first + j>>]], Width)

\* In the second program the enclave and the circuit see the same database, the
\* evaluator's: the bits of every cell give its two words back, and the
\* enclave's answer to a query of it is made of the same two words.
OneDatabase ==
    hybridDbPc = "done" /\ split =>
        /\ \A i \in Cell : WordOf(i, 0) = db[i].lo /\ WordOf(i, Width) = db[i].hi
        /\ \A q \in HybridQuery : queries[q] \in Cell =>
              LET i == queries[q]
              IN  dbOutput[q] = WordOf(i, Width) * Two[Width] + WordOf(i, 0)

\* What the enclave says of an absent cell it says of no other: the sender can
\* tell an answer from none as long as no cell holds the largest long.
AbsentIsAbsent ==
    hybridDbPc = "done" /\ (split => \A i \in Cell : JoinedWords(db[i]) # Absent) =>
        \A q \in HybridQuery : (dbOutput[q] = Absent) = (queries[q] >= HybridSize)

\* What the enclave of the first program answers about a cell is not the cell: its
\* two words are joined by the logical or of yao_or_init_db, and the answer tells
\* only whether either is not zero.
ToldIfZero ==
    hybridDbPc = "done" /\ ~split =>
        \A q \in HybridQuery : queries[q] \in Cell =>
            dbOutput[q] = IF db[queries[q]] = [hi |-> 0, lo |-> 0] THEN 0 ELSE 1

\* Enclave and circuit between them serve the queries: each is answered once, in
\* the second program with the cell, in the first with one bit of it.
QueriesServed == EachQueryOnce /\ OneDatabase /\ AbsentIsAbsent /\ ToldIfZero
=============================================================================
