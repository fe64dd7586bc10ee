----------------------------- MODULE LinearOram -----------------------------
(* The linear ORAM of the enclave (class ORAM2 of mysfe.cpp): every request  *)
(* passes over the whole vector and keeps or replaces, under a mask, the one *)
(* cell it is about.  The local `result' of get is an int although the cells *)
(* are longs, and nothing initialises it.                                    *)
EXTENDS Integers

CONSTANTS
    LinearSize,      \* vsize
    LinearValue,     \* what a cell can hold
    LinearZero,      \* the value of a fresh cell
    NotPresent,\* no request has been answered yet
    IntHalf    \* ints are -IntHalf .. IntHalf - 1 (2^31)

\* What an int holds after a long has been assigned to it.
AsInt(v) == ((v + IntHalf) % (2 * IntHalf)) - IntHalf

AnyInt == -IntHalf .. IntHalf - 1

ASSUME LinearSizeAssumption == LinearSize \in Nat \ {0}
ASSUME LinearZeroAssumption == LinearZero \in LinearValue /\ NotPresent \notin LinearValue
\* The database holds values that an int can hold: get truncates the others.
ASSUME FitsInt == IntHalf \in Nat \ {0} /\ LinearValue \subseteq AnyInt

VARIABLES
    linearData,      \* the vector
    phase,     \* "idle", or the loop that runs: "get" or "set"
    linearReq,       \* the request
    linearI,         \* the loop's counter
    result     \* the local of get, what it returns at the end

linearVars == <<linearData, phase, linearReq, linearI, result>>

LinearIndex == 0 .. LinearSize - 1
LinearGets == [kind : {"get"}, index : LinearIndex, value : {LinearZero}]
LinearSets == [kind : {"set"}, index : LinearIndex, value : LinearValue]

LinearTypeOK ==
    /\ linearData \in [LinearIndex -> LinearValue]
    /\ phase \in {"idle", "get", "set"}
    /\ linearReq \in LinearGets \cup LinearSets
    /\ linearI \in 0 .. LinearSize
    /\ result \in AnyInt \cup {NotPresent}

LinearInit ==
    /\ linearData = [n \in LinearIndex |-> LinearZero]
    /\ phase = "idle"
    /\ linearReq = [kind |-> "get", index |-> 0, value |-> LinearZero]
    /\ linearI = 0
    /\ result = NotPresent

GetCell(r) ==
    /\ phase = "idle"
    /\ phase' = "get"
    /\ linearReq' = r
    /\ linearI' = 0
    /\ result' \in AnyInt
    /\ UNCHANGED linearData

SetCell(r) ==
    /\ phase = "idle"
    /\ phase' = "set"
    /\ linearReq' = r
    /\ linearI' = 0
    /\ UNCHANGED <<linearData, result>>

\* Variant: the mask lets every cell through.
SelectAll(old, cell) == AsInt(cell)

\* Variant: old and new are added, unmasked.
SelectSum(old, cell) == old + cell

\* result = (x & data.at(i)) | (~x & result)
LinearSelect(old, cell) == IF linearI = linearReq.index THEN AsInt(cell) ELSE old

GetStep ==
    /\ phase = "get"
    /\ linearI < LinearSize
    /\ result' = LinearSelect(result, linearData[linearI])
    /\ linearI' = linearI + 1
    /\ UNCHANGED <<linearData, phase, linearReq>>

SetStep ==
    /\ phase = "set"
    /\ linearI < LinearSize
    /\ linearData' = IF linearI = linearReq.index THEN [linearData EXCEPT ![linearI] = linearReq.value] ELSE linearData
    /\ linearI' = linearI + 1
    /\ UNCHANGED <<phase, linearReq, result>>

Return ==
    /\ phase # "idle"
    /\ linearI = LinearSize
    /\ phase' = "idle"
    /\ UNCHANGED <<linearData, linearReq, linearI, result>>

LinearNext ==
    \/ \E r \in LinearGets : GetCell(r)
    \/ \E r \in LinearSets : SetCell(r)
    \/ GetStep
    \/ SetStep
    \/ Return

LinearSpec == LinearInit /\ [][LinearNext]_linearVars

-----------------------------------------------------------------------------
\* To whoever calls get and set, the vector is an array that loses nothing: the
\* request takes effect when the loop passes its index.
linearStage ==
    IF phase = "idle" THEN "idle"
    ELSE IF linearI <= linearReq.index THEN "asked" ELSE "done"

linearAns == IF linearStage = "asked" \/ linearReq.kind = "set" THEN NotPresent ELSE result

LinearArray == INSTANCE OramArray WITH
    Index <- LinearIndex, Value <- LinearValue, Zero <- LinearZero, NoAnswer <- NotPresent,
    Lossy <- FALSE,
    mem <- linearData, req <- linearReq, stage <- linearStage, ans <- linearAns

LinearIsArray == LinearArray!ArraySpec
=============================================================================
