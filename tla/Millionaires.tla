---------------------------- MODULE Millionaires ----------------------------
(* The millionaires' program of the enclave (sfe_entry) and its plain twin   *)
(* (sfe_naive_entry).  A number is an array of words, the least significant  *)
(* first.  lessequalto runs twice, once each way: it carries a borrow from   *)
(* word to word and answers 1 when none is left.  The oblivious form         *)
(* computes masks where the plain form branches.                             *)
EXTENDS Integers

CONSTANTS
    MilSize,      \* sfe_mil_size
    W          \* the words are 0 .. W - 1 (2^32)

ASSUME MilSizeAssumption == MilSize \in Nat \ {0} /\ W \in Nat /\ W >= 2

VARIABLES
    alice, bob,   \* the two numbers
    milNaive,        \* which of the two programs runs
    milPc,           \* "alice" or "bob" (the comparison for that output), "both", "done"
    milI,            \* the word reached
    borrow,
    outputalice, outputbob

milVars == <<alice, bob, milNaive, milPc, milI, borrow, outputalice, outputbob>>

MilWord == 0 .. W - 1
MilNumber == [0 .. MilSize - 1 -> MilWord]

MilTypeOK ==
    /\ alice \in MilNumber /\ bob \in MilNumber
    /\ milNaive \in BOOLEAN
    /\ milPc \in {"alice", "bob", "both", "done"}
    /\ milI \in 0 .. MilSize
    /\ borrow \in {0, 1}
    /\ outputalice \in {0, 1} /\ outputbob \in {0, 1}

MilInit ==
    /\ alice \in MilNumber /\ bob \in MilNumber
    /\ milNaive \in BOOLEAN
    /\ milPc = "alice"
    /\ milI = 0
    /\ borrow = 0
    /\ outputalice = 0 /\ outputbob = 0

\* makeSame spreads a condition over the whole word.
makeSame(cond) == IF cond THEN W - 1 ELSE 0

\* (mask & x) | (~mask & y), for the two masks there are.
MaskSelect(mask, x, y) == IF mask = W - 1 THEN x ELSE y

\* Variant: or where the code has and.
ClearLowOr(word, x) == W - 1 - word

\* (word & 0) | (~word & x) for a word that is 0 or 1: it clears at most the
\* lowest bit of x.
ClearLow(word, x) == IF word = 1 THEN x - (x % 2) ELSE x

\* The number lessequalto gets as its first and as its second argument.
First == IF milPc = "alice" THEN alice ELSE bob
Second == IF milPc = "alice" THEN bob ELSE alice

\* Variant: a borrow is taken for equal words too.
BorrowsEqual(a1, b1, b) == a1 <= (b1 + b) % W

\* a1 < (b1 + b): the sum is a word.
Borrows(a1, b1, b) == a1 < (b1 + b) % W

\* One iteration of lessequalto.  The borrow is reset before it is selected.
CompareWord ==
    /\ milPc \in {"alice", "bob"} /\ ~milNaive
    /\ milI < MilSize
    /\ borrow' = MaskSelect(makeSame(Borrows(First[milI], Second[milI], borrow)), 1, 0)
    /\ milI' = milI + 1
    /\ UNCHANGED <<alice, bob, milNaive, milPc, outputalice, outputbob>>

NaiveCompareWord ==
    /\ milPc \in {"alice", "bob"} /\ milNaive
    /\ milI < MilSize
    /\ borrow' = IF Borrows(First[milI], Second[milI], borrow) THEN 1 ELSE 0
    /\ milI' = milI + 1
    /\ UNCHANGED <<alice, bob, milNaive, milPc, outputalice, outputbob>>

\* The output of the comparison that ends: x is 0, then selected twice.
Compared == MaskSelect(makeSame(borrow # 0), 0, MaskSelect(makeSame(borrow = 0), 1, 0))
NaiveCompared == IF borrow = 0 THEN 1 ELSE 0

Finish(x) ==
    /\ milPc \in {"alice", "bob"}
    /\ milI = MilSize
    /\ milI' = 0 /\ borrow' = 0
    /\ IF milPc = "alice"
       THEN milPc' = "bob" /\ outputalice' = x /\ UNCHANGED outputbob
       ELSE milPc' = "both" /\ outputbob' = x /\ UNCHANGED outputalice
    /\ UNCHANGED <<alice, bob, milNaive>>

\* Variant: the outputs are left as they are.
UnsettledWord == 0

\* Both at least as rich as the other: the word that clears both outputs.
SettledWord == IF outputalice = 1 /\ outputbob = 1 THEN 1 ELSE 0

\* sfe_entry: res is not spread by makeSame.
Settle ==
    /\ milPc = "both" /\ ~milNaive
    /\ outputbob' = ClearLow(SettledWord, outputbob)
    /\ outputalice' = ClearLow(SettledWord, outputalice)
    /\ milPc' = "done"
    /\ UNCHANGED <<alice, bob, milNaive, milI, borrow>>

NaiveSettle ==
    /\ milPc = "both" /\ milNaive
    /\ IF SettledWord = 1
       THEN outputbob' = 0 /\ outputalice' = 0
       ELSE UNCHANGED <<outputalice, outputbob>>
    /\ milPc' = "done"
    /\ UNCHANGED <<alice, bob, milNaive, milI, borrow>>

MilNext ==
    \/ CompareWord
    \/ NaiveCompareWord
    \/ ~milNaive /\ Finish(Compared)
    \/ milNaive /\ Finish(NaiveCompared)
    \/ Settle
    \/ NaiveSettle

MilSpec == MilInit /\ [][MilNext]_milVars

-----------------------------------------------------------------------------
\* The lowest n words of a are a smaller number than those of b.
Less(a, b, n) ==
    \E k \in 0 .. n - 1 :
        a[k] < b[k] /\ \A l \in k + 1 .. n - 1 : a[l] = b[l]

\* The program never names the poorer one: an output of 1 means more money,
\* for all numbers, even those whose words overflow when the borrow is added.
WinnerIsRicher ==
    milPc = "done" =>
        /\ outputalice = 1 => Less(bob, alice, MilSize)
        /\ outputbob = 1 => Less(alice, bob, MilSize)

\* A word of all ones swallows a borrow, so only numbers without one are sure
\* to be told apart.
NoFullWord == \A n \in 0 .. MilSize - 1 : alice[n] # W - 1 /\ bob[n] # W - 1

\* Without such words the outputs are the comparison, both ways.
Decides ==
    milPc = "done" /\ NoFullWord =>
        /\ outputalice = 1 <=> Less(bob, alice, MilSize)
        /\ outputbob = 1 <=> Less(alice, bob, MilSize)

\* What the two outputs tell, of any two numbers.
OutputsTell == WinnerIsRicher /\ Decides
=============================================================================
