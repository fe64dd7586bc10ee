-------------------------------- MODULE Bits --------------------------------
(* Numbers and their bits, lowest first, as the shifts and masks of the      *)
(* enclave take them.  The powers of two are a function.                     *)
EXTENDS Integers

\* 1 << n
Two[n \in Nat] == IF n = 0 THEN 1 ELSE 2 * Two[n - 1]

\* (a >> n) & 1
BitOf(a, n) == (a \div Two[n]) % 2

\* The number that the first w bits make.
FromBits(bit, w) ==
    LET sum[n \in 0 .. w] == IF n = 0 THEN 0 ELSE 2 * sum[n - 1] + bit[w - n]
    IN  sum[w]
=============================================================================
