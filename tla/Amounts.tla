------------------------------ MODULE Amounts ------------------------------
(* Lovelace amounts are uint64 (core/interfaces.go, core/transaction.go):    *)
(* sums and differences wrap around silently.                                *)
EXTENDS Integers, Sequences, SequencesExt

CONSTANT Word   \* 2^64

ASSUME WordAssumption == Word \in Nat \ {0}

Plus64(x, y)  == IF x + y < Word THEN x + y ELSE x + y - Word
Minus64(x, y) == IF y <= x THEN x - y ELSE x - y + Word

\* The true sum of the first n amounts.
PrefixSum(amounts, n) == FoldLeft(+, 0, SubSeq(amounts, 1, n))
Total(amounts)        == PrefixSum(amounts, Len(amounts))

\* Mutant: more than atLeastSum.
MeetsStrict(sum, bd) == sum = bd[1] \/ sum > bd[2]

\* The test of GetUTXOsForAmount; bd is <<exactSum, atLeastSum>>.
Meets(sum, bd) == sum = bd[1] \/ sum >= bd[2]

\* The prefixes of a list of UTxOs that pass it, and the shortest one's length,
\* 0 when there is none.
Sufficient(amounts, bd) == {n \in 1..Len(amounts) : Meets(PrefixSum(amounts, n), bd)}

Selected(amounts, bd) ==
    LET ns == Sufficient(amounts, bd)
    IN  IF ns = {} THEN 0 ELSE CHOOSE n \in ns : \A m \in ns : n <= m
=============================================================================
