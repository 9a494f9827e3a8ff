----------------------------- MODULE MCCreateTx -----------------------------
(* Amounts in tenths of MinUTxODefaultValue: potentialFee is 3, the largest  *)
(* fee 13.  Keys of two bytes: a pair, a pair whose signing key has lost its *)
(* leading zero, and an extended key, longer than its seed, with a public    *)
(* key that is not its seed's.                                               *)
EXTENDS CreateTx

MCUtxoLists == UNION {[1..n -> {7, 10, 13, 23}] : n \in 0..3}

Bytes(s)    == [bytes |-> s]
Pair(n)     == [skey |-> Bytes(<<n, n>>), vkey |-> Bytes(Public(<<n, n>>))]
Short(n)    == [skey |-> Bytes(<<n>>), vkey |-> Bytes(Public(<<0, n>>))]
Extended(n) == [skey |-> Bytes(<<n, n, n>>), vkey |-> Bytes(<<n, n + 256>>)]

MCWalletTexts ==
    {[own |-> <<Short(1)>>, sig |-> <<Pair(4), Pair(2), Short(3)>>,
      fee |-> <<Pair(7), Pair(6), w>>] : w \in {Pair(5), Extended(5)}}
    \cup {[own |-> <<Extended(1)>>, sig |-> <<Pair(2), Pair(3)>>,
           fee |-> <<Pair(4), Pair(5), Pair(6)>>]}
=============================================================================
