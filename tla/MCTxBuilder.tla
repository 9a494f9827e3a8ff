---------------------------- MODULE MCTxBuilder ----------------------------
(* Two inputs, two scripts with different numbers of keys, two witnesses.    *)
EXTENDS TxBuilder

CONSTANTS i1, i2, s1, s2, w1, w2

MCInputs    == {i1, i2}
MCScripts   == {s1, s2}
MCKeyCount  == [s \in MCScripts |-> IF s = s1 THEN 2 ELSE 3]
MCWitnesses == {w1, w2}
=============================================================================
