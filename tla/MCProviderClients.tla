------------------------- MODULE MCProviderClients -------------------------
(* Addresses with up to three UTxOs and a page of two; sums below, at,       *)
(* between and above the bounds that createTx and createMultiSigTx ask for.  *)
EXTENDS ProviderClients

CONSTANTS MCAmounts, MCMaxUtxos

MCGenesis == UNION {[1..n -> MCAmounts] : n \in 0..MCMaxUtxos}

\* createTx's bounds are equal; createMultiSigTx's leave a gap for the change.
MCBounds == {<<23, 23>>, <<3, 13>>}
=============================================================================
