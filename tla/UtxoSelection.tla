--------------------------- MODULE UtxoSelection ---------------------------
(* core/transaction_extended.go, GetUTXOsForAmount: takes an address's UTxOs *)
(* in the order the provider lists them until their sum hits exactSum or     *)
(* reaches atLeastSum.  Sums are uint64.                                     *)
EXTENDS Amounts

CONSTANT Bounds     \* the pairs <<exactSum, atLeastSum>> that callers ask for

ASSUME BoundsAssumption ==
    \A bd \in Bounds : bd[1] \in Nat /\ bd[2] \in Nat \ {0} /\ bd[1] <= bd[2]

VARIABLES
    utxos,      \* the UTxOs, as listed by the provider
    bounds,     \* exactSum and atLeastSum
    chosen,     \* how many of them are in chosenUTXOs
    amountSum,  \* their sum
    outcome     \* "query", "loop", "ok", "poor" (not enough funds) or "err"

selectVars == <<utxos, bounds, chosen, amountSum, outcome>>

SelectInit ==
    /\ utxos = <<>>
    /\ bounds \in Bounds
    /\ chosen = 0
    /\ amountSum = 0
    /\ outcome = "query"

GetUtxos(list) ==
    /\ outcome = "query"
    /\ utxos' = list
    /\ outcome' = "loop"
    /\ UNCHANGED <<bounds, chosen, amountSum>>

GetUtxosFails ==
    /\ outcome = "query"
    /\ outcome' = "err"
    /\ UNCHANGED <<utxos, bounds, chosen, amountSum>>

\* Mutant: the sum is tested before the UTxO has been added.
TakeTestedBefore ==
    /\ outcome = "loop" /\ chosen < Len(utxos)
    /\ chosen' = chosen + 1
    /\ amountSum' = Plus64(amountSum, utxos[chosen + 1].amount)
    /\ outcome' = IF Meets(amountSum, bounds) THEN "ok" ELSE "loop"
    /\ UNCHANGED <<utxos, bounds>>

\* One iteration: the sum is tested after the UTxO has been added.
Take ==
    /\ outcome = "loop" /\ chosen < Len(utxos)
    /\ chosen' = chosen + 1
    /\ amountSum' = Plus64(amountSum, utxos[chosen + 1].amount)
    /\ outcome' = IF Meets(amountSum', bounds) THEN "ok" ELSE "loop"
    /\ UNCHANGED <<utxos, bounds>>

NotEnough ==
    /\ outcome = "loop" /\ chosen = Len(utxos)
    /\ outcome' = "poor"
    /\ UNCHANGED <<utxos, bounds, chosen, amountSum>>

(* ------------------------------ properties ------------------------------- *)

\* The amounts of the list that GetUtxos returned.
Listing == [i \in DOMAIN utxos |-> utxos[i].amount]

\* The loop returns the shortest sufficient prefix and its true sum: nothing is
\* counted twice, left out, or taken beyond what was asked for
\* (transaction_extended.go:53-66).
ReturnsShortestPrefix ==
    outcome = "ok" =>
        /\ chosen = Selected(Listing, bounds)
        /\ amountSum = PrefixSum(Listing, chosen)
=============================================================================
