------------------------------ MODULE CreateTx ------------------------------
(* main.go, createTx and createMultiSigTx: the two flows that fetch the      *)
(* protocol parameters and the tip, choose UTxOs, drive a TxBuilder through  *)
(* fee, amounts and body, sign the body's hash and assemble the result.  A   *)
(* chain of field setters is one Configure step of the builder; every        *)
(* operation of the builder runs in its own steps.                           *)
(*                                                                           *)
(* Output 1 is the receiver's; the others return the change to the addresses *)
(* that paid, in the order of Sources.                                       *)
EXTENDS Amounts, Wallets, PolicyScript

CONSTANTS
    MinUTxO,        \* MinUTxODefaultValue
    PotentialFee,   \* potentialFee
    Fees,           \* what calculate-min-fee may answer
    UtxoLists,      \* what GetUtxos may return: sequences of amounts
    TTLs,           \* what tip.Slot + 200 may be
    WalletTexts,    \* what the wallets may be loaded from: the key literals of
                    \* the wallets that own each address
    MaxInputs       \* bound: inputs, outputs and witnesses of a transaction

\* Every UTxO on chain is worth more than potentialFee, 0.3 ADA, and every fee
\* that maxTxSize admits (876277 lovelace) less than potentialFee plus
\* MinUTxODefaultValue (1300000 lovelace).  What createTx asks for is an amount.
ASSUME FlowAssumption ==
    /\ MinUTxO \in Nat \ {0} /\ PotentialFee \in Nat
    /\ 2 * MinUTxO + PotentialFee < Word
    /\ Fees \subseteq 0..(PotentialFee + MinUTxO)
    /\ TTLs \subseteq Nat
    /\ MaxInputs \in Nat
    /\ \A us \in UtxoLists :
        /\ us \in Seq(Nat) /\ 2 * Total(us) < Word /\ 2 * Len(us) <= MaxInputs
        /\ \A i \in DOMAIN us : us[i] > PotentialFee

\* The addresses that pay.
Addresses == {"own", "sig", "fee"}

KeyTexts == [vkey : [bytes : Seq(Nat)], skey : [bytes : Seq(Nat)]]

\* createMultiSigTx asks both scripts for as many keys as the signers' number
\* demands; main passes three signers and three that pay the fee.
Required(ws) == (Len(ws["sig"]) * 2) \div 3 + 1

ASSUME ThresholdAssumption ==
    \A ws \in WalletTexts :
        /\ ws \in [Addresses -> Seq(KeyTexts)]
        /\ Len(ws["own"]) = 1 /\ Len(ws["sig"]) > 0
        /\ Required(ws) <= Len(ws["fee"])
        /\ Len(ws["sig"]) + Len(ws["fee"]) <= MaxInputs

VARIABLES
    b, dir, pc, call, ret, calls,   \* the builder
    wallets,    \* the wallets that own each address, in order
    kind,       \* "single" for createTx, "multi" for createMultiSigTx
    stage,      \* where the flow is
    funds,      \* what GetUTXOsForAmount returned, per address
    fee,        \* what CalculateFee returned
    feeKeys,    \* history: the number of witnesses that fee pays for
    txHash,     \* what Build returned with the body
    signed      \* the transaction that the flow returns

flow    == <<wallets, kind, stage, funds, fee, feeKeys, txHash, signed>>
builder == <<b, dir, pc, call, ret, calls>>
vars    == <<flow, builder>>

Nothing == "nothing"

Load(texts) ==
    [a \in Addresses |-> [k \in DOMAIN texts[a] |->
        NewWallet(GetKeyBytes(texts[a][k].vkey), GetKeyBytes(texts[a][k].skey))]]

NoScript == [type |-> "none"]

ScriptOf(ws, a) ==
    IF a = "own" THEN NoScript
    ELSE NewPolicyScript([k \in DOMAIN ws[a] |-> GetKeyHash(ws[a][k].vkey)], Required(ws))

Script(a) == ScriptOf(wallets, a)

AllScripts == {ScriptOf(Load(ts), a) : ts \in WalletTexts, a \in {"sig", "fee"}}
Sources   == IF kind = "single" THEN <<"own">> ELSE <<"sig", "fee">>

Inputs == Addresses \X (1..MaxInputs)

\* main's testNetMagic.
TestNetMagic == 2

\* Witnesses only bounds the callers in the builder's own Next.
B == INSTANCE TxBuilder WITH
    Scripts   <- AllScripts,
    KeyCount  <- [s \in AllScripts |-> GetCount(s)],
    NoScript  <- NoScript,
    Params    <- {"params"},
    Metadata  <- {"single", "multi"},
    Nil       <- "nil",
    TTLs      <- TTLs \cup {0},
    Amounts   <- 0..(Word - 1),
    Magics    <- {0, TestNetMagic},
    MainNetMagic <- 764824073,
    Witnesses <- {},
    NoFile    <- "no-file",
    MaxCalls  <- 8

(* ---------------------------- amounts and inputs ------------------------- *)

OutputsSum == MinUTxO

\* What the flows ask GetUTXOsForAmount for.
Ask(a) ==
    LET all == Plus64(Plus64(OutputsSum, PotentialFee), MinUTxO)
    IN  CASE a = "own" -> <<all, all>>
          [] a = "sig" -> <<OutputsSum, Plus64(OutputsSum, MinUTxO)>>
          [] a = "fee" -> <<PotentialFee, Plus64(PotentialFee, MinUTxO)>>

Chosen(a) == [i \in 1..funds[a].count |-> <<a, i>>]

\* The change of each output after the receiver's.
Change(a) ==
    CASE a = "own" -> Minus64(Minus64(funds[a].sum, OutputsSum), fee')
      [] a = "sig" -> Minus64(funds[a].sum, OutputsSum)
      [] a = "fee" -> Minus64(funds[a].sum, fee')

(* -------------------------------- the flows ------------------------------ *)

NoFunds == [a \in Addresses |-> [count |-> 0, sum |-> 0]]

Init ==
    /\ \E texts \in WalletTexts : wallets = Load(texts)
    /\ kind \in {"single", "multi"}
    /\ stage = "setup"
    /\ funds = NoFunds
    /\ fee = 0 /\ feeKeys = 0
    /\ txHash = Nothing /\ signed = Nothing
    /\ b = B!NewTxBuilder
    /\ dir = [B!EmptyDir EXCEPT !.exists = FALSE]
    /\ pc = "idle" /\ call = B!NoCall /\ ret = B!Err /\ calls = 0

\* Every return behind NewTxBuilder runs the deferred Dispose.
Leave(s) == stage' = s /\ B!Dispose

\* Addresses, policy scripts and their hashes, then NewTxBuilder.
Setup ==
    /\ stage = "setup"
    /\ stage' = "params"
    /\ dir' = B!EmptyDir
    /\ UNCHANGED <<wallets, kind, funds, fee, feeKeys, txHash, signed, b, pc, call, ret, calls>>

SetupFails ==
    /\ stage = "setup"
    /\ stage' = "failed"
    /\ UNCHANGED <<wallets, kind, funds, fee, feeKeys, txHash, signed, builder>>

\* SetProtocolParametersAndTTL sets both or none.
SetParams ==
    /\ stage = "params"
    /\ \E ttl \in TTLs :
        B!Configure(B!SetTimeToLive(B!SetProtocolParameters(b, "params"), ttl))
    /\ stage' = "select"
    /\ UNCHANGED <<wallets, kind, funds, fee, feeKeys, txHash, signed>>

\* GetUTXOsForAmount of the next address that pays, or "not enough funds".
Select ==
    /\ stage = "select"
    /\ \E x \in DOMAIN Sources, us \in UtxoLists :
        LET a == Sources[x]
            n == Selected(us, Ask(a))
        IN  /\ funds[a].count = 0
            /\ \A y \in 1..(x - 1) : funds[Sources[y]].count # 0
            /\ IF n = 0
               THEN Leave("failed") /\ UNCHANGED funds
               ELSE /\ funds' = [funds EXCEPT ![a] = [count |-> n, sum |-> PrefixSum(us, n)]]
                    /\ stage' = IF x = Len(Sources) THEN "configure" ELSE "select"
                    /\ UNCHANGED builder
    /\ UNCHANGED <<wallets, kind, fee, feeKeys, txHash, signed>>

\* A query of the provider, or the marshalling or signing, fails.
CallFails ==
    /\ stage \in {"params", "select", "sign"}
    /\ Leave("failed")
    /\ UNCHANGED <<wallets, kind, funds, fee, feeKeys, txHash, signed>>

\* Metadata, outputs with the change still 0, inputs.
Configure ==
    /\ stage = "configure"
    /\ LET t == B!AddOutputs(B!AddOutputs(B!SetTestNetMagic(B!SetMetaData(b, kind), TestNetMagic),
                                          <<OutputsSum>>),
                             [x \in DOMAIN Sources |-> 0])
       IN  B!Configure(
            IF kind = "single" THEN B!AddInputs(t, Chosen("own"))
            ELSE B!AddInputsWithScript(B!AddInputsWithScript(t, Script("sig"), Chosen("sig")),
                                       Script("fee"), Chosen("fee")))
    /\ stage' = "fee"
    /\ UNCHANGED <<wallets, kind, funds, fee, feeKeys, txHash, signed>>

\* Mutant: one witness, also for a multisig transaction.
CalculateFeeForOne ==
    /\ stage = "fee"
    /\ B!CalculateFee(1)
    /\ stage' = "fee-run"
    /\ UNCHANGED <<wallets, kind, funds, fee, feeKeys, txHash, signed>>

CalculateFee ==
    /\ stage = "fee"
    /\ B!CalculateFee(IF kind = "single" THEN 1 ELSE 0)
    /\ stage' = "fee-run"
    /\ UNCHANGED <<wallets, kind, funds, fee, feeKeys, txHash, signed>>

\* Mutant: SetFee is missing.
SetAmountsOnly ==
    /\ stage = "fee-run" /\ pc = "idle" /\ ret.ok
    /\ fee' \in Fees
    /\ feeKeys' = ret.value.witnesses
    /\ B!Configure(
        IF kind = "single" THEN B!UpdateOutputAmount(b, -1, Change("own"))
        ELSE B!UpdateOutputAmount(B!UpdateOutputAmount(b, -2, Change("sig")),
                                  -1, Change("fee")))
    /\ stage' = "build"
    /\ UNCHANGED <<wallets, kind, funds, txHash, signed>>

\* Mutant: the change of each multisig address goes to the other.
SetAmountsSwapped ==
    /\ stage = "fee-run" /\ pc = "idle" /\ ret.ok
    /\ fee' \in Fees
    /\ feeKeys' = ret.value.witnesses
    /\ LET t == B!SetFee(b, fee')
       IN  B!Configure(
            IF kind = "single" THEN B!UpdateOutputAmount(t, -1, Change("own"))
            ELSE B!UpdateOutputAmount(B!UpdateOutputAmount(t, -1, Change("sig")),
                                      -2, Change("fee")))
    /\ stage' = "build"
    /\ UNCHANGED <<wallets, kind, funds, txHash, signed>>

\* SetFee and UpdateOutputAmount, from the last output backwards.
SetAmounts ==
    /\ stage = "fee-run" /\ pc = "idle" /\ ret.ok
    /\ fee' \in Fees
    /\ feeKeys' = ret.value.witnesses
    /\ LET t == B!SetFee(b, fee')
       IN  B!Configure(
            IF kind = "single" THEN B!UpdateOutputAmount(t, -1, Change("own"))
            ELSE B!UpdateOutputAmount(B!UpdateOutputAmount(t, -2, Change("sig")),
                                      -1, Change("fee")))
    /\ stage' = "build"
    /\ UNCHANGED <<wallets, kind, funds, txHash, signed>>

Build ==
    /\ stage = "build"
    /\ B!Build
    /\ stage' = "build-run"
    /\ UNCHANGED <<wallets, kind, funds, fee, feeKeys, txHash, signed>>

BuildDone ==
    /\ stage = "build-run" /\ pc = "idle" /\ ret.ok
    /\ txHash' = ret.value.txHash
    /\ stage' = "sign"
    /\ UNCHANGED <<wallets, kind, funds, fee, feeKeys, signed, builder>>

\* The wallets in the order of the flow's loops.
Keys == IF kind = "single" THEN wallets["own"] ELSE wallets["sig"] \o wallets["fee"]

Attached == [k \in DOMAIN Keys |-> CreateTxWitness(txHash, Keys[k])]

\* Mutant: the witnesses are not verified.
SignUnverified ==
    /\ stage = "sign"
    /\ B!AssembleTxWitnesses(ret.value.txRaw, Attached)
    /\ stage' = "sign-run"
    /\ UNCHANGED <<wallets, kind, funds, fee, feeKeys, txHash, signed>>

\* CreateTxWitness of every wallet in turn; createMultiSigTx verifies each.
Sign ==
    /\ stage = "sign"
    /\ IF kind = "single" \/ \A k \in DOMAIN Keys : VerifyWitness(txHash, Attached[k])
       THEN B!AssembleTxWitnesses(ret.value.txRaw, Attached) /\ stage' = "sign-run"
       ELSE Leave("failed")
    /\ UNCHANGED <<wallets, kind, funds, fee, feeKeys, txHash, signed>>

Finish ==
    /\ stage = "sign-run" /\ pc = "idle" /\ ret.ok
    /\ signed' = ret.value
    /\ Leave("done")
    /\ UNCHANGED <<wallets, kind, funds, fee, feeKeys, txHash>>

Running == {"fee-run", "build-run", "sign-run"}

RunBuilder ==
    /\ stage \in Running
    /\ B!OperationStep
    /\ UNCHANGED flow

\* Mutant: no Dispose behind a failed operation.
OperationFailedLeaking ==
    /\ stage \in Running /\ pc = "idle" /\ ~ret.ok
    /\ stage' = "failed"
    /\ UNCHANGED <<wallets, kind, funds, fee, feeKeys, txHash, signed, builder>>

OperationFailed ==
    /\ stage \in Running /\ pc = "idle" /\ ~ret.ok
    /\ Leave("failed")
    /\ UNCHANGED <<wallets, kind, funds, fee, feeKeys, txHash, signed>>

Next ==
    \/ Setup \/ SetupFails \/ SetParams \/ Select \/ CallFails \/ Configure
    \/ CalculateFee \/ SetAmounts \/ Build \/ BuildDone \/ Sign \/ Finish
    \/ RunBuilder \/ OperationFailed

Spec == Init /\ [][Next]_vars

(* ------------------------------ properties ------------------------------- *)

\* The inputs that were chosen, each with the script of its address.
ChosenWithScripts ==
    LET of(a) == [i \in 1..funds[a].count |-> [in |-> <<a, i>>, script |-> Script(a)]]
    IN  IF kind = "single" THEN of("own") ELSE of("sig") \o of("fee")

\* What a flow returns spends exactly the chosen UTxOs with their scripts, at
\* the fee that was calculated, with its own metadata, and carries one witness
\* of every wallet in turn, each over the hash of this very body
\* (main.go:86-127, 224-280).
SignedIsIntended ==
    stage = "done" =>
        /\ signed.body.ins = ChosenWithScripts
        /\ signed.body.fee = fee
        /\ signed.body.meta = kind
        /\ signed.witnesses =
            [k \in DOMAIN Keys |-> CreateTxWitness(B!TxId(signed.body), Keys[k])]

\* What an address that pays spends on others.
Spends(a) ==
    CASE a = "own" -> MinUTxO + signed.body.fee
      [] a = "sig" -> MinUTxO
      [] a = "fee" -> signed.body.fee

\* No lovelace is created, lost or handed to another: the receiver gets what it
\* was promised, every address that pays gets back all its chosen UTxOs are worth
\* but the payment and the fee it owes, in true arithmetic although the flow
\* subtracts in uint64 and counts outputs from the end, and no output is below
\* the minimum (main.go:110, 244-245).
ValueConserved ==
    stage = "done" =>
        /\ Len(signed.body.outs) = 1 + Len(Sources)
        /\ signed.body.outs[1] = MinUTxO
        /\ \A x \in DOMAIN Sources :
            signed.body.outs[x + 1] + Spends(Sources[x]) = funds[Sources[x]].sum
        /\ \A x \in DOMAIN signed.body.outs : signed.body.outs[x] >= MinUTxO

\* The fee pays for at least as many witnesses as are attached; a multisig flow
\* passes 0 and leaves the counting to the scripts of the inputs (main.go:103,
\* 237, transaction.go:183-193).
WitnessesPaidFor == stage = "done" => feeKeys >= Len(signed.witnesses)

\* The ledger finds the signatures that it asks for: those in the transaction
\* that verify over the hash of its body satisfy the script of every input;
\* keys that are cut to size or are no pair never get that far.  createTx does
\* not verify its witness: its transaction carries the signature of the inputs'
\* owner if the keys are a pair (main.go:117, 135-136, 252-273).
WitnessesSuffice ==
    stage = "done" =>
        LET txid  == B!TxId(signed.body)
            valid == {GetKeyHash(w.vkey) :
                        w \in {v \in ToSet(signed.witnesses) : VerifyWitness(txid, v)}}
            owner == wallets["own"][1]
        IN  \A i \in DOMAIN signed.body.ins :
                LET script == signed.body.ins[i].script
                IN  IF script # NoScript THEN Satisfied(script, valid)
                    ELSE owner.vkey = Public(owner.skey) => GetKeyHash(owner.vkey) \in valid

\* UTxOs that hit exactSum leave no change, and the output that should hold it
\* makes Build refuse: the exact match of GetUTXOsForAmount never leads to a
\* transaction (main.go:214-216, 244, transaction.go:247-267).
ExactMatchNeverBuilds ==
    kind = "multi" /\ stage \in {"sign", "sign-run", "done"} =>
        funds["sig"].sum > OutputsSum

\* No run of a flow leaves the builder's directory behind, whichever call fails
\* (main.go:82, 204).
LeavesNoFiles == stage \in {"done", "failed"} => ~dir.exists
=============================================================================
