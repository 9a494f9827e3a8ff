---------------------------- MODULE CreateTxProof ----------------------------
(* Proofs about CreateTx: what the two flows return is what they intended,   *)
(* conserves value, is paid for and signed as the ledger asks, whatever the  *)
(* provider, cardano-cli and the wallets give them.                          *)
(*                                                                           *)
(* The flows drive a TxBuilder; what is proved of every builder (its files   *)
(* are never stale) is used of this one.  FlowInv adds what the flow knows   *)
(* at every stage: what was chosen, which fields are set, and which call is  *)
(* running.                                                                  *)
EXTENDS CreateTx, AmountsProof, FiniteSetTheorems

(* --------------------------- the builder's proofs ------------------------ *)

Ins == [in : Inputs, script : AllScripts \cup {NoScript}]

\* Every body that the flows may build, and every witness over one.
Bodies ==
    [ins : Seq(Ins), outs : Seq(0..(Word - 1)), fee : 0..(Word - 1), ttl : TTLs \cup {0},
     meta : {"single", "multi", "nil"}]

Signers == UNION {ToSet(Load(ts)[a]) : ts \in WalletTexts, a \in Addresses}

AllWitnesses == {CreateTxWitness(B!TxId(body), w) : body \in Bodies, w \in Signers}

\* What is proved of every TxBuilder is proved of this one.
P == INSTANCE TxBuilderProof WITH
    Scripts   <- AllScripts,
    KeyCount  <- [s \in AllScripts |-> GetCount(s)],
    NoScript  <- NoScript,
    Params    <- {"params"},
    Metadata  <- {"single", "multi"},
    Nil       <- "nil",
    TTLs      <- TTLs \cup {0},
    Amounts   <- 0..(Word - 1),
    Magics    <- {0, TestNetMagic},
    MainNetMagic <- 764824073,
    Witnesses <- AllWitnesses,
    NoFile    <- "no-file",
    MaxCalls  <- 8

\* The parts of both are the same.
LEMMA SameParts ==
    /\ B!NewTxBuilder = P!NewTxBuilder /\ B!NoCall = P!NoCall /\ B!Err = P!Err
    /\ B!EmptyDir = P!EmptyDir
    /\ \A v : B!Ok(v) = P!Ok(v)
    /\ \A t, f : B!Described(t, f) = P!Described(t, f)
    /\ \A tx : B!TxId(tx) = P!TxId(tx)
    /\ \A tx, ws : B!Signed(tx, ws) = P!Signed(tx, ws)
    /\ \A m : B!MagicArgs(m) = P!MagicArgs(m)
    /\ \A body, i, o, w, p, n :
            B!MinFee(body, i, o, w, p, n) = P!MinFee(body, i, o, w, p, n)
    /\ \A t : B!CheckOutputs(t) = P!CheckOutputs(t)
    /\ \A t, w : B!WitnessCount(t, w) = P!WitnessCount(t, w)
<1>1. /\ B!NewTxBuilder = P!NewTxBuilder /\ B!NoCall = P!NoCall /\ B!Err = P!Err
      /\ B!EmptyDir = P!EmptyDir
      /\ \A v : B!Ok(v) = P!Ok(v)
  BY DEF B!NewTxBuilder, P!NewTxBuilder, B!NoCall, P!NoCall, B!Err, P!Err, B!EmptyDir,
     P!EmptyDir, B!Ok, P!Ok
<1>2. /\ \A t, f : B!Described(t, f) = P!Described(t, f)
      /\ \A tx : B!TxId(tx) = P!TxId(tx)
      /\ \A tx, ws : B!Signed(tx, ws) = P!Signed(tx, ws)
      /\ \A m : B!MagicArgs(m) = P!MagicArgs(m)
      /\ \A body, i, o, w, p, n :
            B!MinFee(body, i, o, w, p, n) = P!MinFee(body, i, o, w, p, n)
  BY DEF B!Described, P!Described, B!TxId, P!TxId, B!Signed, P!Signed, B!MagicArgs,
     P!MagicArgs, B!MinFee, P!MinFee
<1>3. \A t : B!CheckOutputs(t) = P!CheckOutputs(t)
  BY DEF B!CheckOutputs, P!CheckOutputs
<1>4. \A t, w : B!WitnessCount(t, w) = P!WitnessCount(t, w)
  BY DEF B!WitnessCount, P!WitnessCount, B!FoldLeft, P!FoldLeft, B!MapThenFoldSet,
     P!MapThenFoldSet, B!Max, P!Max
<1> QED BY <1>1, <1>2, <1>3, <1>4

\* So are the calls and their steps.
LEMMA SameSteps ==
    /\ \A t : B!Configure(t) = P!Configure(t)
    /\ \A w : B!CalculateFee(w) = P!CalculateFee(w)
    /\ B!Build = P!Build
    /\ \A tx, ws : B!AssembleTxWitnesses(tx, ws) = P!AssembleTxWitnesses(tx, ws)
    /\ B!Dispose = P!Dispose
    /\ B!OperationStep => P!OperationStep
<1>1. /\ \A t : B!Configure(t) = P!Configure(t)
      /\ \A w : B!CalculateFee(w) = P!CalculateFee(w)
      /\ B!Build = P!Build
      /\ \A tx, ws : B!AssembleTxWitnesses(tx, ws) = P!AssembleTxWitnesses(tx, ws)
      /\ B!Dispose = P!Dispose
  BY SameParts DEF B!Configure, P!Configure, B!CalculateFee, P!CalculateFee, B!Build, P!Build,
     B!AssembleTxWitnesses, P!AssembleTxWitnesses, B!Dispose, P!Dispose, B!Operation,
     P!Operation, B!Start, P!Start
<1>2. /\ \A r : B!Return(r) = P!Return(r)
      /\ \A label : B!Goto(label) = P!Goto(label)
      /\ \A new : B!Writable(new) = P!Writable(new)
      /\ \A f : B!Drafted(f) = P!Drafted(f)
      /\ B!BuildFee = P!BuildFee
  BY DEF B!Return, P!Return, B!Goto, P!Goto, B!Writable, P!Writable, B!Drafted, P!Drafted,
     B!BuildFee, P!BuildFee
<1>3. /\ B!WriteParams = P!WriteParams /\ B!WriteMetadata = P!WriteMetadata
      /\ \A n : B!WritePolicies(n) = P!WritePolicies(n)
      /\ \A noisy : B!RunBuildRaw(noisy) = P!RunBuildRaw(noisy)
      /\ B!RunCalculateMinFee = P!RunCalculateMinFee
      /\ B!ReadDraft = P!ReadDraft /\ B!RunTxId = P!RunTxId
      /\ \A n : B!WriteWitnesses(n) = P!WriteWitnesses(n)
      /\ B!WriteRaw = P!WriteRaw
      /\ \A noisy : B!RunAssemble(noisy) = P!RunAssemble(noisy)
      /\ B!ReadSigned = P!ReadSigned /\ B!StepFails = P!StepFails
  <2>1. B!WriteParams = P!WriteParams
    BY <1>2 DEF B!WriteParams, P!WriteParams
  <2>2. B!WriteMetadata = P!WriteMetadata
    BY <1>2 DEF B!WriteMetadata, P!WriteMetadata
  <2>3. \A n : B!WritePolicies(n) = P!WritePolicies(n)
    BY <1>2, SameParts DEF B!WritePolicies, P!WritePolicies
  <2>4. \A noisy : B!RunBuildRaw(noisy) = P!RunBuildRaw(noisy)
    BY <1>2, SameParts DEF B!RunBuildRaw, P!RunBuildRaw
  <2>5. B!RunCalculateMinFee = P!RunCalculateMinFee
    BY <1>2, SameParts DEF B!RunCalculateMinFee, P!RunCalculateMinFee
  <2>6. B!ReadDraft = P!ReadDraft
    BY <1>2 DEF B!ReadDraft, P!ReadDraft
  <2>7. B!RunTxId = P!RunTxId
    BY <1>2, SameParts DEF B!RunTxId, P!RunTxId
  <2>8. \A n : B!WriteWitnesses(n) = P!WriteWitnesses(n)
    BY <1>2, SameParts DEF B!WriteWitnesses, P!WriteWitnesses
  <2>9. B!WriteRaw = P!WriteRaw
    BY <1>2 DEF B!WriteRaw, P!WriteRaw
  <2>10. \A noisy : B!RunAssemble(noisy) = P!RunAssemble(noisy)
    BY <1>2, SameParts DEF B!RunAssemble, P!RunAssemble
  <2>11. B!ReadSigned = P!ReadSigned /\ B!StepFails = P!StepFails
    BY <1>2, SameParts DEF B!ReadSigned, P!ReadSigned, B!StepFails, P!StepFails
  <2> QED BY <2>1, <2>2, <2>3, <2>4, <2>5, <2>6, <2>7, <2>8, <2>9, <2>10, <2>11
<1>4. B!OperationStep => P!OperationStep
  BY <1>3 DEF B!OperationStep, P!OperationStep
<1> QED BY <1>1, <1>4

(* ------------------------- the inductive invariant ----------------------- *)

WalletsOK ==
    /\ kind \in {"single", "multi"}
    /\ \E texts \in WalletTexts : wallets = Load(texts)

\* A prefix of what an address holds was sufficient.
Funded(a) ==
    \E us \in UtxoLists :
        /\ funds[a].count \in 1..Len(us)
        /\ funds[a].sum = PrefixSum(us, funds[a].count)
        /\ Meets(funds[a].sum, Ask(a))

Payers == IF kind = "single" THEN {"own"} ELSE {"sig", "fee"}

Filled == {"fee", "fee-run", "build", "build-run", "sign", "sign-run", "done"}
Priced == {"build", "build-run", "sign", "sign-run", "done"}
Built  == {"sign", "sign-run", "done"}

FundsOK ==
    /\ funds \in [Addresses -> [count : Nat, sum : Nat]]
    /\ \A a \in Addresses : funds[a].count = 0 \/ Funded(a)
    /\ stage \in Filled \cup {"configure"} => \A a \in Payers : funds[a].count # 0

Intended ==
    IF kind = "single"
    THEN <<OutputsSum, Minus64(Minus64(funds["own"].sum, OutputsSum), fee)>>
    ELSE <<OutputsSum, Minus64(funds["sig"].sum, OutputsSum), Minus64(funds["fee"].sum, fee)>>

\* The number of witnesses that the flow names.
Named == IF kind = "single" THEN 1 ELSE 0

\* The builder's fields, as far as the flow has come.
FieldsFit ==
    /\ stage \in {"setup", "params"} => b = B!NewTxBuilder
    /\ stage \in {"select", "configure"} =>
        b.inputs = <<>> /\ b.outputs = <<>> /\ b.minOutput = 0
    /\ stage \in Filled =>
        b.inputs = ChosenWithScripts /\ b.metadata = kind /\ b.minOutput = 0
    /\ stage \in {"fee", "fee-run"} =>
        b.outputs = IF kind = "single" THEN <<OutputsSum, 0>> ELSE <<OutputsSum, 0, 0>>
    /\ stage \in Priced =>
        /\ b.outputs = Intended /\ b.fee = fee /\ fee \in Fees
        /\ feeKeys = B!WitnessCount(b, Named)

Body == B!Described(b, b.fee)

\* The builder's call is the flow's, and its result what the flow goes on with.
CallFits ==
    /\ stage \notin Running => pc = "idle"
    /\ stage = "fee-run" => call = [op |-> "fee", witnessCount |-> Named]
    /\ stage = "build-run" => call.op = "build" /\ (pc # "idle" \/ ret.ok => B!CheckOutputs(b))
    /\ stage \in Built => txHash = B!TxId(Body) /\ B!CheckOutputs(b)
    /\ stage = "sign" => call.op = "build" /\ ret.ok
    /\ stage = "sign-run" =>
        call = [op |-> "assemble", txRaw |-> Body, witnesses |-> Attached]
    /\ stage \in {"sign-run", "done"} =>
        kind = "single" \/ \A k \in DOMAIN Keys : VerifyWitness(txHash, Attached[k])
    /\ stage = "done" => signed = B!Signed(Body, Attached)
    /\ stage \in {"setup", "done", "failed"} => ~dir.exists

FlowInv == WalletsOK /\ FundsOK /\ FieldsFit /\ CallFits

(* ---------------------------- scripts and wallets ------------------------ *)

\* Amounts that the flows add up stay below the word.
LEMMA SmallAmounts ==
    /\ Word \in Nat \ {0} /\ MinUTxO \in Nat \ {0} /\ PotentialFee \in Nat
    /\ 2 * MinUTxO + PotentialFee < Word
    /\ OutputsSum = MinUTxO
    /\ Fees \subseteq 0..(Word - 1)
BY WordAssumption, FlowAssumption DEF OutputsSum

\* A policy script has a sig script for every key hash.
LEMMA ScriptOfKeys ==
    ASSUME NEW n \in Nat, NEW s, DOMAIN s = 1..n, NEW m
    PROVE  /\ NewPolicyScript(s, m).required = m
           /\ DOMAIN NewPolicyScript(s, m).scripts = 1..n
           /\ \A i \in 1..n : NewPolicyScript(s, m).scripts[i] = SigScript(Sorted(s)[i])
           /\ NewPolicyScript(s, m) # NoScript
           /\ GetCount(NewPolicyScript(s, m)) = n
<1> DEFINE ps == NewPolicyScript(s, m)
<1>1. DOMAIN Sorted(s) = 1..n
  BY DEF Sorted
<1>2. /\ ps.type = "atLeast" /\ ps.required = m
      /\ DOMAIN ps.scripts = 1..n
      /\ \A i \in 1..n : ps.scripts[i] = SigScript(Sorted(s)[i])
  BY <1>1 DEF NewPolicyScript
<1> HIDE DEF ps
<1>3. {i \in DOMAIN ps.scripts : ps.scripts[i].type = "sig"} = 1..n
  <2>1. \A i \in 1..n : ps.scripts[i].type = "sig"
    <3>1. \A h : SigScript(h).type = "sig"
      BY DEF SigScript
    <3> QED BY <1>2, <3>1
  <2> QED BY <1>2, <2>1
<1>4. GetCount(ps) = n
  <2>1. Cardinality(1..n) = IF 1 > n THEN 0 ELSE (n - 1) + 1
    BY FS_Interval
  <2>2. Cardinality(1..n) = n
    BY <2>1
  <2> QED BY <1>3, <2>2 DEF GetCount
<1>5. ps # NoScript
  BY <1>2 DEF NoScript
<1> QED BY <1>2, <1>4, <1>5 DEF ps

\* What the wallets that own the addresses may be.
LEMMA LoadedWallets ==
    ASSUME NEW ts \in WalletTexts
    PROVE  LET ws == Load(ts)
           IN  /\ \A a \in Addresses : ws[a] \in Seq(Signers) /\ Len(ws[a]) = Len(ts[a])
               /\ Len(ws["own"]) = 1 /\ Len(ws["sig"]) \in Nat \ {0}
               /\ Len(ws["fee"]) \in Nat /\ Required(ws) <= Len(ws["fee"])
               /\ Len(ws["sig"]) + Len(ws["fee"]) <= MaxInputs
<1> DEFINE ws == Load(ts)
<1>1. \A a \in Addresses : ts[a] \in Seq(KeyTexts)
  BY ThresholdAssumption
<1>2. ASSUME NEW a \in Addresses
      PROVE  ws[a] \in Seq(Signers) /\ Len(ws[a]) = Len(ts[a])
  <2>1. ws[a] = [k \in DOMAIN ts[a] |->
            NewWallet(GetKeyBytes(ts[a][k].vkey), GetKeyBytes(ts[a][k].skey))]
    BY DEF Load
  <2>2. Len(ts[a]) \in Nat /\ DOMAIN ts[a] = 1..Len(ts[a])
    <3> HIDE DEF ws
    <3>1. \A l : l \in Seq(KeyTexts) => Len(l) \in Nat /\ DOMAIN l = 1..Len(l)
      OBVIOUS
    <3> QED BY <1>1, <3>1
  <2> DEFINE n == Len(ts[a])
  <2>3. DOMAIN ws[a] = 1..n /\ n \in Nat
    BY <2>1, <2>2
  <2>4. Len(ws[a]) = n
    <3> HIDE DEF ws, n
    <3> QED BY <2>1, <2>2, <2>3 DEF n
  <2>5. ws[a] \in Seq(ToSet(ws[a]))
    <3>1. \A k \in 1..n : ws[a][k] \in ToSet(ws[a])
      BY <2>3 DEF ToSet
    <3>2. ws[a] = [k \in 1..n |-> ws[a][k]]
      BY <2>1, <2>2
    <3> DEFINE T == ToSet(ws[a])
    <3> HIDE DEF ws, n, T
    <3>3. [k \in 1..n |-> ws[a][k]] \in Seq(T)
      BY <2>3, <3>1 DEF T
    <3> QED BY <3>2, <3>3 DEF T
  <2>6. ToSet(ws[a]) \subseteq Signers
    BY DEF Signers
  <2> HIDE DEF ws, n
  <2>7. ws[a] \in Seq(Signers)
    BY <2>5, <2>6, P!SequenceOfMore
  <2> QED BY <2>4, <2>7 DEF n
<1>3. Addresses = {"own", "sig", "fee"}
  BY DEF Addresses
<1>4. \A l : l \in Seq(KeyTexts) => Len(l) \in Nat
  OBVIOUS
<1>5. Required(ws) = Required(ts)
  BY <1>2, <1>3 DEF Required
<1> HIDE DEF ws
<1>6. /\ Len(ws["own"]) = 1 /\ Len(ws["sig"]) \in Nat \ {0}
      /\ Len(ws["fee"]) \in Nat /\ Required(ws) <= Len(ws["fee"])
      /\ Len(ws["sig"]) + Len(ws["fee"]) <= MaxInputs
  <2>1. \A a \in Addresses : Len(ws[a]) = Len(ts[a]) /\ Len(ts[a]) \in Nat
    BY <1>1, <1>2, <1>4
  <2>2. /\ Len(ts["own"]) = 1 /\ Len(ts["sig"]) > 0 /\ Required(ts) <= Len(ts["fee"])
        /\ Len(ts["sig"]) + Len(ts["fee"]) <= MaxInputs
    BY ThresholdAssumption
  <2>3. /\ Len(ws["own"]) = Len(ts["own"]) /\ Len(ts["own"]) \in Nat
        /\ Len(ws["sig"]) = Len(ts["sig"]) /\ Len(ts["sig"]) \in Nat
        /\ Len(ws["fee"]) = Len(ts["fee"]) /\ Len(ts["fee"]) \in Nat
    BY <1>3, <2>1
  <2>4. Required(ws) <= Len(ws["fee"])
    BY <1>5, <2>2, <2>3
  <2>5. Len(ws["own"]) = 1 /\ Len(ws["sig"]) \in Nat \ {0} /\ Len(ws["fee"]) \in Nat
    BY <2>2, <2>3
  <2>6. Len(ws["sig"]) + Len(ws["fee"]) <= MaxInputs
    BY <2>2, <2>3
  <2> QED BY <2>4, <2>5, <2>6
<1> QED BY <1>2, <1>6 DEF ws

\* Every script asks for the keys of all the wallets of its address.
LEMMA ScriptKeys ==
    ASSUME NEW ts \in WalletTexts, NEW a \in {"sig", "fee"}
    PROVE  LET ws == Load(ts)
               hashes == [k \in DOMAIN ws[a] |-> GetKeyHash(ws[a][k].vkey)]
           IN  /\ ScriptOf(ws, a) = NewPolicyScript(hashes, Required(ws))
               /\ DOMAIN hashes = 1..Len(ws[a])
               /\ ScriptOf(ws, a) \in AllScripts
               /\ ScriptOf(ws, a) # NoScript
               /\ GetCount(ScriptOf(ws, a)) = Len(ws[a])
<1> DEFINE ws == Load(ts)
           hashes == [k \in DOMAIN ws[a] |-> GetKeyHash(ws[a][k].vkey)]
<1>1. ScriptOf(ws, a) = NewPolicyScript(hashes, Required(ws))
  BY DEF ScriptOf
<1>2. DOMAIN hashes = 1..Len(ws[a]) /\ Len(ws[a]) \in Nat
  <2>1. ws[a] \in Seq(Signers)
    BY LoadedWallets DEF Addresses
  <2> HIDE DEF ws
  <2> QED BY <2>1
<1>3. ScriptOf(ws, a) \in AllScripts
  BY DEF AllScripts
<1> HIDE DEF ws, hashes
<1>4. ScriptOf(ws, a) # NoScript /\ GetCount(ScriptOf(ws, a)) = Len(ws[a])
  <2> DEFINE n == Len(ws[a])
             m == Required(ws)
  <2>1. n \in Nat /\ DOMAIN hashes = 1..n /\ ScriptOf(ws, a) = NewPolicyScript(hashes, m)
    BY <1>1, <1>2
  <2> HIDE DEF n, m
  <2>2. NewPolicyScript(hashes, m) # NoScript /\ GetCount(NewPolicyScript(hashes, m)) = n
    BY <2>1, ScriptOfKeys
  <2> QED BY <2>1, <2>2 DEF n
<1> QED BY <1>1, <1>2, <1>3, <1>4 DEF ws, hashes

\* This builder meets what is assumed of every builder.
LEMMA BuilderAssumptions == P!PartsAssumption /\ P!BuilderAssumption
<1>1. \A s \in AllScripts : GetCount(s) \in Nat /\ s # NoScript
  <2> TAKE s \in AllScripts
  <2> PICK ts \in WalletTexts, a \in {"sig", "fee"} : s = ScriptOf(Load(ts), a)
    BY DEF AllScripts
  <2>1. Len(Load(ts)[a]) \in Nat
    <3>1. Load(ts)[a] \in Seq(Signers)
      BY LoadedWallets DEF Addresses
    <3> QED BY <3>1
  <2> QED BY <2>1, ScriptKeys
<1>2. [s \in AllScripts |-> GetCount(s)] \in [AllScripts -> Nat]
  BY <1>1
<1>3. NoScript \notin AllScripts
  BY <1>1
<1>4. "nil" \notin {"params"} \cup {"single", "multi"}
  OBVIOUS
<1>5. /\ 0..(Word - 1) \subseteq Nat /\ TTLs \cup {0} \subseteq Nat
      /\ 0 \in (0..(Word - 1)) \cap (TTLs \cup {0}) /\ MinUTxO \in Nat
  BY WordAssumption, FlowAssumption
<1>6. {0, TestNetMagic} \subseteq Nat /\ 0 \in {0, TestNetMagic}
  BY DEF TestNetMagic
<1>7. P!PartsAssumption
  BY <1>2, <1>3, <1>4, <1>5, <1>6 DEF P!PartsAssumption
<1>8. MaxInputs \in Nat /\ 8 \in Nat
  BY FlowAssumption
<1> QED BY <1>7, <1>8 DEF P!BuilderAssumption

(* ------------------------ what the flows hand over ----------------------- *)

\* The inputs of one address.
Of(a) == [i \in 1..funds[a].count |-> [in |-> <<a, i>>, script |-> Script(a)]]

\* The scripts of the addresses and the wallets that sign.
LEMMA Owners ==
    ASSUME WalletsOK
    PROVE  /\ Script("own") = NoScript
           /\ \A a \in {"sig", "fee"} :
                /\ Script(a) \in AllScripts /\ Script(a) # NoScript
                /\ GetCount(Script(a)) = Len(wallets[a])
           /\ \A a \in Addresses : wallets[a] \in Seq(Signers) /\ Len(wallets[a]) \in Nat
           /\ Len(wallets["own"]) = 1 /\ Len(wallets["sig"]) # 0
           /\ Required(wallets) <= Len(wallets["fee"])
           /\ Len(wallets["sig"]) + Len(wallets["fee"]) <= MaxInputs
           /\ Keys \in Seq(Signers)
<1> PICK ts \in WalletTexts : wallets = Load(ts)
  BY DEF WalletsOK
<1>1. /\ \A a \in Addresses : wallets[a] \in Seq(Signers)
      /\ Len(wallets["own"]) = 1 /\ Len(wallets["sig"]) # 0
      /\ Required(wallets) <= Len(wallets["fee"])
      /\ Len(wallets["sig"]) + Len(wallets["fee"]) <= MaxInputs
  BY LoadedWallets
<1>2. \A l : l \in Seq(Signers) => Len(l) \in Nat
  OBVIOUS
<1>3. \A a \in {"sig", "fee"} :
            /\ Script(a) \in AllScripts /\ Script(a) # NoScript
            /\ GetCount(Script(a)) = Len(wallets[a])
  BY ScriptKeys DEF Script
<1>4. Script("own") = NoScript
  BY DEF Script, ScriptOf
<1>5. Keys \in Seq(Signers)
  <2>1. \A a \in {"own", "sig", "fee"} : wallets[a] \in Seq(Signers)
    BY <1>1 DEF Addresses
  <2>2. wallets["sig"] \o wallets["fee"] \in Seq(Signers)
    <3>1. \A S, x, y : x \in Seq(S) /\ y \in Seq(S) => x \o y \in Seq(S)
      OBVIOUS
    <3> QED BY <2>1, <3>1
  <2> QED BY <2>1, <2>2 DEF Keys
<1> QED BY <1>1, <1>2, <1>3, <1>4, <1>5

\* What an address was found to hold: few UTxOs, whose sum does not wrap.
LEMMA FundsOfOne ==
    ASSUME NEW a \in Addresses, Funded(a)
    PROVE  /\ funds[a].count \in Nat \ {0} /\ 2 * funds[a].count <= MaxInputs
           /\ funds[a].sum \in Nat /\ 2 * funds[a].sum < Word
           /\ funds[a].sum > PotentialFee
           /\ Meets(funds[a].sum, Ask(a))
<1> DEFINE n == funds[a].count
<1> PICK us \in UtxoLists :
        /\ n \in 1..Len(us)
        /\ funds[a].sum = PrefixSum(us, n)
        /\ Meets(funds[a].sum, Ask(a))
  BY DEF Funded
<1>1. /\ us \in Seq(Nat) /\ 2 * Total(us) < Word /\ 2 * Len(us) <= MaxInputs
      /\ \A i \in DOMAIN us : us[i] > PotentialFee
  BY FlowAssumption
<1>2. Len(us) \in Nat /\ DOMAIN us = 1..Len(us) /\ \A i \in 1..Len(us) : us[i] \in Nat
  BY <1>1
<1> HIDE DEF n
<1>3. /\ n \in Nat \ {0} /\ n <= Len(us) /\ 1 \in 1..Len(us) /\ n \in 0..Len(us)
      /\ Len(us) \in 0..Len(us) /\ 0 \in 0..Len(us) /\ n \in 1..Len(us)
      /\ Len(us) \in n..Len(us) /\ 1 \in 0..Len(us) /\ n \in 1..Len(us)
  BY <1>2
<1>4. PrefixSum(us, n) \in Nat /\ PrefixSum(us, Len(us)) \in Nat
  BY <1>1, <1>3, PrefixSums
<1>5. PrefixSum(us, n) <= PrefixSum(us, Len(us))
  BY <1>1, <1>3, PrefixSumsGrow
<1>6. PrefixSum(us, 1) <= PrefixSum(us, n)
  BY <1>1, <1>3, PrefixSumsGrow
<1>7. PrefixSum(us, 1) = us[1]
  <2>1. PrefixSum(us, 1) = PrefixSum(us, 1 - 1) + us[1] /\ PrefixSum(us, 0) = 0
    BY <1>1, <1>3, PrefixSums
  <2>2. us[1] \in Nat
    BY <1>2, <1>3
  <2> QED BY <2>1, <2>2
<1>8. us[1] > PotentialFee /\ PotentialFee \in Nat /\ us[1] \in Nat
  BY <1>1, <1>2, <1>3, SmallAmounts
<1>9. 2 * n <= MaxInputs
  BY <1>1, <1>2, <1>3, FlowAssumption
<1>10. 2 * PrefixSum(us, n) < Word
  BY <1>1, <1>4, <1>5, SmallAmounts DEF Total
<1>11. PrefixSum(us, n) > PotentialFee
  BY <1>4, <1>6, <1>7, <1>8
<1> QED BY <1>3, <1>4, <1>9, <1>10, <1>11 DEF n

\* What it is worth is enough: for the multisig address perhaps exactly what is
\* sent, for the one that pays the fee always a minimum beyond the fee.
LEMMA EnoughOf ==
    ASSUME NEW a \in Addresses, Funded(a)
    PROVE  /\ a = "own" => funds[a].sum >= 2 * MinUTxO + PotentialFee
           /\ a = "sig" => funds[a].sum = MinUTxO \/ funds[a].sum >= 2 * MinUTxO
           /\ a = "fee" => funds[a].sum >= PotentialFee + MinUTxO
<1> DEFINE s == funds[a].sum
<1>1. /\ s \in Nat /\ s > PotentialFee /\ Meets(s, Ask(a))
      /\ MinUTxO \in Nat /\ PotentialFee \in Nat /\ Word \in Nat
      /\ 2 * MinUTxO + PotentialFee < Word /\ OutputsSum = MinUTxO
  BY FundsOfOne, SmallAmounts
<1>2. /\ Plus64(OutputsSum, PotentialFee) = MinUTxO + PotentialFee
      /\ Plus64(MinUTxO + PotentialFee, MinUTxO) = 2 * MinUTxO + PotentialFee
      /\ Plus64(OutputsSum, MinUTxO) = 2 * MinUTxO
      /\ Plus64(PotentialFee, MinUTxO) = PotentialFee + MinUTxO
  BY <1>1 DEF Plus64
<1> HIDE DEF s
<1>3. CASE a = "own"
  <2>1. Ask(a) = <<2 * MinUTxO + PotentialFee, 2 * MinUTxO + PotentialFee>>
    BY <1>2, <1>3 DEF Ask
  <2>2. s = 2 * MinUTxO + PotentialFee \/ s >= 2 * MinUTxO + PotentialFee
    BY <1>1, <2>1 DEF Meets
  <2>3. s >= 2 * MinUTxO + PotentialFee
    BY <1>1, <2>2
  <2> QED BY <1>3, <2>3 DEF s
<1>4. CASE a = "sig"
  <2>1. Ask(a) = <<MinUTxO, 2 * MinUTxO>>
    BY <1>1, <1>2, <1>4 DEF Ask
  <2>2. s = MinUTxO \/ s >= 2 * MinUTxO
    BY <1>1, <2>1 DEF Meets
  <2> QED BY <1>4, <2>2 DEF s
<1>5. CASE a = "fee"
  <2>1. Ask(a) = <<PotentialFee, PotentialFee + MinUTxO>>
    BY <1>1, <1>2, <1>5 DEF Ask
  <2>2. s = PotentialFee \/ s >= PotentialFee + MinUTxO
    BY <1>1, <2>1 DEF Meets
  <2>3. s >= PotentialFee + MinUTxO
    BY <1>1, <2>2
  <2> QED BY <1>5, <2>3 DEF s
<1> QED BY <1>3, <1>4, <1>5 DEF Addresses

\* Differences of amounts are amounts.
LEMMA Differences ==
    ASSUME NEW x \in 0..(Word - 1), NEW y \in 0..(Word - 1)
    PROVE  Minus64(x, y) \in 0..(Word - 1)
BY WordAssumption DEF Minus64

\* What the inputs of an address are, and what adding them does.
LEMMA InputsOfOne ==
    ASSUME WalletsOK, NEW a \in Addresses, Funded(a)
    PROVE  /\ Of(a) \in Seq(Ins) /\ Len(Of(a)) = funds[a].count
           /\ \A t : B!AddInputsWithScript(t, Script(a), Chosen(a))
                        = [t EXCEPT !.inputs = @ \o Of(a)]
<1> DEFINE n == funds[a].count
<1>1. n \in Nat \ {0} /\ 2 * n <= MaxInputs /\ MaxInputs \in Nat
  BY FundsOfOne, FlowAssumption
<1>2. Script(a) \in AllScripts \cup {NoScript}
  BY Owners DEF Addresses
<1>3. \A i \in 1..n : <<a, i>> \in Inputs
  <2> TAKE i \in 1..n
  <2>1. i \in 1..MaxInputs
    BY <1>1
  <2> QED BY <2>1 DEF Inputs
<1>4. \A i \in 1..n : [in |-> <<a, i>>, script |-> Script(a)] \in Ins
  BY <1>2, <1>3 DEF Ins
<1>5. Of(a) = [i \in 1..n |-> [in |-> <<a, i>>, script |-> Script(a)]]
  BY DEF Of
<1> HIDE DEF n
<1>6. Of(a) \in Seq(Ins) /\ Len(Of(a)) = n
  <2> DEFINE f == [i \in 1..n |-> [in |-> <<a, i>>, script |-> Script(a)]]
  <2>1. DOMAIN f = 1..n /\ \A i \in 1..n : f[i] \in Ins
    BY <1>4
  <2>2. f = [i \in 1..n |-> f[i]]
    OBVIOUS
  <2> HIDE DEF f
  <2>3. [i \in 1..n |-> f[i]] \in Seq(Ins)
    BY <1>1, <2>1
  <2>4. f \in Seq(Ins) /\ Len(f) = n
    BY <1>1, <2>1, <2>2, <2>3
  <2> QED BY <1>5, <2>4 DEF f
<1>7. ASSUME NEW t
      PROVE  B!AddInputsWithScript(t, Script(a), Chosen(a)) = [t EXCEPT !.inputs = @ \o Of(a)]
  <2> DEFINE ins == Chosen(a)
             ss == [i \in DOMAIN ins |-> Script(a)]
  <2>1. ins = [i \in 1..n |-> <<a, i>>]
    BY DEF Chosen, n
  <2>2. DOMAIN ins = 1..n /\ \A i \in 1..n : ins[i] = <<a, i>>
    BY <2>1
  <2>3. DOMAIN ss = 1..n /\ \A i \in 1..n : ss[i] = Script(a)
    BY <2>2
  <2> HIDE DEF ins, ss
  <2>4. Len(ins) = n /\ Len(ss) = n
    BY <1>1, <2>2, <2>3
  <2>5. [i \in 1..n |-> [in |-> ins[i], script |-> ss[i]]] = Of(a)
    BY <1>5, <2>2, <2>3
  <2>6. B!AddInputsWithScripts(t, ins, ss) = [t EXCEPT !.inputs = @ \o Of(a)]
    <3>1. (IF Len(ins) > Len(ss) THEN Len(ss) ELSE Len(ins)) = n
      BY <2>4
    <3> QED BY <2>5, <3>1 DEF B!AddInputsWithScripts
  <2> QED BY <2>6 DEF B!AddInputsWithScript, ins, ss
<1> QED BY <1>6, <1>7 DEF n

(* ------------------------- the builder's fields -------------------------- *)

\* The fields behind Configure, and behind SetAmounts with the fee f.
Described0 ==
    LET t == B!AddOutputs(B!AddOutputs(B!SetTestNetMagic(B!SetMetaData(b, kind), TestNetMagic),
                                       <<OutputsSum>>),
                          [x \in DOMAIN Sources |-> 0])
    IN  IF kind = "single" THEN B!AddInputs(t, Chosen("own"))
        ELSE B!AddInputsWithScript(B!AddInputsWithScript(t, Script("sig"), Chosen("sig")),
                                   Script("fee"), Chosen("fee"))

Unpriced == IF kind = "single" THEN <<OutputsSum, 0>> ELSE <<OutputsSum, 0, 0>>

PricedAt(f) ==
    IF kind = "single"
    THEN <<OutputsSum, Minus64(Minus64(funds["own"].sum, OutputsSum), f)>>
    ELSE <<OutputsSum, Minus64(funds["sig"].sum, OutputsSum), Minus64(funds["fee"].sum, f)>>

\* A new builder, and one whose amounts are set, are builders.
LEMMA NewBuilder == B!NewTxBuilder \in P!Builders
<1>1. 0 \in 0..(Word - 1)
  BY WordAssumption
<1> QED BY <1>1 DEF B!NewTxBuilder, P!Builders

\* Protocol parameters and time to live.
LEMMA ParamsBuilder ==
    ASSUME NEW ttl \in TTLs, b = B!NewTxBuilder,
           NEW t, t = B!SetTimeToLive(B!SetProtocolParameters(b, "params"), ttl)
    PROVE  /\ t \in P!Builders
           /\ t.inputs = <<>> /\ t.outputs = <<>> /\ t.minOutput = 0
<1>1. 0 \in 0..(Word - 1)
  BY WordAssumption
<1>2. t = [inputs |-> <<>>, outputs |-> <<>>, metadata |-> "nil", params |-> "params",
           ttl |-> ttl, minOutput |-> 0, fee |-> 0, magic |-> 0]
  BY DEF B!SetTimeToLive, B!SetProtocolParameters, B!NewTxBuilder
<1>3. \A S : <<>> \in Seq(S)
  OBVIOUS
<1>4. ttl \in TTLs \cup {0} /\ "params" \in {"params"} \cup {"nil"} /\ 0 \in {0, TestNetMagic}
  OBVIOUS
<1>5. [inputs |-> <<>>, outputs |-> <<>>, metadata |-> "nil", params |-> "params",
       ttl |-> ttl, minOutput |-> 0, fee |-> 0, magic |-> 0] \in P!Builders
  BY <1>1, <1>4 DEF P!Builders
<1> QED BY <1>2, <1>5

\* The receiver's output and those of the change.
LEMMA JoinedOutputs ==
    ASSUME NEW x \in Nat
    PROVE  /\ (<<>> \o <<x>>) \o <<0>> = <<x, 0>>
           /\ (<<>> \o <<x>>) \o <<0, 0>> = <<x, 0, 0>>
<1>1. <<>> \o <<x>> = <<x>>
  <2>1. \A s \in Seq(Nat) : <<>> \o s = s
    OBVIOUS
  <2> QED BY <2>1
<1>2. <<x>> \o <<0>> = <<x, 0>>
  <2>1. /\ <<x>> \o <<0>> \in Seq(Nat) /\ <<x, 0>> \in Seq(Nat)
        /\ Len(<<x>> \o <<0>>) = 2 /\ Len(<<x, 0>>) = 2
    OBVIOUS
  <2>2. \A i \in 1..2 : (<<x>> \o <<0>>)[i] = <<x, 0>>[i]
    OBVIOUS
  <2> QED BY <2>1, <2>2, SeqEqual
<1>3. <<x>> \o <<0, 0>> = <<x, 0, 0>>
  <2>1. /\ <<x>> \o <<0, 0>> \in Seq(Nat) /\ <<x, 0, 0>> \in Seq(Nat)
        /\ Len(<<x>> \o <<0, 0>>) = 3 /\ Len(<<x, 0, 0>>) = 3
    OBVIOUS
  <2>2. \A i \in 1..3 : (<<x>> \o <<0, 0>>)[i] = <<x, 0, 0>>[i]
    OBVIOUS
  <2> QED BY <2>1, <2>2, SeqEqual
<1> QED BY <1>1, <1>2, <1>3

\* Metadata, outputs and inputs.
LEMMA ConfiguredBuilder ==
    ASSUME WalletsOK, FundsOK, b \in P!Builders, b.inputs = <<>>, b.outputs = <<>>,
           b.minOutput = 0, \A a \in Payers : funds[a].count # 0
    PROVE  /\ Described0 \in P!Builders
           /\ Described0.inputs = ChosenWithScripts /\ Len(Described0.inputs) <= MaxInputs
           /\ Described0.metadata = kind /\ Described0.minOutput = 0
           /\ Described0.outputs = Unpriced
<1> DEFINE t == B!AddOutputs(B!AddOutputs(B!SetTestNetMagic(B!SetMetaData(b, kind), TestNetMagic),
                                          <<OutputsSum>>),
                             [x \in DOMAIN Sources |-> 0])
           Amts == 0..(Word - 1)
           With(ins) == [inputs |-> ins, outputs |-> Unpriced, metadata |-> kind,
                         params |-> b.params, ttl |-> b.ttl, minOutput |-> 0,
                         fee |-> b.fee, magic |-> TestNetMagic]
<1>1. kind \in {"single", "multi"} /\ Payers \subseteq Addresses
  BY DEF WalletsOK, Payers, Addresses
<1>2. \A a \in Payers : Funded(a)
  BY <1>1 DEF FundsOK
<1>3. Unpriced \in Seq(Amts)
  <2>1. OutputsSum \in Amts /\ 0 \in Amts
    BY SmallAmounts
  <2> HIDE DEF Amts
  <2>2. <<OutputsSum, 0>> \in Seq(Amts) /\ <<OutputsSum, 0, 0>> \in Seq(Amts)
    BY <2>1
  <2> QED BY <2>2 DEF Unpriced
<1>4. (<<>> \o <<OutputsSum>>) \o [x \in DOMAIN Sources |-> 0] = Unpriced
  <2>1. CASE kind = "single"
    <3>1. [x \in DOMAIN Sources |-> 0] = <<0>>
      BY <2>1 DEF Sources
    <3>2. (<<>> \o <<OutputsSum>>) \o <<0>> = <<OutputsSum, 0>>
      BY SmallAmounts, JoinedOutputs
    <3> QED BY <2>1, <3>1, <3>2 DEF Unpriced
  <2>2. CASE kind = "multi"
    <3>1. [x \in DOMAIN Sources |-> 0] = <<0, 0>>
      BY <2>2 DEF Sources
    <3>2. (<<>> \o <<OutputsSum>>) \o <<0, 0>> = <<OutputsSum, 0, 0>>
      BY SmallAmounts, JoinedOutputs
    <3> QED BY <2>2, <3>1, <3>2 DEF Unpriced
  <2> QED BY <1>1, <2>1, <2>2
<1>5. /\ b = [inputs |-> <<>>, outputs |-> <<>>, metadata |-> b.metadata,
              params |-> b.params, ttl |-> b.ttl, minOutput |-> 0, fee |-> b.fee,
              magic |-> b.magic]
      /\ b.params \in {"params"} \cup {"nil"} /\ b.ttl \in TTLs \cup {0} /\ b.fee \in Amts
  BY DEF P!Builders
<1>6. t = With(<<>>)
  <2>1. t = [b EXCEPT !.metadata = kind, !.magic = TestNetMagic,
                      !.outputs = (<<>> \o <<OutputsSum>>) \o [x \in DOMAIN Sources |-> 0]]
    BY <1>5 DEF B!AddOutputs, B!SetTestNetMagic, B!SetMetaData
  <2> HIDE DEF t
  <2> QED BY <1>4, <1>5, <2>1
<1>7. \A ins \in Seq(Ins) : With(ins) \in P!Builders
  <2>1. kind \in {"single", "multi"} \cup {"nil"} /\ 0 \in Amts
        /\ TestNetMagic \in {0, TestNetMagic}
    BY <1>1, SmallAmounts
  <2> QED BY <1>3, <1>5, <2>1 DEF P!Builders, Ins
<1>8. CASE kind = "single"
  <2>1. Funded("own") /\ "own" \in Addresses
    BY <1>2, <1>8 DEF Payers, Addresses
  <2>2. Of("own") \in Seq(Ins) /\ Len(Of("own")) <= MaxInputs
    <3>1. Of("own") \in Seq(Ins) /\ Len(Of("own")) = funds["own"].count
      BY <2>1, InputsOfOne
    <3>2. funds["own"].count \in Nat /\ 2 * funds["own"].count <= MaxInputs
      BY <2>1, FundsOfOne
    <3>3. funds["own"].count <= MaxInputs
      BY <3>2, FlowAssumption
    <3> QED BY <3>1, <3>3
  <2>3. Described0 = B!AddInputsWithScript(t, Script("own"), Chosen("own"))
    BY <1>8, Owners DEF Described0, B!AddInputs
  <2> HIDE DEF t
  <2>4. Described0 = [t EXCEPT !.inputs = @ \o Of("own")]
    BY <2>1, <2>3, InputsOfOne
  <2>5. <<>> \o Of("own") = Of("own")
    BY <2>2
  <2>6. Described0 = With(Of("own"))
    BY <1>6, <2>4, <2>5
  <2>7. ChosenWithScripts = Of("own")
    BY <1>8 DEF ChosenWithScripts, Of
  <2> QED BY <1>7, <2>2, <2>6, <2>7
<1>9. CASE kind = "multi"
  <2>1. Funded("sig") /\ Funded("fee") /\ "sig" \in Addresses /\ "fee" \in Addresses
    BY <1>2, <1>9 DEF Payers, Addresses
  <2>2. /\ Of("sig") \in Seq(Ins) /\ 2 * Len(Of("sig")) <= MaxInputs
        /\ Of("fee") \in Seq(Ins) /\ 2 * Len(Of("fee")) <= MaxInputs
    BY <2>1, InputsOfOne, FundsOfOne
  <2>3. /\ Of("sig") \o Of("fee") \in Seq(Ins)
        /\ Len(Of("sig") \o Of("fee")) <= MaxInputs
    <3> DEFINE x == Of("sig")
               y == Of("fee")
    <3> HIDE DEF x, y
    <3>1. x \in Seq(Ins) /\ y \in Seq(Ins) /\ 2 * Len(x) <= MaxInputs /\ 2 * Len(y) <= MaxInputs
      BY <2>2 DEF x, y
    <3> HIDE DEF Ins
    <3>2. x \o y \in Seq(Ins) /\ Len(x \o y) = Len(x) + Len(y)
          /\ Len(x) \in Nat /\ Len(y) \in Nat
      BY <3>1
    <3>3. Len(x \o y) <= MaxInputs
      BY <3>1, <3>2, FlowAssumption
    <3> QED BY <3>2, <3>3 DEF x, y
  <2>4. Described0 = B!AddInputsWithScript(B!AddInputsWithScript(t, Script("sig"), Chosen("sig")),
                                           Script("fee"), Chosen("fee"))
    BY <1>9 DEF Described0
  <2> HIDE DEF t
  <2>5. Described0 = [[t EXCEPT !.inputs = @ \o Of("sig")] EXCEPT !.inputs = @ \o Of("fee")]
    BY <2>1, <2>4, InputsOfOne
  <2>6. <<>> \o Of("sig") = Of("sig")
    BY <2>2
  <2>7. Described0 = With(Of("sig") \o Of("fee"))
    BY <1>6, <2>5, <2>6
  <2>8. ChosenWithScripts = Of("sig") \o Of("fee")
    BY <1>9 DEF ChosenWithScripts, Of
  <2> QED BY <1>7, <2>3, <2>7, <2>8
<1> QED BY <1>1, <1>8, <1>9

\* Amounts that pay the fee f are amounts.
LEMMA PricedAmounts ==
    ASSUME WalletsOK, FundsOK, \A a \in Payers : funds[a].count # 0, NEW f \in Fees
    PROVE  PricedAt(f) \in Seq(0..(Word - 1))
<1> DEFINE Amts == 0..(Word - 1)
<1>1. kind \in {"single", "multi"} /\ Payers \subseteq Addresses
  BY DEF WalletsOK, Payers, Addresses
<1>2. \A a \in Payers : funds[a].sum \in Amts
  <2> TAKE a \in Payers
  <2>1. Funded(a) /\ a \in Addresses
    BY <1>1 DEF FundsOK
  <2>2. funds[a].sum \in Nat /\ 2 * funds[a].sum < Word
    BY <2>1, FundsOfOne
  <2> QED BY <2>2, WordAssumption
<1>3. OutputsSum \in Amts /\ f \in Amts
  BY SmallAmounts
<1>4. \A x, y \in Amts : Minus64(x, y) \in Amts
  BY Differences
<1> HIDE DEF Amts
<1>5. CASE kind = "single"
  <2>1. funds["own"].sum \in Amts
    BY <1>2, <1>5 DEF Payers
  <2>2. Minus64(Minus64(funds["own"].sum, OutputsSum), f) \in Amts
    BY <1>3, <1>4, <2>1
  <2>3. \A y \in Amts : <<OutputsSum, y>> \in Seq(Amts)
    BY <1>3
  <2> QED BY <1>5, <2>2, <2>3 DEF PricedAt, Amts
<1>6. CASE kind = "multi"
  <2>1. funds["sig"].sum \in Amts /\ funds["fee"].sum \in Amts
    BY <1>2, <1>6 DEF Payers
  <2>2. Minus64(funds["sig"].sum, OutputsSum) \in Amts /\ Minus64(funds["fee"].sum, f) \in Amts
    BY <1>3, <1>4, <2>1
  <2>3. \A y, z \in Amts : <<OutputsSum, y, z>> \in Seq(Amts)
    BY <1>3
  <2> QED BY <1>6, <2>2, <2>3 DEF PricedAt, Amts
<1> QED BY <1>1, <1>5, <1>6

\* SetAmounts sets the fee and, from the last output backwards, the amounts.
LEMMA PricedBuilder ==
    ASSUME WalletsOK, FundsOK, \A a \in Payers : funds[a].count # 0,
           b \in P!Builders, b.outputs = Unpriced, SetAmounts
    PROVE  /\ B!Configure([b EXCEPT !.fee = fee', !.outputs = PricedAt(fee')])
           /\ [b EXCEPT !.fee = fee', !.outputs = PricedAt(fee')] \in P!Builders
<1> DEFINE f == fee'
           t == B!SetFee(b, f)
           u == [b EXCEPT !.fee = f, !.outputs = PricedAt(f)]
<1>1. kind \in {"single", "multi"} /\ f \in Fees
  BY DEF WalletsOK, SetAmounts
<1>2. t = [b EXCEPT !.fee = f] /\ t.outputs = Unpriced
  BY DEF P!Builders, B!SetFee
<1>3. B!Configure(IF kind = "single" THEN B!UpdateOutputAmount(t, -1, Change("own"))
        ELSE B!UpdateOutputAmount(B!UpdateOutputAmount(t, -2, Change("sig")), -1, Change("fee")))
  BY DEF SetAmounts
<1>4. /\ Change("own") = Minus64(Minus64(funds["own"].sum, OutputsSum), f)
      /\ Change("sig") = Minus64(funds["sig"].sum, OutputsSum)
      /\ Change("fee") = Minus64(funds["fee"].sum, f)
  BY DEF Change
<1>9. u \in P!Builders
  <2>1. f \in 0..(Word - 1) /\ PricedAt(f) \in Seq(0..(Word - 1))
    BY <1>1, SmallAmounts, PricedAmounts
  <2> HIDE DEF f
  <2> QED BY <2>1 DEF P!Builders
<1> DEFINE own == Change("own")
           sig == Change("sig")
           last == Change("fee")
<1>5. CASE kind = "single"
  <2>1. PricedAt(f) = <<OutputsSum, own>> /\ Unpriced = <<OutputsSum, 0>>
    BY <1>4, <1>5 DEF PricedAt, Unpriced
  <2> HIDE DEF own, t
  <2>2. B!Position(t, -1) = 2
    BY <1>2, <2>1 DEF B!Position
  <2>3. [<<OutputsSum, 0>> EXCEPT ![2] = own] = <<OutputsSum, own>>
    OBVIOUS
  <2>4. B!UpdateOutputAmount(t, -1, own) = [t EXCEPT !.outputs = <<OutputsSum, own>>]
    BY <1>2, <2>1, <2>2, <2>3 DEF B!UpdateOutputAmount
  <2>5. B!UpdateOutputAmount(t, -1, own) = u
    BY <1>2, <2>1, <2>4
  <2> QED BY <1>3, <1>5, <1>9, <2>5 DEF own
<1>6. CASE kind = "multi"
  <2>1. PricedAt(f) = <<OutputsSum, sig, last>> /\ Unpriced = <<OutputsSum, 0, 0>>
    BY <1>4, <1>6 DEF PricedAt, Unpriced
  <2> HIDE DEF sig, last, t
  <2>2. B!Position(t, -2) = 2
    BY <1>2, <2>1 DEF B!Position
  <2>3. [<<OutputsSum, 0, 0>> EXCEPT ![2] = sig] = <<OutputsSum, sig, 0>>
    OBVIOUS
  <2>4. B!UpdateOutputAmount(t, -2, sig) = [t EXCEPT !.outputs = <<OutputsSum, sig, 0>>]
    BY <1>2, <2>1, <2>2, <2>3 DEF B!UpdateOutputAmount
  <2> DEFINE v == [t EXCEPT !.outputs = <<OutputsSum, sig, 0>>]
  <2>5. /\ v.outputs = <<OutputsSum, sig, 0>>
        /\ v = [b EXCEPT !.fee = f, !.outputs = <<OutputsSum, sig, 0>>]
    BY <1>2 DEF P!Builders
  <2> HIDE DEF v
  <2>6. B!Position(v, -1) = 3
    BY <2>5 DEF B!Position
  <2>7. [<<OutputsSum, sig, 0>> EXCEPT ![3] = last] = <<OutputsSum, sig, last>>
    OBVIOUS
  <2>8. B!UpdateOutputAmount(v, -1, last) = [v EXCEPT !.outputs = <<OutputsSum, sig, last>>]
    BY <2>5, <2>6, <2>7 DEF B!UpdateOutputAmount
  <2>9. B!UpdateOutputAmount(v, -1, last) = u
    BY <2>1, <2>5, <2>8
  <2> QED BY <1>3, <1>6, <1>9, <2>4, <2>9 DEF sig, last, v
<1> QED BY <1>1, <1>5, <1>6

(* ----------------------- the builder's own invariant --------------------- *)

\* What the wallets sign is a sequence of witnesses over a body.
LEMMA AttachedWitnesses ==
    ASSUME P!Inv, WalletsOK, txHash = B!TxId(Body)
    PROVE  /\ Attached \in Seq(AllWitnesses)
           /\ Body \in Bodies
<1>1. b \in P!Builders
  BY DEF P!Inv, P!FieldsOK
<1>2. Body = [ins |-> b.inputs, outs |-> b.outputs, fee |-> b.fee, ttl |-> b.ttl,
              meta |-> b.metadata]
  BY DEF Body, B!Described
<1>3. Body \in Bodies
  BY <1>1, <1>2 DEF P!Builders, Bodies, Ins
<1>4. Keys \in Seq(Signers)
  BY Owners
<1> DEFINE n == Len(Keys)
<1>5. n \in Nat /\ DOMAIN Keys = 1..n /\ \A k \in 1..n : Keys[k] \in Signers
  BY <1>4
<1> HIDE DEF n
<1>6. Attached = [k \in 1..n |-> CreateTxWitness(txHash, Keys[k])]
  BY <1>5 DEF Attached
<1>7. \A k \in 1..n : CreateTxWitness(txHash, Keys[k]) \in AllWitnesses
  BY <1>3, <1>5 DEF AllWitnesses
<1>8. Attached \in Seq(AllWitnesses)
  <2>1. DOMAIN Attached = 1..n /\ \A k \in 1..n : Attached[k] \in AllWitnesses
    BY <1>6, <1>7
  <2>2. Attached = [k \in 1..n |-> Attached[k]]
    BY <1>6
  <2> DEFINE f == Attached
  <2> HIDE DEF f
  <2>3. [k \in 1..n |-> f[k]] \in Seq(AllWitnesses)
    BY <1>5, <2>1 DEF f
  <2> QED BY <2>2, <2>3 DEF f
<1> QED BY <1>3, <1>8

\* A step that leaves the builder alone keeps its invariant.
LEMMA BuilderStays == ASSUME P!Inv, UNCHANGED builder PROVE P!Inv'
BY DEF builder, P!Inv, P!FieldsOK, P!FilesOK, P!CallOK, P!FilesCurrent, P!Results,
   P!BuiltIsCurrent, P!FeeIsCurrent, P!AssembledIsGiven

\* So does leaving the flow.
LEMMA LeaveInv == ASSUME P!Inv, NEW s, Leave(s) PROVE P!Inv'
<1>1. P!Dispose
  BY SameSteps DEF Leave
<1> QED BY <1>1, BuilderAssumptions, P!DisposeInv

\* The flow keeps what is proved of its builder.
LEMMA BuilderNext == ASSUME P!Inv, FlowInv, [Next]_vars PROVE P!Inv'
<1> USE DEF FlowInv
<1>0. b \in P!Builders /\ Len(b.inputs) <= MaxInputs
  BY DEF P!Inv, P!FieldsOK
<1>1. CASE Setup
  <2>1. /\ dir' = P!EmptyDir /\ pc = "idle"
        /\ UNCHANGED <<b, pc, call, ret, calls>>
    BY <1>1, SameParts DEF Setup, CallFits, Running
  <2>2. P!FilesOK'
    BY <2>1, BuilderAssumptions DEF P!FilesOK, P!EmptyDir, P!PartsAssumption, P!BuilderAssumption
  <2>3. P!FilesCurrent'
    BY <2>1 DEF P!FilesCurrent
  <2>4. P!FieldsOK' /\ P!CallOK' /\ P!Results'
    BY <2>1 DEF P!Inv, P!FieldsOK, P!CallOK, P!Results, P!BuiltIsCurrent, P!FeeIsCurrent,
                P!AssembledIsGiven
  <2> QED BY <2>2, <2>3, <2>4 DEF P!Inv
<1>2. CASE SetupFails \/ BuildDone
  BY <1>2, BuilderStays DEF SetupFails, BuildDone
<1>3. CASE SetParams
  <2>1. b = B!NewTxBuilder
    BY <1>3 DEF SetParams, FieldsFit
  <2> PICK ttl \in TTLs :
        B!Configure(B!SetTimeToLive(B!SetProtocolParameters(b, "params"), ttl))
    BY <1>3 DEF SetParams
  <2> DEFINE t == B!SetTimeToLive(B!SetProtocolParameters(b, "params"), ttl)
  <2>2. t \in P!Builders /\ t.inputs = <<>>
    BY <2>1, ParamsBuilder
  <2>3. P!Configure(t)
    BY SameSteps
  <2> HIDE DEF t
  <2>4. Len(t.inputs) <= MaxInputs
    BY <2>2, FlowAssumption
  <2> QED BY <2>2, <2>3, <2>4, BuilderAssumptions, P!ConfigureInv
<1>4. CASE Select \/ CallFails \/ OperationFailed
  <2>1. (\E s : Leave(s)) \/ UNCHANGED builder
    BY <1>4 DEF Select, CallFails, OperationFailed
  <2> QED BY <2>1, LeaveInv, BuilderStays
<1>5. CASE Finish
  BY <1>5, LeaveInv DEF Finish
<1>6. CASE Configure
  <2>1. /\ b.inputs = <<>> /\ b.outputs = <<>> /\ b.minOutput = 0
        /\ \A a \in Payers : funds[a].count # 0
    BY <1>6 DEF Configure, FieldsFit, FundsOK
  <2>2. Described0 \in P!Builders /\ Len(Described0.inputs) <= MaxInputs
    BY <1>0, <2>1, ConfiguredBuilder
  <2>3. P!Configure(Described0)
    BY <1>6, SameSteps DEF Configure, Described0
  <2> QED BY <2>2, <2>3, BuilderAssumptions, P!ConfigureInv
<1>7. CASE SetAmounts
  <2>1. b.outputs = Unpriced /\ \A a \in Payers : funds[a].count # 0
    BY <1>7 DEF SetAmounts, FieldsFit, FundsOK, Unpriced, Filled
  <2> DEFINE u == [b EXCEPT !.fee = fee', !.outputs = PricedAt(fee')]
  <2>2. P!Configure(u) /\ u \in P!Builders
    BY <1>0, <1>7, <2>1, PricedBuilder, SameSteps
  <2>3. u.inputs = b.inputs
    BY <1>0 DEF P!Builders
  <2> HIDE DEF u
  <2> QED BY <1>0, <2>2, <2>3, BuilderAssumptions, P!ConfigureInv
<1>8. CASE CalculateFee
  <2>1. \E w : P!CalculateFee(w)
    BY <1>8, SameSteps DEF CalculateFee
  <2> PICK w : P!CalculateFee(w)
    BY <2>1
  <2>2. P!Operation([op |-> "fee", witnessCount |-> w], b.params # "nil")
    BY DEF P!CalculateFee
  <2> QED BY <2>2, BuilderAssumptions, P!OperationInv
<1>9. CASE Build
  <2>1. P!Operation([op |-> "build"], b.params # "nil" /\ P!CheckOutputs(b))
    BY <1>9, SameSteps DEF Build, P!Build
  <2> QED BY <2>1, BuilderAssumptions, P!OperationInv
<1>10. CASE Sign
  <2>1. CASE B!AssembleTxWitnesses(ret.value.txRaw, Attached)
    <3>1. txHash = B!TxId(Body)
      BY <1>10 DEF Sign, CallFits, Built
    <3>2. Attached \in Seq(AllWitnesses)
      BY <3>1, AttachedWitnesses
    <3>3. P!Operation([op |-> "assemble", txRaw |-> ret.value.txRaw,
                       witnesses |-> Attached], TRUE)
      BY <2>1, SameSteps DEF P!AssembleTxWitnesses
    <3> DEFINE c == [op |-> "assemble", txRaw |-> ret.value.txRaw, witnesses |-> Attached]
    <3>4. c.op = "assemble" /\ c.witnesses \in Seq(AllWitnesses)
      BY <3>2
    <3> HIDE DEF c
    <3> QED BY <3>3, <3>4, BuilderAssumptions, P!OperationInv DEF c
  <2>2. CASE \E s : Leave(s)
    BY <2>2, LeaveInv
  <2> QED BY <1>10, <2>1, <2>2 DEF Sign
<1>11. CASE RunBuilder
  <2>1. P!OperationStep
    BY <1>11, SameSteps DEF RunBuilder
  <2> QED BY <2>1, BuilderAssumptions, P!OperationStepInv
<1>12. CASE UNCHANGED vars
  BY <1>12, BuilderStays DEF vars
<1> QED BY <1>1, <1>2, <1>3, <1>4, <1>5, <1>6, <1>7, <1>8, <1>9, <1>10, <1>11, <1>12 DEF Next

(* ----------------------- what the flow has come to ----------------------- *)

\* Every flow begins with a new builder.
LEMMA InitInv == Init => P!Inv /\ FlowInv
<1> SUFFICES ASSUME Init PROVE P!Inv /\ FlowInv
  OBVIOUS
<1>1. /\ b = B!NewTxBuilder /\ dir = [P!EmptyDir EXCEPT !.exists = FALSE]
      /\ pc = "idle" /\ call = P!NoCall /\ ret = P!Err /\ calls = 0
  BY SameParts DEF Init
<1>2. P!FieldsOK
  <2>1. b \in P!Builders
    BY <1>1, NewBuilder
  <2>2. Len(b.inputs) = 0
    BY <1>1 DEF B!NewTxBuilder
  <2> QED BY <2>1, <2>2, FlowAssumption DEF P!FieldsOK
<1>3. P!FilesOK
  BY <1>1, BuilderAssumptions DEF P!FilesOK, P!EmptyDir, P!PartsAssumption, P!BuilderAssumption
<1>4. P!CallOK
  BY <1>1 DEF P!CallOK, P!NoCall, P!Err
<1>5. P!FilesCurrent /\ P!Results
  BY <1>1 DEF P!FilesCurrent, P!Results, P!BuiltIsCurrent, P!FeeIsCurrent, P!AssembledIsGiven,
              P!Err
<1>6. WalletsOK
  BY DEF Init, WalletsOK
<1>7. FundsOK
  <2>1. funds = [a \in Addresses |-> [count |-> 0, sum |-> 0]] /\ stage = "setup"
    BY DEF Init, NoFunds
  <2> QED BY <2>1 DEF FundsOK, Filled
<1>8. FieldsFit
  BY DEF Init, FieldsFit, Filled, Priced
<1>9. CallFits
  BY <1>1 DEF Init, CallFits, Running, Built
<1> QED BY <1>2, <1>3, <1>4, <1>5, <1>6, <1>7, <1>8, <1>9 DEF P!Inv, FlowInv

\* Wallets and kind of a flow never change.
LEMMA WalletsStay == ASSUME WalletsOK, [Next]_vars PROVE WalletsOK' /\ UNCHANGED <<wallets, kind>>
<1>1. UNCHANGED <<wallets, kind>>
  BY DEF Next, vars, flow, Setup, SetupFails, SetParams, Select, CallFails, Configure, CalculateFee,
     SetAmounts, Build, BuildDone, Sign, Finish, RunBuilder, OperationFailed
<1> QED BY <1>1 DEF WalletsOK

\* Funds stay what they are until others are selected.
LEMMA FundsStay ==
    ASSUME FundsOK, UNCHANGED <<kind, funds>>,
           stage' \in Filled \cup {"configure"} => stage \in Filled \cup {"configure"}
    PROVE  FundsOK'
<1>1. Payers' = Payers
  BY DEF Payers
<1>2. \A a \in Addresses : Funded(a)' = Funded(a)
  BY DEF Funded
<1> QED BY <1>1, <1>2 DEF FundsOK

\* A step that changes none of the builder's fields moves between stages that
\* know the same of them, or forgets.
LEMMA FieldsStay ==
    ASSUME FieldsFit, UNCHANGED <<b, kind, wallets, funds, fee, feeKeys>>,
           stage' \in {"setup", "params"} => stage \in {"setup", "params"},
           stage' \in {"select", "configure"} => stage \in {"select", "configure"},
           stage' \in Filled => stage \in Filled,
           stage' \in {"fee", "fee-run"} => stage \in {"fee", "fee-run"},
           stage' \in Priced => stage \in Priced
    PROVE  FieldsFit'
<1>1. ChosenWithScripts' = ChosenWithScripts
  BY DEF ChosenWithScripts, Script
<1>2. Intended' = Intended /\ Named' = Named
  BY DEF Intended, Named
<1>3. B!WitnessCount(b, Named)' = B!WitnessCount(b, Named)
  BY <1>2
<1> QED BY <1>1, <1>2, <1>3 DEF FieldsFit

\* What is signed depends on the builder's fields and the wallets only.
LEMMA SignedStays ==
    ASSUME UNCHANGED <<b, kind, wallets>>
    PROVE  /\ Body' = Body /\ Keys' = Keys
           /\ UNCHANGED txHash => Attached' = Attached
           /\ B!CheckOutputs(b)' = B!CheckOutputs(b)
           /\ B!TxId(Body)' = B!TxId(Body)
           /\ Named' = Named
<1>1. Body' = Body
  BY DEF Body
<1>2. Keys' = Keys
  BY DEF Keys
<1>3. ASSUME UNCHANGED txHash PROVE Attached' = Attached
  BY <1>2, <1>3 DEF Attached
<1>4. B!CheckOutputs(b)' = B!CheckOutputs(b)
  OBVIOUS
<1>5. B!TxId(Body)' = B!TxId(Body)
  BY <1>1
<1>6. Named' = Named
  BY DEF Named
<1> QED BY <1>1, <1>2, <1>3, <1>4, <1>5, <1>6

\* A flow that leaves has disposed of the builder's directory.
LEMMA Left ==
    ASSUME CallFits, NEW s, Leave(s)
    PROVE  /\ pc' = "idle" /\ ~dir'.exists /\ stage' = s /\ UNCHANGED b
BY DEF Leave, B!Dispose, B!Start, B!EmptyDir

\* A step of a running operation.
LEMMA OperationSteps ==
    ASSUME B!OperationStep
    PROVE  pc # "idle" /\ UNCHANGED <<b, call>> /\ (pc' # "idle" => ret' = ret)
BY DEF B!OperationStep, B!WriteParams, B!WriteMetadata, B!WritePolicies, B!RunBuildRaw,
   B!RunCalculateMinFee, B!ReadDraft, B!RunTxId, B!WriteWitnesses, B!WriteRaw, B!RunAssemble,
   B!ReadSigned, B!StepFails, B!Goto, B!Return

\* Steps that only move the flow or start an operation.
LEMMA QuietStep ==
    ASSUME FlowInv, Setup \/ SetupFails \/ CallFails \/ CalculateFee \/ Build \/ OperationFailed
    PROVE  FundsOK' /\ FieldsFit' /\ CallFits'
<1>1. /\ UNCHANGED <<b, wallets, kind, funds, fee, feeKeys, txHash, signed>>
      /\ \/ stage' = "failed"
         \/ stage = "setup" /\ stage' = "params"
         \/ stage = "fee" /\ stage' = "fee-run"
         \/ stage = "build" /\ stage' = "build-run"
  <2>1. CASE Setup \/ SetupFails
    BY <2>1 DEF Setup, SetupFails, builder
  <2>2. CASE CallFails \/ OperationFailed
    BY <2>2 DEF CallFails, OperationFailed, Leave, B!Dispose
  <2>3. CASE CalculateFee \/ Build
    BY <2>3 DEF CalculateFee, Build, B!CalculateFee, B!Build, B!Operation
  <2> QED BY <2>1, <2>2, <2>3
<1>2. FundsOK' /\ FieldsFit'
  BY <1>1, FundsStay, FieldsStay DEF FlowInv, Filled, Priced
<1>3. CASE Setup
  BY <1>2, <1>3 DEF Setup, FlowInv, CallFits, Running, Built
<1>4. CASE SetupFails
  BY <1>2, <1>4 DEF SetupFails, builder, FlowInv, CallFits, Running, Built
<1>5. CASE CallFails \/ OperationFailed
  <2>1. pc' = "idle" /\ ~dir'.exists /\ stage' = "failed"
    BY <1>5, Left DEF FlowInv, CallFails, OperationFailed
  <2> QED BY <1>2, <2>1 DEF CallFits, Running, Built
<1>6. CASE CalculateFee
  <2>1. /\ stage' = "fee-run" /\ call' = [op |-> "fee", witnessCount |-> Named]
        /\ Named' = Named
    BY <1>1, <1>6, SignedStays
       DEF CalculateFee, B!CalculateFee, B!Operation, B!Start, Named
  <2> QED BY <1>2, <2>1 DEF CallFits, Running, Built
<1>7. CASE Build
  <2>1. /\ stage' = "build-run" /\ call'.op = "build" /\ ~ret'.ok
        /\ pc' # "idle" => B!CheckOutputs(b)
    BY <1>7 DEF Build, B!Build, B!Operation, B!Start, B!Err
  <2>2. B!CheckOutputs(b)' = B!CheckOutputs(b)
    BY <1>1, SignedStays
  <2> QED BY <1>2, <2>1, <2>2 DEF CallFits, Running, Built
<1> QED BY <1>2, <1>3, <1>4, <1>5, <1>6, <1>7

\* The parameters of a new builder are set.
LEMMA ParamsStep ==
    ASSUME FlowInv, SetParams PROVE FundsOK' /\ FieldsFit' /\ CallFits'
<1>1. /\ UNCHANGED <<wallets, kind, funds, fee, feeKeys, txHash, signed>>
      /\ stage = "params" /\ stage' = "select"
  BY DEF SetParams
<1>2. FundsOK'
  BY <1>1, FundsStay DEF FlowInv, Filled
<1>3. PICK ttl \in TTLs :
        B!Configure(B!SetTimeToLive(B!SetProtocolParameters(b, "params"), ttl))
  BY DEF SetParams
<1>4. b'.inputs = <<>> /\ b'.outputs = <<>> /\ b'.minOutput = 0
  <2>1. b = B!NewTxBuilder
    BY <1>1 DEF FlowInv, FieldsFit
  <2> QED BY <1>3, <2>1, ParamsBuilder DEF B!Configure
<1>5. FieldsFit'
  BY <1>1, <1>4 DEF FieldsFit, Filled, Priced
<1>6. pc' = "idle"
  BY <1>3 DEF B!Configure, B!Start
<1>7. CallFits'
  BY <1>1, <1>6 DEF CallFits, Running, Built
<1> QED BY <1>2, <1>5, <1>7

\* Another address has enough, or the flow leaves.
LEMMA SelectStep ==
    ASSUME FlowInv, Select PROVE FundsOK' /\ FieldsFit' /\ CallFits'
<1>1. PICK x \in DOMAIN Sources, us \in UtxoLists :
        LET a == Sources[x]
            n == Selected(us, Ask(a))
        IN  /\ funds[a].count = 0
            /\ \A y \in 1..(x - 1) : funds[Sources[y]].count # 0
            /\ IF n = 0
               THEN Leave("failed") /\ UNCHANGED funds
               ELSE /\ funds' = [funds EXCEPT ![a] = [count |-> n, sum |-> PrefixSum(us, n)]]
                    /\ stage' = IF x = Len(Sources) THEN "configure" ELSE "select"
                    /\ UNCHANGED builder
  BY DEF Select
<1> PICK a : a = Sources[x]
  OBVIOUS
<1> DEFINE n == Selected(us, Ask(a))
<1>2. /\ stage = "select" /\ UNCHANGED <<wallets, kind, fee, feeKeys, txHash, signed>>
  BY DEF Select
<1>3. CASE n = 0
  <2>1. pc' = "idle" /\ ~dir'.exists /\ stage' = "failed" /\ UNCHANGED <<b, funds>>
    BY <1>1, <1>3, Left DEF FlowInv
  <2>2. FundsOK'
    BY <1>2, <2>1, FundsStay DEF FlowInv, Filled
  <2> QED BY <2>1, <2>2 DEF FieldsFit, CallFits, Filled, Priced, Running, Built
<1>4. CASE n # 0
  <2>1. /\ funds' = [funds EXCEPT ![a] = [count |-> n, sum |-> PrefixSum(us, n)]]
        /\ stage' = IF x = Len(Sources) THEN "configure" ELSE "select"
        /\ UNCHANGED <<b, dir, pc, call, ret, calls>>
    BY <1>1, <1>4 DEF builder
  <2>2. /\ kind \in {"single", "multi"} /\ a \in Addresses /\ Payers \subseteq Addresses
        /\ funds \in [Addresses -> [count : Nat, sum : Nat]]
    BY DEF FlowInv, WalletsOK, FundsOK, Sources, Addresses, Payers
  <2>3. /\ us \in Seq(Nat) /\ n \in 1..Len(us) /\ Meets(PrefixSum(us, n), Ask(a))
        /\ PrefixSum(us, n) \in Nat
    <3>1. us \in Seq(Nat)
      BY FlowAssumption
    <3>2. n \in 0..Len(us) /\ Meets(PrefixSum(us, n), Ask(a))
      BY <1>4, <3>1, SelectedIsShortest
    <3>3. PrefixSum(us, n) \in Nat
      BY <3>1, <3>2, PrefixSums
    <3> HIDE DEF n
    <3>4. n \in 1..Len(us)
      BY <1>4, <3>1, <3>2
    <3> QED BY <3>1, <3>2, <3>3, <3>4
  <2> HIDE DEF n
  <2>4. n \in Nat \ {0}
    BY <2>3
  <2>5. /\ funds' \in [Addresses -> [count : Nat, sum : Nat]]
        /\ funds'[a].count = n /\ funds'[a].sum = PrefixSum(us, n)
        /\ \A c \in Addresses : c # a => funds'[c] = funds[c]
    BY <2>1, <2>2, <2>3, <2>4
  <2>6. Funded(a)'
    BY <2>3, <2>5 DEF Funded
  <2>7. \A c \in Addresses : funds'[c].count = 0 \/ Funded(c)'
    <3> TAKE c \in Addresses
    <3>1. CASE c = a
      BY <2>6, <3>1
    <3>2. CASE c # a
      <4>1. funds[c].count = 0 \/ Funded(c)
        BY DEF FlowInv, FundsOK
      <4>2. funds'[c] = funds[c]
        BY <2>5, <3>2
      <4> QED BY <4>1, <4>2 DEF Funded
    <3> QED BY <3>1, <3>2
  <2>8. stage' = "configure" => \A c \in Payers : funds'[c].count # 0
    <3> SUFFICES ASSUME stage' = "configure", NEW c \in Payers PROVE funds'[c].count # 0
      OBVIOUS
    <3>1. x = Len(Sources)
      BY <2>1
    <3>2. CASE kind = "single"
      <4>1. Sources = <<"own">> /\ Payers = {"own"}
        BY <3>2 DEF Sources, Payers
      <4>2. a = "own" /\ c = "own"
        BY <3>1, <4>1
      <4> QED BY <2>4, <2>5, <4>2
    <3>3. CASE kind = "multi"
      <4>1. Sources = <<"sig", "fee">> /\ Payers = {"sig", "fee"}
        BY <3>3 DEF Sources, Payers
      <4>2. x = 2 /\ a = "fee" /\ Sources[1] = "sig" /\ 1 \in 1..(x - 1)
        BY <3>1, <4>1
      <4>3. funds["sig"].count # 0
        BY <1>1, <4>2
      <4>4. funds'["sig"].count # 0 /\ funds'["fee"].count # 0
        BY <2>4, <2>5, <4>2, <4>3 DEF Addresses
      <4> QED BY <4>1, <4>4
    <3> QED BY <2>2, <3>2, <3>3
  <2>9. stage' \in {"select", "configure"}
    BY <2>1
  <2>10. FundsOK'
    <3>1. Payers' = Payers
      BY <1>2 DEF Payers
    <3>2. stage' \in Filled \cup {"configure"} => stage' = "configure"
      BY <2>9 DEF Filled
    <3> QED BY <2>5, <2>7, <2>8, <3>1, <3>2 DEF FundsOK
  <2>11. FieldsFit'
    BY <1>2, <2>1, <2>9 DEF FlowInv, FieldsFit, Filled, Priced
  <2>12. CallFits'
    BY <1>2, <2>1, <2>9 DEF FlowInv, CallFits, Running, Built
  <2> QED BY <2>10, <2>11, <2>12
<1> QED BY <1>3, <1>4

\* The number of witnesses depends on the inputs only.
KeysOf(ins) ==
    [i \in DOMAIN ins |-> IF ins[i].script = NoScript THEN 0
                          ELSE [s \in AllScripts |-> GetCount(s)][ins[i].script]]

CountFor(ins, n) ==
    LET keys == FoldLeft(+, 0, KeysOf(ins))
    IN  IF n # 0 THEN n ELSE IF keys = 0 THEN 1 ELSE keys

\* That is what the builder counts.
LEMMA CountOfInputs == \A t, n : B!WitnessCount(t, n) = CountFor(t.inputs, n)
BY DEF B!WitnessCount, CountFor, KeysOf, B!FoldLeft, FoldLeft, B!MapThenFoldSet, MapThenFoldSet,
   B!Max, Max

\* Metadata, inputs and outputs are set.
LEMMA ConfigureStep ==
    ASSUME P!Inv, FlowInv, Configure PROVE FundsOK' /\ FieldsFit' /\ CallFits'
<1>1. /\ UNCHANGED <<wallets, kind, funds, fee, feeKeys, txHash, signed>>
      /\ stage = "configure" /\ stage' = "fee" /\ B!Configure(Described0)
  BY DEF Configure, Described0
<1>2. /\ b.inputs = <<>> /\ b.outputs = <<>> /\ b.minOutput = 0 /\ b \in P!Builders
      /\ \A a \in Payers : funds[a].count # 0
  BY <1>1 DEF FlowInv, FieldsFit, FundsOK, P!Inv, P!FieldsOK
<1>3. /\ b' = Described0 /\ pc' = "idle"
      /\ b'.inputs = ChosenWithScripts /\ b'.metadata = kind /\ b'.minOutput = 0
      /\ b'.outputs = Unpriced
  BY <1>1, <1>2, ConfiguredBuilder DEF B!Configure, B!Start, FlowInv
<1>4. FundsOK'
  BY <1>1, FundsStay DEF FlowInv, Filled
<1>5. ChosenWithScripts' = ChosenWithScripts
  BY <1>1 DEF ChosenWithScripts, Script
<1>6. FieldsFit'
  BY <1>1, <1>3, <1>5 DEF FieldsFit, Filled, Priced, Unpriced
<1>7. CallFits'
  BY <1>1, <1>3 DEF CallFits, Running, Built
<1> QED BY <1>4, <1>6, <1>7

\* The fee and the amounts are set.
LEMMA AmountsStep ==
    ASSUME P!Inv, FlowInv, SetAmounts PROVE FundsOK' /\ FieldsFit' /\ CallFits'
<1>1. /\ UNCHANGED <<wallets, kind, funds, txHash, signed>>
      /\ stage = "fee-run" /\ stage' = "build" /\ pc = "idle" /\ ret.ok
      /\ fee' \in Fees /\ feeKeys' = ret.value.witnesses
  BY DEF SetAmounts
<1>2. /\ b.inputs = ChosenWithScripts /\ b.metadata = kind /\ b.minOutput = 0
      /\ b.outputs = Unpriced /\ b \in P!Builders
      /\ \A a \in Payers : funds[a].count # 0
      /\ call = [op |-> "fee", witnessCount |-> Named]
  BY <1>1 DEF FlowInv, FieldsFit, FundsOK, CallFits, P!Inv, P!FieldsOK, Unpriced, Filled
<1>3. B!Configure([b EXCEPT !.fee = fee', !.outputs = PricedAt(fee')])
  BY <1>2, PricedBuilder DEF FlowInv
<1>4. /\ pc' = "idle" /\ b'.inputs = b.inputs /\ b'.metadata = b.metadata /\ b'.minOutput = 0
      /\ b'.fee = fee' /\ b'.outputs = PricedAt(fee')
  BY <1>2, <1>3 DEF B!Configure, B!Start, P!Builders
<1>5. FundsOK'
  BY <1>1, FundsStay DEF FlowInv, Filled
<1>6. ChosenWithScripts' = ChosenWithScripts
  BY <1>1 DEF ChosenWithScripts, Script
<1>7. Intended' = PricedAt(fee')
  BY <1>1 DEF Intended, PricedAt
<1>8. feeKeys' = B!WitnessCount(b, Named)
  <2>1. P!FeeIsCurrent
    BY DEF P!Inv, P!Results
  <2>2. call.op = "fee" /\ call.witnessCount = Named
    BY <1>2
  <2>3. ret.value.witnesses = P!WitnessCount(b, call.witnessCount)
    BY <1>1, <2>1, <2>2 DEF P!FeeIsCurrent, P!MinFee
  <2> QED BY <1>1, <2>2, <2>3, SameParts
<1>9. B!WitnessCount(b, Named)' = B!WitnessCount(b, Named)
  <2>1. Named' = Named
    BY <1>1 DEF Named
  <2>2. /\ B!WitnessCount(b, Named) = CountFor(b.inputs, Named)
        /\ B!WitnessCount(b', Named') = CountFor(b'.inputs, Named')
    BY CountOfInputs
  <2> QED BY <1>4, <2>1, <2>2
<1>10. FieldsFit'
  BY <1>1, <1>2, <1>4, <1>6, <1>7, <1>8, <1>9 DEF FieldsFit, Filled, Priced
<1>11. CallFits'
  BY <1>1, <1>4 DEF CallFits, Running, Built
<1> QED BY <1>5, <1>10, <1>11

\* A step of the running operation.
LEMMA RunStep ==
    ASSUME FlowInv, RunBuilder PROVE FundsOK' /\ FieldsFit' /\ CallFits'
<1>1. /\ UNCHANGED <<b, call, wallets, kind, stage, funds, fee, feeKeys, txHash, signed>>
      /\ stage \in Running /\ pc # "idle"
  BY OperationSteps DEF RunBuilder, flow
<1>2. FundsOK' /\ FieldsFit'
  BY <1>1, FundsStay, FieldsStay DEF FlowInv
<1>3. /\ Body' = Body /\ Keys' = Keys /\ Attached' = Attached
      /\ B!CheckOutputs(b)' = B!CheckOutputs(b) /\ B!TxId(Body)' = B!TxId(Body)
      /\ Named' = Named
  BY <1>1, SignedStays
<1>4. CallFits'
  <2>1. CallFits
    BY DEF FlowInv
  <2>2. CASE stage = "fee-run"
    BY <1>1, <1>3, <2>1, <2>2 DEF CallFits, Running, Built
  <2>3. CASE stage = "build-run"
    BY <1>1, <1>3, <2>1, <2>3 DEF CallFits, Running, Built
  <2>4. CASE stage = "sign-run"
    <3>1. /\ txHash' = B!TxId(Body)' /\ B!CheckOutputs(b)'
          /\ call' = [op |-> "assemble", txRaw |-> Body', witnesses |-> Attached']
      BY <1>1, <1>3, <2>1, <2>4 DEF CallFits, Built
    <3>2. kind' = "single" \/ \A k \in DOMAIN Keys' : VerifyWitness(txHash', Attached'[k])
      BY <1>1, <1>3, <2>1, <2>4 DEF CallFits
    <3> QED BY <1>1, <2>4, <3>1, <3>2 DEF CallFits, Running, Built
  <2> QED BY <1>1, <2>2, <2>3, <2>4 DEF Running
<1> QED BY <1>2, <1>4

\* The body is built: its hash is what Build returned with it.
LEMMA BuildDoneStep ==
    ASSUME P!Inv, FlowInv, BuildDone PROVE FundsOK' /\ FieldsFit' /\ CallFits'
<1>1. /\ UNCHANGED <<b, dir, pc, call, ret, wallets, kind, funds, fee, feeKeys, signed>>
      /\ stage = "build-run" /\ stage' = "sign" /\ pc = "idle" /\ ret.ok
      /\ txHash' = ret.value.txHash
  BY DEF BuildDone, builder
<1>2. FundsOK' /\ FieldsFit'
  BY <1>1, FundsStay, FieldsStay DEF FlowInv, Filled, Priced
<1>3. call.op = "build" /\ B!CheckOutputs(b)
  BY <1>1 DEF FlowInv, CallFits
<1>4. ret.value.txHash = B!TxId(Body)
  <2>1. P!BuiltIsCurrent
    BY DEF P!Inv, P!Results
  <2>2. ret.value.txHash = P!TxId(P!Described(b, b.fee))
    BY <1>1, <1>3, <2>1 DEF P!BuiltIsCurrent
  <2> QED BY <2>2, SameParts DEF Body
<1>5. /\ B!CheckOutputs(b)' = B!CheckOutputs(b) /\ B!TxId(Body)' = B!TxId(Body)
  BY <1>1, SignedStays
<1>6. CallFits'
  BY <1>1, <1>3, <1>4, <1>5 DEF CallFits, Running, Built
<1> QED BY <1>2, <1>6

\* Every wallet has signed, and a multisig flow has verified each witness.
LEMMA SignStep ==
    ASSUME P!Inv, FlowInv, Sign PROVE FundsOK' /\ FieldsFit' /\ CallFits'
<1>1. /\ UNCHANGED <<b, wallets, kind, funds, fee, feeKeys, txHash, signed>>
      /\ stage = "sign" /\ stage' \in {"sign-run", "failed"}
  BY DEF Sign, Leave, B!Dispose, B!AssembleTxWitnesses, B!Operation
<1>2. FundsOK' /\ FieldsFit'
  BY <1>1, FundsStay, FieldsStay DEF FlowInv, Filled, Priced
<1>3. CASE Leave("failed")
  <2>1. pc' = "idle" /\ ~dir'.exists /\ stage' = "failed"
    BY <1>3, Left DEF FlowInv
  <2> QED BY <1>2, <2>1 DEF CallFits, Running, Built
<1>4. CASE /\ kind = "single" \/ \A k \in DOMAIN Keys : VerifyWitness(txHash, Attached[k])
           /\ B!AssembleTxWitnesses(ret.value.txRaw, Attached) /\ stage' = "sign-run"
  <2>1. /\ call.op = "build" /\ ret.ok /\ txHash = B!TxId(Body) /\ B!CheckOutputs(b)
    BY <1>1 DEF FlowInv, CallFits, Built
  <2>2. ret.value.txRaw = Body
    <3>1. P!BuiltIsCurrent
      BY DEF P!Inv, P!Results
    <3>2. ret.value.txRaw = P!Described(b, b.fee)
      BY <2>1, <3>1 DEF P!BuiltIsCurrent
    <3> QED BY <3>2, SameParts DEF Body
  <2>3. call' = [op |-> "assemble", txRaw |-> Body, witnesses |-> Attached]
    BY <1>4, <2>2 DEF B!AssembleTxWitnesses, B!Operation, B!Start
  <2>4. /\ Body' = Body /\ Keys' = Keys /\ Attached' = Attached
        /\ B!CheckOutputs(b)' = B!CheckOutputs(b) /\ B!TxId(Body)' = B!TxId(Body)
    BY <1>1, SignedStays
  <2>5. kind' = "single" \/ \A k \in DOMAIN Keys' : VerifyWitness(txHash', Attached'[k])
    BY <1>1, <1>4, <2>4
  <2>6. /\ txHash' = B!TxId(Body)' /\ B!CheckOutputs(b)'
        /\ call' = [op |-> "assemble", txRaw |-> Body', witnesses |-> Attached']
    BY <1>1, <2>1, <2>3, <2>4
  <2>7. CallFits'
    BY <1>4, <2>5, <2>6 DEF CallFits, Running, Built
  <2> QED BY <1>2, <2>7
<1> QED BY <1>3, <1>4 DEF Sign

\* The signed transaction is what AssembleTxWitnesses returned.
LEMMA FinishStep ==
    ASSUME P!Inv, FlowInv, Finish PROVE FundsOK' /\ FieldsFit' /\ CallFits'
<1>1. /\ UNCHANGED <<b, wallets, kind, funds, fee, feeKeys, txHash>>
      /\ stage = "sign-run" /\ stage' = "done" /\ ret.ok /\ signed' = ret.value
      /\ Leave("done")
  BY DEF Finish, Leave, B!Dispose
<1>2. FundsOK' /\ FieldsFit'
  BY <1>1, FundsStay, FieldsStay DEF FlowInv, Filled, Priced
<1>3. pc' = "idle" /\ ~dir'.exists
  BY <1>1, Left DEF FlowInv
<1>4. /\ call = [op |-> "assemble", txRaw |-> Body, witnesses |-> Attached]
      /\ txHash = B!TxId(Body) /\ B!CheckOutputs(b)
  BY <1>1 DEF FlowInv, CallFits, Built
<1>5. signed' = B!Signed(Body, Attached)
  <2>1. P!AssembledIsGiven
    BY DEF P!Inv, P!Results
  <2>2. call.op = "assemble" /\ call.txRaw = Body /\ call.witnesses = Attached
    BY <1>4
  <2>3. ret.value = P!Signed(Body, Attached)
    BY <1>1, <2>1, <2>2 DEF P!AssembledIsGiven
  <2> QED BY <1>1, <2>3, SameParts
<1>6. /\ Body' = Body /\ Keys' = Keys /\ Attached' = Attached
      /\ B!CheckOutputs(b)' = B!CheckOutputs(b) /\ B!TxId(Body)' = B!TxId(Body)
  BY <1>1, SignedStays
<1>7. kind' = "single" \/ \A k \in DOMAIN Keys' : VerifyWitness(txHash', Attached'[k])
  BY <1>1, <1>6 DEF FlowInv, CallFits
<1>8. txHash' = B!TxId(Body)' /\ B!CheckOutputs(b)' /\ signed' = B!Signed(Body, Attached)'
  BY <1>1, <1>4, <1>5, <1>6
<1>9. CallFits'
  BY <1>1, <1>3, <1>7, <1>8 DEF CallFits, Running, Built
<1> QED BY <1>2, <1>9

\* Every step keeps both invariants.
LEMMA FlowNext == ASSUME P!Inv, FlowInv, [Next]_vars PROVE P!Inv' /\ FlowInv'
<1>1. P!Inv' /\ WalletsOK'
  BY BuilderNext, WalletsStay DEF FlowInv
<1>2. CASE UNCHANGED vars
  <2>1. UNCHANGED <<b, dir, pc, call, ret, calls, wallets, kind, stage, funds, fee, feeKeys,
                    txHash, signed>>
    BY <1>2 DEF vars, flow, builder
  <2>2. FundsOK' /\ FieldsFit'
    BY <2>1, FundsStay, FieldsStay DEF FlowInv
  <2>3. /\ Body' = Body /\ Keys' = Keys /\ Attached' = Attached
        /\ B!CheckOutputs(b)' = B!CheckOutputs(b) /\ B!TxId(Body)' = B!TxId(Body)
        /\ Named' = Named
    BY <2>1, SignedStays
  <2>4. CallFits'
    <3>1. B!Signed(Body, Attached)' = B!Signed(Body, Attached)
      BY <2>3
    <3>2. kind = "single" \/ (\A k \in DOMAIN Keys : VerifyWitness(txHash, Attached[k]))
            => kind' = "single" \/ \A k \in DOMAIN Keys' : VerifyWitness(txHash', Attached'[k])
      BY <2>1, <2>3
    <3> QED BY <2>1, <2>3, <3>1, <3>2 DEF FlowInv, CallFits, Running, Built
  <2> QED BY <1>1, <2>2, <2>4 DEF FlowInv
<1>3. CASE Next
  <2>1. FundsOK' /\ FieldsFit' /\ CallFits'
    BY <1>3, QuietStep, ParamsStep, SelectStep, ConfigureStep, AmountsStep, RunStep,
       BuildDoneStep, SignStep, FinishStep DEF Next
  <2> QED BY <1>1, <2>1 DEF FlowInv
<1> QED BY <1>2, <1>3

\* They hold throughout.
LEMMA Invariance == Spec => [](P!Inv /\ FlowInv)
<1>1. Init => P!Inv /\ FlowInv
  BY InitInv
<1>2. P!Inv /\ FlowInv /\ [Next]_vars => (P!Inv /\ FlowInv)'
  BY FlowNext
<1> QED BY <1>1, <1>2, PTL DEF Spec

(* ------------------------------- theorems -------------------------------- *)

\* Whatever the provider, cardano-cli and the wallets return and whichever call
\* fails, a flow that is over has removed its builder's directory (main.go:82,
\* 204).
THEOREM NoFilesLeft == Spec => []LeavesNoFiles
<1>1. FlowInv => LeavesNoFiles
  BY DEF FlowInv, CallFits, LeavesNoFiles
<1> QED BY <1>1, Invariance, PTL

\* For every list of UTxOs, fee and wallets, the signed transaction spends what
\* was chosen at the fee that was calculated, and every wallet has signed this
\* body (main.go:86-127, 224-280).
THEOREM IntendedSigned == Spec => []SignedIsIntended
<1>1. FlowInv => SignedIsIntended
  <2> SUFFICES ASSUME FlowInv, stage = "done"
               PROVE  /\ signed.body.ins = ChosenWithScripts
                      /\ signed.body.fee = fee
                      /\ signed.body.meta = kind
                      /\ signed.witnesses =
                            [k \in DOMAIN Keys |-> CreateTxWitness(B!TxId(signed.body), Keys[k])]
    BY DEF SignedIsIntended
  <2>1. signed.body = Body /\ signed.witnesses = Attached /\ txHash = B!TxId(Body)
    BY DEF FlowInv, CallFits, Built, B!Signed
  <2>2. b.inputs = ChosenWithScripts /\ b.fee = fee /\ b.metadata = kind
    BY DEF FlowInv, FieldsFit, Filled, Priced
  <2>3. Body.ins = b.inputs /\ Body.fee = b.fee /\ Body.meta = b.metadata
    BY DEF Body, B!Described
  <2> QED BY <2>1, <2>2, <2>3 DEF Attached
<1> QED BY <1>1, Invariance, PTL

\* What the change is made of, once it is known: amounts of at least the
\* minimum, since Build has checked them.
LEMMA CheckedAmounts ==
    ASSUME P!Inv, FlowInv, stage \in Built
    PROVE  /\ b.outputs = PricedAt(fee) /\ fee \in Fees /\ b.fee = fee
           /\ \A x \in DOMAIN b.outputs : b.outputs[x] >= MinUTxO
           /\ \A a \in Payers : Funded(a)
<1>1. stage \in Priced /\ stage \in Filled
  BY DEF Built, Priced, Filled
<1>2. b.outputs = PricedAt(fee) /\ fee \in Fees /\ b.fee = fee /\ b.minOutput = 0
  BY <1>1 DEF FlowInv, FieldsFit, Intended, PricedAt
<1>3. B!CheckOutputs(b)
  BY DEF FlowInv, CallFits
<1>4. \A x \in DOMAIN b.outputs : b.outputs[x] >= MinUTxO
  BY <1>2, <1>3 DEF B!CheckOutputs
<1>5. \A a \in Payers : Funded(a)
  <2>1. Payers \subseteq Addresses
    BY DEF Payers, Addresses
  <2>2. \A a \in Payers : funds[a].count # 0
    BY <1>1 DEF FlowInv, FundsOK
  <2> QED BY <2>1, <2>2 DEF FlowInv, FundsOK
<1> QED BY <1>2, <1>4, <1>5

\* For every list of UTxOs and every minimum, a multisig transaction that was
\* built leaves change: what hits exactSum never gets there (main.go:214-216,
\* 244, transaction.go:247-267).
THEOREM NeverExact == Spec => []ExactMatchNeverBuilds
<1>1. P!Inv /\ FlowInv => ExactMatchNeverBuilds
  <2> SUFFICES ASSUME P!Inv, FlowInv, kind = "multi", stage \in Built
               PROVE  funds["sig"].sum > OutputsSum
    BY DEF ExactMatchNeverBuilds, Built
  <2> DEFINE s == funds["sig"].sum
             y == Minus64(s, OutputsSum)
  <2>1. /\ b.outputs = <<OutputsSum, y, Minus64(funds["fee"].sum, fee)>>
        /\ \A x \in DOMAIN b.outputs : b.outputs[x] >= MinUTxO
        /\ Funded("sig")
    BY CheckedAmounts DEF PricedAt, Payers
  <2>2. y >= MinUTxO
    <3> HIDE DEF y
    <3>1. 2 \in DOMAIN b.outputs /\ b.outputs[2] = y
      BY <2>1
    <3> QED BY <2>1, <3>1
  <2>3. s = MinUTxO \/ s >= 2 * MinUTxO
    BY <2>1, EnoughOf DEF Addresses
  <2>4. s \in Nat
    BY <2>1, FundsOfOne DEF Addresses
  <2>5. s # MinUTxO
    <3>1. s = MinUTxO => y = 0
      BY SmallAmounts DEF Minus64
    <3> HIDE DEF s, y
    <3> QED BY <2>2, <3>1, SmallAmounts
  <2> HIDE DEF s
  <2>6. s > MinUTxO
    BY <2>3, <2>4, <2>5, SmallAmounts
  <2> QED BY <2>6, SmallAmounts DEF s
<1> QED BY <1>1, Invariance, PTL

\* For every list of UTxOs, minimum and fee, each address that pays gets back
\* what its UTxOs are worth but the payment and the fee it owes, although the flow
\* computes in uint64 (main.go:110, 244-245).
THEOREM ValueKept == Spec => []ValueConserved
<1>1. P!Inv /\ FlowInv => ValueConserved
  <2> SUFFICES ASSUME P!Inv, FlowInv, stage = "done"
               PROVE  /\ Len(signed.body.outs) = 1 + Len(Sources)
                      /\ signed.body.outs[1] = MinUTxO
                      /\ \A x \in DOMAIN Sources :
                            signed.body.outs[x + 1] + Spends(Sources[x])
                                = funds[Sources[x]].sum
                      /\ \A x \in DOMAIN signed.body.outs : signed.body.outs[x] >= MinUTxO
    BY DEF ValueConserved
  <2>1. signed.body.outs = b.outputs /\ signed.body.fee = b.fee
    BY DEF FlowInv, CallFits, B!Signed, Body, B!Described
  <2>2. stage \in Built /\ kind \in {"single", "multi"}
    BY DEF Built, FlowInv, WalletsOK
  <2>3. /\ b.outputs = PricedAt(fee) /\ fee \in Fees /\ b.fee = fee
        /\ \A x \in DOMAIN b.outputs : b.outputs[x] >= MinUTxO
        /\ \A a \in Payers : Funded(a)
    BY <2>2, CheckedAmounts
  <2>4. fee \in Nat /\ fee <= PotentialFee + MinUTxO
    BY <2>3, FlowAssumption
  <2>5. CASE kind = "single"
    <3> DEFINE s == funds["own"].sum
    <3>1. s \in Nat /\ s >= 2 * MinUTxO + PotentialFee
      BY <2>3, <2>5, EnoughOf, FundsOfOne DEF Payers, Addresses
    <3>2. b.outputs = <<OutputsSum, Minus64(Minus64(s, OutputsSum), fee)>>
      BY <2>3, <2>5 DEF PricedAt
    <3>3. Sources = <<"own">> /\ Spends("own") = MinUTxO + fee
      BY <2>1, <2>3, <2>5 DEF Sources, Spends
    <3> HIDE DEF s
    <3>4. Minus64(Minus64(s, OutputsSum), fee) = (s - MinUTxO) - fee
          /\ (s - MinUTxO) - fee \in Nat
      BY <2>4, <3>1, SmallAmounts DEF Minus64
    <3> DEFINE d == (s - MinUTxO) - fee
    <3>5. b.outputs = <<MinUTxO, d>> /\ d \in Nat
      BY <3>2, <3>4, SmallAmounts
    <3>6. d + (MinUTxO + fee) = s
      BY <2>4, <3>1, SmallAmounts
    <3> HIDE DEF d
    <3>7. b.outputs[2] + Spends("own") = funds["own"].sum
      BY <3>3, <3>5, <3>6 DEF s
    <3> QED BY <2>1, <2>3, <3>3, <3>5, <3>7
  <2>6. CASE kind = "multi"
    <3> DEFINE s == funds["sig"].sum
               r == funds["fee"].sum
    <3>1. /\ s \in Nat /\ (s = MinUTxO \/ s >= 2 * MinUTxO)
          /\ r \in Nat /\ r >= PotentialFee + MinUTxO
      BY <2>3, <2>6, EnoughOf, FundsOfOne DEF Payers, Addresses
    <3>2. b.outputs = <<OutputsSum, Minus64(s, OutputsSum), Minus64(r, fee)>>
      BY <2>3, <2>6 DEF PricedAt
    <3>3. Sources = <<"sig", "fee">> /\ Spends("sig") = MinUTxO /\ Spends("fee") = fee
      BY <2>1, <2>3, <2>6 DEF Sources, Spends
    <3> HIDE DEF s, r
    <3>4. /\ Minus64(s, OutputsSum) = s - MinUTxO /\ s - MinUTxO \in Nat
          /\ Minus64(r, fee) = r - fee /\ r - fee \in Nat
      BY <2>4, <3>1, SmallAmounts DEF Minus64
    <3> DEFINE d == s - MinUTxO
               e == r - fee
    <3>5. b.outputs = <<MinUTxO, d, e>> /\ d \in Nat /\ e \in Nat
      BY <3>2, <3>4, SmallAmounts
    <3>6. d + MinUTxO = s /\ e + fee = r
      BY <2>4, <3>1, SmallAmounts
    <3> HIDE DEF d, e
    <3>7. /\ b.outputs[2] + Spends("sig") = funds["sig"].sum
          /\ b.outputs[3] + Spends("fee") = funds["fee"].sum
      BY <3>3, <3>5, <3>6 DEF s, r
    <3> QED BY <2>1, <2>3, <3>3, <3>5, <3>7
  <2> QED BY <2>2, <2>5, <2>6
<1> QED BY <1>1, Invariance, PTL

\* The fee is calculated for at least as many witnesses as are attached, for
\* every number of signers: the keys of the scripts of the inputs are those of
\* all wallets, and each script is the one of some input (main.go:103, 237,
\* transaction.go:183-193).
THEOREM WitnessesPaid == Spec => []WitnessesPaidFor
<1>1. P!Inv /\ FlowInv => WitnessesPaidFor
  <2> SUFFICES ASSUME P!Inv, FlowInv, stage = "done"
               PROVE  feeKeys >= Len(signed.witnesses)
    BY DEF WitnessesPaidFor
  <2>1. /\ signed.witnesses = Attached /\ kind \in {"single", "multi"}
        /\ b.inputs = ChosenWithScripts /\ feeKeys = CountFor(b.inputs, Named)
    BY CountOfInputs DEF FlowInv, WalletsOK, FieldsFit, CallFits, B!Signed, Filled, Priced
  <2>2. \A a \in Payers : Funded(a)
    BY CheckedAmounts DEF Built
  <2>3. Len(Attached) = Len(Keys) /\ Len(Keys) \in Nat
    <3>1. Keys \in Seq(Signers)
      BY Owners DEF FlowInv
    <3>2. Attached = [k \in 1..Len(Keys) |-> CreateTxWitness(txHash, Keys[k])]
      BY <3>1 DEF Attached
    <3>3. Len(Keys) \in Nat
      BY <3>1
    <3> QED BY <3>2, <3>3
  <2>4. CASE kind = "single"
    <3>1. feeKeys = 1
      <4>1. \A ins, n : n # 0 => CountFor(ins, n) = n
        BY Zenon DEF CountFor
      <4> QED BY <2>1, <2>4, <4>1 DEF Named
    <3>2. Len(Keys) = 1
      BY <2>4, Owners DEF Keys, FlowInv
    <3> QED BY <2>1, <2>3, <3>1, <3>2
  <2>5. CASE kind = "multi"
    <3> DEFINE x == Of("sig")
               y == Of("fee")
               m == Len(wallets["sig"])
               n == Len(wallets["fee"])
    <3>1. b.inputs = x \o y
      BY <2>1, <2>5 DEF ChosenWithScripts, Of
    <3>2. /\ x \in Seq(Ins) /\ Len(x) \in Nat \ {0}
          /\ y \in Seq(Ins) /\ Len(y) \in Nat \ {0}
      BY <2>2, <2>5, InputsOfOne, FundsOfOne DEF Payers, Addresses, FlowInv
    <3>3. /\ \A i \in 1..Len(x) : x[i].script = Script("sig")
          /\ \A i \in 1..Len(y) : y[i].script = Script("fee")
      <4>1. /\ x = [i \in 1..funds["sig"].count |->
                        [in |-> <<"sig", i>>, script |-> Script("sig")]]
            /\ y = [i \in 1..funds["fee"].count |->
                        [in |-> <<"fee", i>>, script |-> Script("fee")]]
        BY DEF Of
      <4>2. Len(x) = funds["sig"].count /\ Len(y) = funds["fee"].count
        BY <2>2, <2>5, InputsOfOne DEF Payers, Addresses, FlowInv
      <4> QED BY <4>1, <4>2
    <3>4. /\ Script("sig") \in AllScripts /\ Script("sig") # NoScript
          /\ Script("fee") \in AllScripts /\ Script("fee") # NoScript
          /\ GetCount(Script("sig")) = m /\ GetCount(Script("fee")) = n
          /\ m \in Nat /\ n \in Nat /\ m # 0
      BY Owners DEF FlowInv, Addresses
    <3>5. Len(Keys) = m + n
      <4>1. wallets["sig"] \in Seq(Signers) /\ wallets["fee"] \in Seq(Signers)
        BY Owners DEF FlowInv, Addresses
      <4>2. \A s, t : s \in Seq(Signers) /\ t \in Seq(Signers) => Len(s \o t) = Len(s) + Len(t)
        OBVIOUS
      <4> QED BY <2>5, <4>1, <4>2 DEF Keys
    <3> HIDE DEF x, y, m, n
    <3> DEFINE ins == x \o y
               l == KeysOf(ins)
               c == Len(x) + Len(y)
    <3>6. /\ c \in Nat /\ 1 \in 1..c /\ c \in (1 + 1)..c
          /\ DOMAIN ins = 1..c /\ ins[1] = x[1] /\ ins[c] = y[Len(y)]
          /\ \A i \in 1..c : ins[i].script \in {Script("sig"), Script("fee")}
      <4> HIDE DEF Ins
      <4>1. /\ c \in Nat /\ 1 \in 1..c /\ c \in (1 + 1)..c
            /\ 1 \in 1..Len(x) /\ Len(y) \in 1..Len(y)
        BY <3>2
      <4>2. /\ Len(ins) = c /\ ins \in Seq(Ins)
            /\ \A i \in 1..c : ins[i] = IF i <= Len(x) THEN x[i] ELSE y[i - Len(x)]
        BY <3>2, ConcatProperties
      <4>3. DOMAIN ins = 1..c
        BY <4>2, LenProperties
      <4>4. ins[1] = x[1]
        BY <3>2, <4>1, <4>2
      <4>5. ins[c] = y[Len(y)]
        <5>1. c \in 1..c /\ ~(c <= Len(x)) /\ c - Len(x) = Len(y)
          BY <3>2, <4>1
        <5> HIDE DEF c
        <5> QED BY <4>2, <5>1
      <4>6. \A i \in 1..c : ins[i].script \in {Script("sig"), Script("fee")}
        <5> TAKE i \in 1..c
        <5>1. CASE i <= Len(x)
          <6>1. i \in 1..Len(x) /\ ins[i] = x[i]
            BY <3>2, <4>2, <5>1
          <6> HIDE DEF ins
          <6> QED BY <3>3, <6>1
        <5>2. CASE ~(i <= Len(x))
          <6>1. i - Len(x) \in 1..Len(y) /\ ins[i] = y[i - Len(x)]
            BY <3>2, <4>2, <5>2
          <6> HIDE DEF ins
          <6> QED BY <3>3, <6>1
        <5> QED BY <5>1, <5>2
      <4> QED BY <4>1, <4>3, <4>4, <4>5, <4>6
    <3> HIDE DEF ins, c
    <3>7. DOMAIN l = 1..c /\ \A i \in 1..c : l[i] = GetCount(ins[i].script)
      BY <3>4, <3>6 DEF KeysOf
    <3>8. \A i \in 1..c : l[i] \in Nat
      BY <3>4, <3>6, <3>7
    <3>9. l[1] = m /\ l[c] = n
      <4>1. ins[1].script = Script("sig")
        <5>1. 1 \in 1..Len(x)
          BY <3>2
        <5> QED BY <3>3, <3>6, <5>1
      <4>2. ins[c].script = Script("fee")
        <5>1. Len(y) \in 1..Len(y)
          BY <3>2
        <5> QED BY <3>3, <3>6, <5>1
      <4>3. c \in 1..c
        BY <3>6
      <4> QED BY <3>4, <3>6, <3>7, <4>1, <4>2, <4>3
    <3>10. l \in Seq(Nat) /\ Len(l) = c
      <4>1. l = [i \in 1..c |-> l[i]]
        BY <3>6 DEF KeysOf
      <4> HIDE DEF l
      <4>2. [i \in 1..c |-> l[i]] \in Seq(Nat)
        BY <3>6, <3>8
      <4>3. l \in Seq(Nat)
        BY <4>1, <4>2
      <4>4. Len(l) = c
        BY <3>6, <3>7, <4>3
      <4> QED BY <4>3, <4>4
    <3> HIDE DEF l
    <3>11. Total(l) \in Nat /\ Total(l) >= m + n
      BY <3>6, <3>9, <3>10, TotalOfTwo
    <3>12. FoldLeft(+, 0, l) = Total(l)
      BY <3>10, TotalIsFold
    <3>13. feeKeys = IF Total(l) = 0 THEN 1 ELSE Total(l)
      <4>1. Named = 0
        BY <2>5 DEF Named
      <4>2. CountFor(b.inputs, 0) = IF FoldLeft(+, 0, l) = 0 THEN 1 ELSE FoldLeft(+, 0, l)
        BY <3>1 DEF CountFor, l, ins
      <4> QED BY <2>1, <3>12, <4>1, <4>2
    <3>14. feeKeys >= m + n
      BY <3>4, <3>11, <3>13
    <3> QED BY <2>1, <2>3, <3>5, <3>14
  <2> QED BY <2>1, <2>4, <2>5
<1> QED BY <1>1, Invariance, PTL

(* --------------------------- scripts are sorted -------------------------- *)

\* What is left of the positions in ascending order of their values, at the end
\* of 1..n.
SortedTail(n, s, k, D, p) ==
    /\ p \in [((n - k) + 1)..n -> D]
    /\ \A i, j \in ((n - k) + 1)..n : p[i] = p[j] => i = j
    /\ \A x \in D : \E i \in ((n - k) + 1)..n : p[i] = x
    /\ \A i, j \in ((n - k) + 1)..n : i < j => s[p[i]] <= s[p[j]]

\* Every set of positions of a sequence of numbers can be put in order: the one
\* with the least value first.
LEMMA TailsSorted ==
    ASSUME NEW n \in Nat, NEW s \in [1..n -> Nat], NEW k \in Nat
    PROVE  \A D \in SUBSET (1..n) : Cardinality(D) = k => \E p : SortedTail(n, s, k, D, p)
<1> DEFINE S == {c \in Nat : \A D \in SUBSET (1..n) :
                    Cardinality(D) = c => \E p : SortedTail(n, s, c, D, p)}
<1>1. \A D \in SUBSET (1..n) : IsFiniteSet(D)
  <2>1. IsFiniteSet(1..n)
    BY FS_Interval
  <2> QED BY <2>1, FS_Subset
<1>2. 0 \in S
  <2> SUFFICES ASSUME NEW D \in SUBSET (1..n), Cardinality(D) = 0
               PROVE  \E p : SortedTail(n, s, 0, D, p)
    OBVIOUS
  <2>1. D = {}
    BY <1>1, FS_EmptySet
  <2>2. ((n - 0) + 1)..n = {}
    OBVIOUS
  <2>3. SortedTail(n, s, 0, D, [i \in {} |-> 0])
    BY <2>1, <2>2 DEF SortedTail
  <2> QED BY <2>3
<1>3. \A c \in Nat : c \in S => c + 1 \in S
  <2> SUFFICES ASSUME NEW c \in Nat, c \in S PROVE c + 1 \in S
    OBVIOUS
  <2> SUFFICES ASSUME NEW D \in SUBSET (1..n), Cardinality(D) = c + 1
               PROVE  \E p : SortedTail(n, s, c + 1, D, p)
    OBVIOUS
  <2>1. D # {} /\ IsFiniteSet(D)
    <3>1. IsFiniteSet(D)
      BY <1>1
    <3>2. Cardinality({}) = 0 /\ c + 1 # 0
      BY FS_EmptySet
    <3>3. D # {}
      <4>1. Cardinality(D) # 0
        BY <3>2
      <4> QED BY <3>2, <4>1
    <3> QED BY <3>1, <3>3
  <2> DEFINE V == {s[i] : i \in D}
  <2>2. PICK m \in V : \A v \in V : m <= v
    <3>1. V \subseteq Nat /\ V # {}
      BY <2>1
    <3> HIDE DEF V
    <3> QED BY <3>1, SmallestNumber
  <2>3. PICK x \in D : s[x] = m
    OBVIOUS
  <2>4. \A i \in D : s[x] <= s[i]
    BY <2>2, <2>3
  <2> DEFINE E == D \ {x}
  <2>5. Cardinality(E) = c
    <3>1. Cardinality(E) = Cardinality(D) - 1
      BY <2>1, FS_RemoveElement
    <3> QED BY <3>1
  <2>6. PICK p : SortedTail(n, s, c, E, p)
    BY <2>5
  <2> DEFINE first == n - c
             T == (first + 1)..n
             U == ((n - (c + 1)) + 1)..n
             q == [i \in U |-> IF i = first THEN x ELSE p[i]]
  <2>7. /\ first \in Int /\ ((n - c) + 1) = first + 1
        /\ c + 1 <= n
        /\ U = first..n /\ first \in U /\ T \subseteq U
        /\ \A i \in U : i = first \/ i \in T
        /\ first \notin T
    <3>1. Cardinality(D) <= Cardinality(1..n) /\ Cardinality(1..n) = n
      <4>1. IsFiniteSet(1..n) /\ Cardinality(1..n) = IF 1 > n THEN 0 ELSE (n - 1) + 1
        BY FS_Interval
      <4>2. Cardinality(1..n) = n
        BY <4>1
      <4> QED BY <4>1, <4>2, FS_Subset
    <3>2. c + 1 <= n
      BY <3>1
    <3> QED BY <3>2
  <2>8. /\ p \in [T -> E]
        /\ \A i, j \in T : p[i] = p[j] => i = j
        /\ \A y \in E : \E i \in T : p[i] = y
        /\ \A i, j \in T : i < j => s[p[i]] <= s[p[j]]
    BY <2>6 DEF SortedTail
  <2> HIDE DEF T, U, first
  <2>9. \A i \in U : (i = first /\ q[i] = x) \/ (i # first /\ i \in T /\ q[i] = p[i] /\ p[i] \in E)
    BY <2>7, <2>8
  <2>10. q \in [U -> D]
    BY <2>9
  <2> HIDE DEF q
  <2>11. \A i, j \in U : q[i] = q[j] => i = j
    BY <2>8, <2>9
  <2>12. \A y \in D : \E i \in U : q[i] = y
    <3> TAKE y \in D
    <3>1. CASE y = x
      BY <2>7, <2>9, <3>1
    <3>2. CASE y # x
      <4> PICK i \in T : p[i] = y
        BY <2>8, <3>2
      <4>1. i \in U /\ i # first
        BY <2>7
      <4> QED BY <2>9, <4>1
    <3> QED BY <3>1, <3>2
  <2>13. \A i, j \in U : i < j => s[q[i]] <= s[q[j]]
    <3> SUFFICES ASSUME NEW i \in U, NEW j \in U, i < j PROVE s[q[i]] <= s[q[j]]
      OBVIOUS
    <3>1. CASE i = first
      <4>1. q[i] = x /\ q[j] \in D
        BY <2>9, <2>10, <3>1
      <4> QED BY <2>4, <4>1
    <3>2. CASE i # first
      <4>1. j # first
        <5>1. i \in T /\ first \in Int
          BY <2>7, <2>9, <3>2
        <5> QED BY <5>1 DEF T
      <4>2. i \in T /\ j \in T /\ q[i] = p[i] /\ q[j] = p[j]
        BY <2>9, <3>2, <4>1
      <4> QED BY <2>8, <4>2
    <3> QED BY <3>1, <3>2
  <2>14. SortedTail(n, s, c + 1, D, q)
    BY <2>10, <2>11, <2>12, <2>13 DEF SortedTail, U
  <2> QED BY <2>14
<1> HIDE DEF S
<1>4. Nat \subseteq S
  BY <1>2, <1>3, NumbersInduction
<1>5. k \in S
  BY <1>4
<1> QED BY <1>5 DEF S

\* Sorting moves values and loses none.
LEMMA SortedValues ==
    ASSUME NEW n \in Nat, NEW s \in [1..n -> Nat]
    PROVE  \A i \in 1..n : \E j \in 1..n : Sorted(s)[i] = s[j]
<1> DEFINE Good(p) == \A i, j \in 1..n : i < j => s[p[i]] <= s[p[j]]
           order == CHOOSE p \in Bijection(1..n, 1..n) : Good(p)
<1>1. \E p \in Bijection(1..n, 1..n) : Good(p)
  <2>1. Cardinality(1..n) = n
    <3>1. Cardinality(1..n) = IF 1 > n THEN 0 ELSE (n - 1) + 1
      BY FS_Interval
    <3> QED BY <3>1
  <2>2. PICK p : SortedTail(n, s, n, 1..n, p)
    BY <2>1, TailsSorted
  <2>3. ((n - n) + 1)..n = 1..n
    OBVIOUS
  <2>4. /\ p \in [1..n -> 1..n]
        /\ \A i, j \in 1..n : p[i] = p[j] => i = j
        /\ \A x \in 1..n : \E i \in 1..n : p[i] = x
        /\ Good(p)
    BY <2>2, <2>3 DEF SortedTail
  <2>5. p \in Bijection(1..n, 1..n)
    BY <2>4 DEF Bijection, Injection, Surjection, IsInjective
  <2> QED BY <2>4, <2>5
<1>2. order \in Bijection(1..n, 1..n)
  <2> HIDE DEF Good
  <2> QED BY <1>1
<1>3. order \in [1..n -> 1..n]
  <2> HIDE DEF order
  <2> QED BY <1>2 DEF Bijection, Injection
<1>4. DOMAIN s = 1..n
  OBVIOUS
<1>5. Sorted(s) = [i \in 1..n |-> s[order[i]]]
  BY <1>4 DEF Sorted
<1> HIDE DEF order
<1> QED BY <1>3, <1>5

(* ---------------------------- keys and hashes ---------------------------- *)

\* The hash of a key of any length is a number.
LEMMA HashIsNumber ==
    ASSUME NEW key \in Seq(Nat)
    PROVE  GetKeyHash(key) \in Nat
<1> DEFINE n == Len(key)
<1>1. n \in Nat /\ key \in [1..n -> Nat] /\ DOMAIN key = 1..n
  OBVIOUS
<1> HIDE DEF n
<1> DEFINE step == [p \in Nat \X (1..n) |-> p[1] * 512 + key[p[2]]]
<1>2. \A x, y \in Nat : x * 512 + y \in Nat
  OBVIOUS
<1>3. /\ step \in [Nat \X (1..n) -> Nat]
      /\ \A x \in Nat, i \in 1..n : step[<<x, i>>] = x * 512 + key[i]
  <2>1. ASSUME NEW p \in Nat \X (1..n) PROVE p[1] * 512 + key[p[2]] \in Nat
    <3>1. p[1] \in Nat /\ key[p[2]] \in Nat
      BY <1>1
    <3> QED BY <1>2, <3>1
  <2> QED BY <2>1
<1> HIDE DEF step
<1>4. PICK g : Folded(n, Nat, 0, step, g)
  BY <1>1, <1>3, FoldExists
<1>5. \A s \in SUBSET (1..n) :
        g[s] = IF s = {} THEN 0 ELSE g[s \ {Max(s)}] * 512 + key[Max(s)]
  <2> TAKE s \in SUBSET (1..n)
  <2>1. g[s] = IF s = {} THEN 0 ELSE step[<<g[s \ {Max(s)}], Max(s)>>]
    BY <1>4 DEF Folded
  <2>2. s # {} => Max(s) \in 1..n
    BY <1>1, LastIsIn
  <2>3. g[s \ {Max(s)}] \in Nat
    BY <1>4 DEF Folded
  <2> QED BY <1>3, <2>1, <2>2, <2>3
<1>6. g = [s \in SUBSET (1..n) |-> g[s]]
  BY <1>4 DEF Folded
<1> DEFINE Longer(h) == [s \in SUBSET (1..n) |->
                        IF s = {} THEN 0 ELSE h[s \ {Max(s)}] * 512 + key[Max(s)]]
<1>7. g = Longer(g)
  <2> DEFINE v(s) == IF s = {} THEN 0 ELSE g[s \ {Max(s)}] * 512 + key[Max(s)]
  <2>1. \A s \in SUBSET (1..n) : g[s] = v(s)
    BY <1>5
  <2>2. Longer(g) = [s \in SUBSET (1..n) |-> v(s)]
    OBVIOUS
  <2> HIDE DEF v, Longer
  <2>3. [s \in SUBSET (1..n) |-> g[s]] = [s \in SUBSET (1..n) |-> v(s)]
    BY <2>1
  <2> QED BY <1>6, <2>2, <2>3
<1> DEFINE iter == CHOOSE h : h = Longer(h)
<1>8. GetKeyHash(key) = iter[1..n]
  BY <1>1 DEF GetKeyHash, FoldLeft, MapThenFoldSet
<1>9. \A s \in SUBSET (1..n) :
        iter[s] = IF s = {} THEN 0 ELSE iter[s \ {Max(s)}] * 512 + key[Max(s)]
  <2>1. iter = Longer(iter)
    <3> HIDE DEF Longer
    <3> QED BY <1>7, Zenon
  <2> HIDE DEF iter
  <2> QED BY <2>1
<1> HIDE DEF iter, Longer
<1> DEFINE S == {k \in Nat : k <= n => iter[1..k] \in Nat}
<1>10. 0 \in S
  <2>1. 1..0 = {} /\ 1..0 \in SUBSET (1..n)
    OBVIOUS
  <2>2. iter[1..0] = 0
    BY <1>9, <2>1, Zenon
  <2> QED BY <2>2
<1>11. \A k \in Nat : k \in S => k + 1 \in S
  <2> SUFFICES ASSUME NEW k \in Nat, k + 1 <= n, iter[1..k] \in Nat
               PROVE  iter[1..(k + 1)] \in Nat
    BY <1>1
  <2>1. 1..(k + 1) \in SUBSET (1..n) /\ k + 1 \in 1..n
    BY <1>1
  <2> DEFINE s == 1..(k + 1)
  <2>2. Max(s) = k + 1 /\ s # {} /\ s \ {k + 1} = 1..k
    BY FirstPositions
  <2> HIDE DEF s
  <2>3. s \in SUBSET (1..n)
    BY <2>1 DEF s
  <2>4. iter[s] = iter[s \ {Max(s)}] * 512 + key[Max(s)]
    BY <1>9, <2>2, <2>3
  <2>5. iter[s] = iter[1..k] * 512 + key[k + 1]
    <3>1. iter[s \ {Max(s)}] = iter[1..k] /\ key[Max(s)] = key[k + 1]
      BY <2>2, Zenon
    <3>2. iter[s \ {Max(s)}] * 512 = iter[1..k] * 512
      BY <3>1, Zenon
    <3> QED BY <2>4, <3>1, <3>2
  <2>6. key[k + 1] \in Nat
    BY <1>1, <2>1
  <2>7. iter[s] \in Nat
    <3>1. iter[1..k] * 512 + key[k + 1] \in Nat
      BY <1>2, <2>6
    <3> QED BY <2>5, <3>1, Zenon
  <2> QED BY <2>7 DEF s
<1> HIDE DEF S
<1>12. n \in S
  BY <1>1, <1>10, <1>11, NumbersInduction
<1>13. iter[1..n] \in Nat
  BY <1>1, <1>12 DEF S
<1> QED BY <1>8, <1>13

\* Padding and cutting make keys of keys.
LEMMA PaddedKey ==
    ASSUME NEW key \in Seq(Nat)
    PROVE  PadKeyToSize(key) \in Seq(Nat)
<1>1. Len(key) \in Nat /\ KeySize \in Nat /\ \A i \in 1..Len(key) : key[i] \in Nat
  BY KeySizeAssumption
<1>2. CASE Len(key) > KeySize
  <2>1. SubSeq(key, 1, KeySize) \in Seq(Nat)
    BY <1>1, <1>2, SubSeqProperties
  <2> QED BY <1>2, <2>1 DEF PadKeyToSize
<1>3. CASE ~(Len(key) > KeySize)
  <2> DEFINE zeros == [i \in 1..(KeySize - Len(key)) |-> 0]
  <2>1. KeySize - Len(key) \in Nat
    BY <1>1, <1>3
  <2>2. zeros \in Seq(Nat)
    BY <2>1
  <2> HIDE DEF zeros
  <2>3. zeros \o key \in Seq(Nat)
    BY <2>2
  <2> QED BY <1>3, <2>3 DEF PadKeyToSize, zeros
<1> QED BY <1>2, <1>3

\* The hash of every wallet's key is a number.
LEMMA WalletHashes ==
    ASSUME NEW ts \in WalletTexts, NEW a \in Addresses
    PROVE  \A k \in 1..Len(Load(ts)[a]) : GetKeyHash(Load(ts)[a][k].vkey) \in Nat
<1> TAKE k \in 1..Len(Load(ts)[a])
<1>1. Load(ts)[a] = [j \in DOMAIN ts[a] |->
            NewWallet(GetKeyBytes(ts[a][j].vkey), GetKeyBytes(ts[a][j].skey))]
  BY DEF Load
<1>2. ts[a] \in Seq(KeyTexts)
  BY ThresholdAssumption
<1>3. Len(Load(ts)[a]) = Len(ts[a])
  BY LoadedWallets
<1>4. k \in DOMAIN ts[a] /\ ts[a][k] \in KeyTexts
  BY <1>2, <1>3
<1> DEFINE w == ts[a][k]
<1>5. w.vkey.bytes \in Seq(Nat)
  <2>1. w \in KeyTexts
    BY <1>4
  <2> HIDE DEF w
  <2> QED BY <2>1 DEF KeyTexts
<1>6. Load(ts)[a][k].vkey = PadKeyToSize(GetKeyBytes(w.vkey))
  BY <1>1, <1>4 DEF NewWallet
<1> HIDE DEF w
<1>7. GetKeyBytes(w.vkey) \in Seq(Nat)
  BY <1>5, PaddedKey DEF GetKeyBytes
<1>8. PadKeyToSize(GetKeyBytes(w.vkey)) \in Seq(Nat)
  BY <1>7, PaddedKey
<1> QED BY <1>6, <1>8, HashIsNumber

\* The keys of all the wallets of an address satisfy its script, with any others.
LEMMA WalletsSatisfy ==
    ASSUME NEW ts \in WalletTexts, NEW a \in {"sig", "fee"}, NEW valid,
           \A k \in 1..Len(Load(ts)[a]) : GetKeyHash(Load(ts)[a][k].vkey) \in valid
    PROVE  Satisfied(ScriptOf(Load(ts), a), valid)
<1> DEFINE ws == Load(ts)
           n == Len(ws[a])
           hashes == [k \in DOMAIN ws[a] |-> GetKeyHash(ws[a][k].vkey)]
           ps == NewPolicyScript(hashes, Required(ws))
<1>1. n \in Nat /\ DOMAIN hashes = 1..n /\ ScriptOf(ws, a) = ps
  <2>1. ws[a] \in Seq(Signers)
    BY LoadedWallets DEF Addresses
  <2>2. n \in Nat
    <3> HIDE DEF ws
    <3> QED BY <2>1
  <2> QED BY <2>2, ScriptKeys
<1>2. \A k \in 1..n : hashes[k] = GetKeyHash(ws[a][k].vkey)
  BY <1>1
<1>3. \A k \in 1..n : hashes[k] \in Nat /\ hashes[k] \in valid
  BY <1>2, WalletHashes DEF Addresses
<1>4. hashes \in [1..n -> Nat]
  BY <1>1, <1>3
<1>5. Required(ws) <= n /\ Required(ws) \in Nat
  <2>1. /\ Len(ws["sig"]) \in Nat \ {0} /\ Len(ws["fee"]) \in Nat
        /\ Required(ws) <= Len(ws["fee"])
    BY LoadedWallets
  <2> DEFINE m == Len(ws["sig"])
  <2>2. Required(ws) = (m * 2) \div 3 + 1
    BY DEF Required
  <2> HIDE DEF m
  <2>3. m \in Nat \ {0}
    BY <2>1 DEF m
  <2>4. (m * 2) \div 3 + 1 <= m /\ (m * 2) \div 3 + 1 \in Nat
    BY <2>3
  <2>5. CASE a = "sig"
    BY <2>2, <2>4, <2>5 DEF m
  <2>6. CASE a = "fee"
    BY <2>1, <2>2, <2>4, <2>6
  <2> QED BY <2>5, <2>6
<1> HIDE DEF ws, n, hashes
<1>6. /\ ps.required = Required(ws) /\ DOMAIN ps.scripts = 1..n
      /\ \A i \in 1..n : ps.scripts[i] = SigScript(Sorted(hashes)[i])
  BY <1>1, ScriptOfKeys
<1> HIDE DEF ps
<1>7. \A i \in 1..n : ps.scripts[i].keyHash \in valid
  <2> TAKE i \in 1..n
  <2>1. PICK j \in 1..n : Sorted(hashes)[i] = hashes[j]
    BY <1>1, <1>4, SortedValues
  <2>2. ps.scripts[i].keyHash = hashes[j]
    <3>1. \A h : SigScript(h).keyHash = h
      BY DEF SigScript
    <3> QED BY <1>6, <2>1, <3>1
  <2> QED BY <1>3, <2>2
<1>8. {i \in DOMAIN ps.scripts : ps.scripts[i].keyHash \in valid} = 1..n
  BY <1>6, <1>7
<1>9. Cardinality(1..n) = n
  <2>1. Cardinality(1..n) = IF 1 > n THEN 0 ELSE (n - 1) + 1
    BY <1>1, FS_Interval
  <2> QED BY <1>1, <2>1
<1>10. Satisfied(ps, valid)
  BY <1>5, <1>6, <1>8, <1>9 DEF Satisfied
<1> QED BY <1>1, <1>10 DEF ws

\* The signatures in the transaction satisfy the script of every input, for
\* every number of signers and every key: the threshold is within reach of the
\* keys of either script, whatever their order (main.go:117, 135-136, 252-273).
THEOREM WitnessesSatisfy == Spec => []WitnessesSuffice
<1>1. P!Inv /\ FlowInv => WitnessesSuffice
  <2> SUFFICES ASSUME P!Inv, FlowInv, stage = "done"
               PROVE  WitnessesSuffice
    BY DEF WitnessesSuffice
  <2> DEFINE txid == B!TxId(signed.body)
             valid == {GetKeyHash(w.vkey) :
                        w \in {v \in ToSet(signed.witnesses) : VerifyWitness(txid, v)}}
             owner == wallets["own"][1]
  <2>1. /\ signed.body.ins = ChosenWithScripts /\ signed.witnesses = Attached /\ txid = txHash
        /\ kind \in {"single", "multi"}
    <3>1. signed.body = Body /\ signed.witnesses = Attached /\ txHash = B!TxId(Body)
      BY DEF FlowInv, CallFits, Built, B!Signed
    <3>2. b.inputs = ChosenWithScripts
      BY DEF FlowInv, FieldsFit, Filled
    <3>3. Body.ins = b.inputs
      BY DEF Body, B!Described
    <3> QED BY <3>1, <3>2, <3>3 DEF FlowInv, WalletsOK
  <2>2. ASSUME NEW k \in DOMAIN Keys, VerifyWitness(txHash, Attached[k])
        PROVE  GetKeyHash(Keys[k].vkey) \in valid
    <3>1. Attached[k] = CreateTxWitness(txHash, Keys[k]) /\ DOMAIN Attached = DOMAIN Keys
      BY DEF Attached
    <3>2. Attached[k].vkey = Keys[k].vkey
      BY <3>1 DEF CreateTxWitness
    <3>3. Attached[k] \in ToSet(signed.witnesses)
      BY <2>1, <3>1 DEF ToSet
    <3> HIDE DEF txid
    <3> QED BY <2>1, <2>2, <3>2, <3>3
  <2> HIDE DEF valid, txid
  <2>3. \A a \in Payers : Funded(a)
    BY CheckedAmounts DEF Built
  <2>4. CASE kind = "single"
    <3>1. \A i \in DOMAIN ChosenWithScripts : ChosenWithScripts[i].script = NoScript
      <4>1. ChosenWithScripts = Of("own")
        BY <2>4 DEF ChosenWithScripts, Of
      <4>2. Script("own") = NoScript
        BY Owners DEF FlowInv
      <4> QED BY <4>1, <4>2 DEF Of
    <3>2. owner.vkey = Public(owner.skey) => GetKeyHash(owner.vkey) \in valid
      <4> SUFFICES ASSUME owner.vkey = Public(owner.skey)
                   PROVE  GetKeyHash(owner.vkey) \in valid
        OBVIOUS
      <4>1. Keys = wallets["own"] /\ 1 \in DOMAIN Keys
        <5>1. wallets["own"] \in Seq(Signers) /\ Len(wallets["own"]) = 1
          BY Owners DEF FlowInv, Addresses
        <5> QED BY <2>4, <5>1 DEF Keys
      <4>2. Attached[1] = CreateTxWitness(txHash, owner)
        BY <4>1 DEF Attached
      <4> HIDE DEF owner
      <4>3. VerifyWitness(txHash, Attached[1])
        BY <4>2 DEF VerifyWitness, VerifyMessage, CreateTxWitness, SignMessage
      <4> QED BY <2>2, <4>1, <4>3 DEF owner
    <3> HIDE DEF owner
    <3> QED BY <2>1, <3>1, <3>2 DEF WitnessesSuffice, valid, txid, owner
  <2>5. CASE kind = "multi"
    <3> PICK ts \in WalletTexts : wallets = Load(ts)
      BY DEF FlowInv, WalletsOK
    <3>1. \A k \in DOMAIN Keys : GetKeyHash(Keys[k].vkey) \in valid
      BY <2>2, <2>5 DEF FlowInv, CallFits
    <3>2. \A a \in {"sig", "fee"} : \A k \in 1..Len(wallets[a]) :
                GetKeyHash(wallets[a][k].vkey) \in valid
      <4> DEFINE x == wallets["sig"]
                 y == wallets["fee"]
      <4>1. x \in Seq(Signers) /\ y \in Seq(Signers) /\ Keys = x \o y
        BY <2>5, Owners DEF FlowInv, Addresses, Keys
      <4> HIDE DEF x, y
      <4>2. /\ Len(x) \in Nat /\ Len(y) \in Nat
            /\ DOMAIN Keys = 1..(Len(x) + Len(y))
            /\ \A k \in 1..Len(x) : Keys[k] = x[k]
            /\ \A k \in 1..Len(y) : Keys[Len(x) + k] = y[k]
        BY <4>1
      <4>3. \A k \in 1..Len(x) : GetKeyHash(x[k].vkey) \in valid
        <5> TAKE k \in 1..Len(x)
        <5>1. k \in DOMAIN Keys
          BY <4>2
        <5> QED BY <3>1, <4>2, <5>1
      <4>4. \A k \in 1..Len(y) : GetKeyHash(y[k].vkey) \in valid
        <5> TAKE k \in 1..Len(y)
        <5>1. Len(x) + k \in DOMAIN Keys
          BY <4>2
        <5> QED BY <3>1, <4>2, <5>1
      <4> QED BY <4>3, <4>4 DEF x, y
    <3>3. \A a \in {"sig", "fee"} : Satisfied(Script(a), valid) /\ Script(a) # NoScript
      BY <3>2, WalletsSatisfy, Owners DEF Script, FlowInv
    <3>4. \A i \in DOMAIN ChosenWithScripts :
            ChosenWithScripts[i].script \in {Script("sig"), Script("fee")}
      <4> DEFINE x == Of("sig")
                 y == Of("fee")
      <4>1. ChosenWithScripts = x \o y
        BY <2>5 DEF ChosenWithScripts, Of
      <4>2. x \in Seq(Ins) /\ y \in Seq(Ins)
        BY <2>3, <2>5, InputsOfOne DEF Payers, Addresses, FlowInv
      <4>3. /\ \A i \in DOMAIN x : x[i].script = Script("sig")
            /\ \A i \in DOMAIN y : y[i].script = Script("fee")
        BY DEF Of
      <4> HIDE DEF x, y, Ins
      <4>4. \A i \in DOMAIN (x \o y) :
                \/ i \in DOMAIN x /\ (x \o y)[i] = x[i]
                \/ i - Len(x) \in DOMAIN y /\ (x \o y)[i] = y[i - Len(x)]
        BY <4>2
      <4> QED BY <4>1, <4>3, <4>4
    <3> HIDE DEF owner
    <3> QED BY <2>1, <3>3, <3>4 DEF WitnessesSuffice, valid, txid, owner
  <2> QED BY <2>1, <2>4, <2>5
<1> QED BY <1>1, Invariance, PTL

=============================================================================
