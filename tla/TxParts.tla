------------------------------ MODULE TxParts ------------------------------
(* core/transaction.go: the parts of a transaction that a TxBuilder keeps in *)
(* memory, what they amount to, and what cardano-cli computes from its       *)
(* input.                                                                    *)
EXTENDS Integers, Sequences, SequencesExt

CONSTANTS
    Inputs,         \* transaction inputs, hash and index
    Scripts,        \* policy scripts
    KeyCount,       \* GetCount of each script
    NoScript,       \* PolicyScript == nil
    Params,         \* protocol parameters
    Metadata,       \* metadata documents
    Nil,            \* a nil slice
    Amounts,        \* output amounts, fees and minimum amounts
    TTLs,           \* times to live
    Witnesses,      \* witnesses
    MinUTxO,        \* MinUTxODefaultValue
    Magics,         \* network magics
    MainNetMagic    \* MainNetProtocolMagic

ASSUME PartsAssumption ==
    /\ KeyCount \in [Scripts -> Nat]
    /\ NoScript \notin Scripts
    /\ Nil \notin Params \cup Metadata
    /\ Amounts \subseteq Nat /\ TTLs \subseteq Nat /\ 0 \in Amounts \cap TTLs
    /\ MinUTxO \in Nat
    /\ Magics \subseteq Nat /\ 0 \in Magics

(* --------------------------- the builder's fields ------------------------ *)

NewTxBuilder ==
    [inputs |-> <<>>, outputs |-> <<>>, metadata |-> Nil, params |-> Nil,
     ttl |-> 0, minOutput |-> 0, fee |-> 0, magic |-> 0]

SetTestNetMagic(t, m)       == [t EXCEPT !.magic = m]
SetFee(t, f)                == [t EXCEPT !.fee = f]
SetMinOutputAmount(t, m)    == [t EXCEPT !.minOutput = m]
SetMetaData(t, m)           == [t EXCEPT !.metadata = m]
SetProtocolParameters(t, p) == [t EXCEPT !.params = p]
SetTimeToLive(t, l)         == [t EXCEPT !.ttl = l]

\* ins is a sequence of inputs, scripts one of scripts; the longer one is cut.
AddInputsWithScripts(t, ins, scripts) ==
    LET cnt == IF Len(ins) > Len(scripts) THEN Len(scripts) ELSE Len(ins)
    IN  [t EXCEPT !.inputs = @ \o
            [i \in 1..cnt |-> [in |-> ins[i], script |-> scripts[i]]]]

AddInputsWithScript(t, script, ins) ==
    AddInputsWithScripts(t, ins, [i \in DOMAIN ins |-> script])

AddInputs(t, ins) == AddInputsWithScript(t, NoScript, ins)

AddOutputs(t, outs) == [t EXCEPT !.outputs = @ \o outs]

\* Indices as the callers give them: negative ones count from the end.  An
\* index out of range is a panic.
Position(t, index) == IF index < 0 THEN Len(t.outputs) + index + 1 ELSE index + 1

UpdateOutputAmount(t, index, amount) == [t EXCEPT !.outputs[Position(t, index)] = amount]
RemoveOutput(t, index) == [t EXCEPT !.outputs = RemoveAt(@, Position(t, index))]

\* Inputs a caller may still add, and every builder that one call makes of t.
Fresh(t) == Inputs \ {t.inputs[i].in : i \in DOMAIN t.inputs}

Lists(S) == {<<x>> : x \in S} \cup {p \in S \X S : p[1] # p[2]}

AfterOneCall(t) ==
    {SetTestNetMagic(t, m) : m \in Magics}
    \cup {SetFee(t, f) : f \in Amounts}
    \cup {SetMinOutputAmount(t, m) : m \in Amounts}
    \cup {SetMetaData(t, m) : m \in Metadata \cup {Nil}}
    \cup {SetProtocolParameters(t, p) : p \in Params}
    \cup {SetTimeToLive(t, l) : l \in TTLs}
    \cup {AddInputs(t, ins) : ins \in Lists(Fresh(t))}
    \cup {AddInputsWithScript(t, s, ins) : s \in Scripts, ins \in Lists(Fresh(t))}
    \cup {AddInputsWithScripts(t, ins, ss) : ins \in Lists(Fresh(t)), ss \in Lists(Scripts)}
    \cup {AddOutputs(t, <<a>>) : a \in Amounts}
    \cup {UpdateOutputAmount(t, x - 1, a) : x \in DOMAIN t.outputs, a \in Amounts}
    \cup {RemoveOutput(t, x - 1) : x \in DOMAIN t.outputs}

\* Mutant: no default minimum.
CheckOutputsLoose(t) == \A i \in DOMAIN t.outputs : t.outputs[i] >= t.minOutput

CheckOutputs(t) ==
    LET min == IF t.minOutput = 0 THEN MinUTxO ELSE t.minOutput
    IN  \A i \in DOMAIN t.outputs : t.outputs[i] >= min

\* The keys of the scripts, input by input; one key when there are none.
WitnessCount(t, witnessCount) ==
    LET keys == FoldLeft(+, 0, [i \in DOMAIN t.inputs |->
            IF t.inputs[i].script = NoScript THEN 0 ELSE KeyCount[t.inputs[i].script]])
    IN  IF witnessCount # 0 THEN witnessCount
        ELSE IF keys = 0 THEN 1 ELSE keys

\* The transaction that the builder's fields describe.
Described(t, fee) ==
    [ins |-> t.inputs, outs |-> t.outputs, fee |-> fee, ttl |-> t.ttl,
     meta |-> t.metadata]

(* --------------------------- what cardano-cli does ----------------------- *)

\* getTestNetMagicArgs.
MagicArgs(m) ==
    IF m \in {0, MainNetMagic} THEN <<"--mainnet">> ELSE <<"--testnet-magic", m>>

\* calculate-min-fee.
MinFee(body, ins, outs, witnesses, params, network) ==
    [body |-> body, ins |-> ins, outs |-> outs, witnesses |-> witnesses,
     params |-> params, network |-> network]

TxId(body) == [txid |-> body]

Signed(body, witnesses) == [body |-> body, witnesses |-> witnesses]

(* -------------------------- calls and their results ---------------------- *)

NoCall   == [op |-> "none"]
Err      == [ok |-> FALSE]
Ok(v)    == [ok |-> TRUE, value |-> v]
=============================================================================
