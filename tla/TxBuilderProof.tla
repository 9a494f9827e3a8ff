--------------------------- MODULE TxBuilderProof ---------------------------
(* Proofs about TxBuilder: no file that an earlier call, a failed write or a *)
(* failed run of cardano-cli left behind ever gets into a result.            *)
(*                                                                           *)
(* The properties speak of results only.  What makes them inductive is what  *)
(* the files hold at every label of a running call: FilesCurrent.            *)
EXTENDS TxBuilder, TLAPS

(* -------------------------- the inductive invariant ---------------------- *)

Builders ==
    [inputs : Seq([in : Inputs, script : Scripts \cup {NoScript}]),
     outputs : Seq(Amounts), metadata : Metadata \cup {Nil},
     params : Params \cup {Nil}, ttl : TTLs, minOutput : Amounts, fee : Amounts,
     magic : Magics]

FieldsOK ==
    /\ b \in Builders
    /\ Len(b.inputs) <= MaxInputs

FilesOK ==
    /\ dir = [exists |-> dir.exists, params |-> dir.params, metadata |-> dir.metadata,
              policy |-> dir.policy, draft |-> dir.draft, tmp |-> dir.tmp,
              witness |-> dir.witness, raw |-> dir.raw, sig |-> dir.sig]
    /\ dir.exists \in BOOLEAN
    /\ dir.params \in Params \cup {NoFile}
    /\ dir.metadata \in Metadata \cup {NoFile}
    /\ dir.policy \in [1..MaxInputs -> Scripts \cup {NoFile}]
    /\ dir.witness \in [1..MaxInputs -> Witnesses \cup {NoFile}]

CallOK ==
    /\ calls \in 0..MaxCalls
    /\ ret.ok \in BOOLEAN
    /\ call.op \in {"none", "fee", "build", "assemble"}
    /\ call.op = "assemble" => call.witnesses \in Seq(Witnesses)
    /\ pc \in {"idle", "start", "metadata", "policies", "build-raw", "min-fee",
               "read-draft", "txid", "raw", "assemble", "read-sig"}
    /\ pc \in {"metadata", "policies", "build-raw"} => call.op \in {"fee", "build"}
    /\ pc # "idle" /\ call.op \in {"fee", "build"} => b.params # Nil
    /\ pc = "min-fee" => call.op = "fee"
    /\ pc \in {"read-draft", "txid"} => call.op = "build"
    /\ pc \in {"raw", "assemble", "read-sig"} => call.op = "assemble"

\* What a file that is still needed holds, label by label.
FilesCurrent ==
    /\ pc \in {"metadata", "policies", "build-raw", "min-fee"} => dir.params = b.params
    /\ pc \in {"policies", "build-raw"} /\ b.metadata # Nil => dir.metadata = b.metadata
    /\ pc = "build-raw" =>
        \A i \in DOMAIN b.inputs :
            b.inputs[i].script # NoScript => dir.policy[i] = b.inputs[i].script
    /\ pc = "min-fee" => dir.draft = Described(b, 0)
    /\ pc \in {"read-draft", "txid"} => dir.draft = Described(b, b.fee)
    /\ pc = "txid" => dir.tmp = dir.draft
    /\ pc \in {"raw", "assemble"} =>
        \A i \in DOMAIN call.witnesses : dir.witness[i] = call.witnesses[i]
    /\ pc = "assemble" => dir.raw = call.txRaw
    /\ pc = "read-sig" => dir.sig = Signed(call.txRaw, call.witnesses)

Results == BuiltIsCurrent /\ FeeIsCurrent /\ AssembledIsGiven

Inv == FieldsOK /\ FilesOK /\ CallOK /\ FilesCurrent /\ Results

(* ------------------------------- the fields ------------------------------ *)

\* Sequences that a call passes.
LEMMA ListsAreSequences ==
    ASSUME NEW S, NEW l \in Lists(S)
    PROVE  l \in Seq(S)
<1>1. CASE \E x \in S : l = <<x>>
  BY <1>1
<1>2. CASE \E x, y \in S : l = <<x, y>>
  BY <1>2
<1> QED BY <1>1, <1>2 DEF Lists

\* The elements of a sequence over a set are in the set.
LEMMA ElementOfSeq ==
    ASSUME NEW S, NEW l \in Seq(S), NEW i \in DOMAIN l
    PROVE  l[i] \in S
OBVIOUS

\* A sequence over a set is one over a larger set.
LEMMA SequenceOfMore ==
    ASSUME NEW S, NEW T, S \subseteq T, NEW l \in Seq(S)
    PROVE  l \in Seq(T)
OBVIOUS

\* One call on a builder makes a builder.
LEMMA OneCall ==
    ASSUME NEW t \in Builders, NEW u \in AfterOneCall(t)
    PROVE  u \in Builders
<1> DEFINE Ins == [in : Inputs, script : Scripts \cup {NoScript}]
<1>0. t.inputs \in Seq(Ins) /\ t.outputs \in Seq(Amounts)
  BY DEF Builders
<1>1. \A s \in Seq(Ins) : [t EXCEPT !.inputs = s] \in Builders
  <2> HIDE DEF Ins
  <2> QED BY DEF Builders, Ins
<1>2. \A s \in Seq(Amounts) : [t EXCEPT !.outputs = s] \in Builders
  BY DEF Builders
<1>3. ASSUME NEW ins \in Seq(Inputs), NEW ss \in Seq(Scripts \cup {NoScript})
      PROVE  AddInputsWithScripts(t, ins, ss) \in Builders
  <2> DEFINE cnt == IF Len(ins) > Len(ss) THEN Len(ss) ELSE Len(ins)
             new == [i \in 1..cnt |-> [in |-> ins[i], script |-> ss[i]]]
  <2>1. cnt \in Nat /\ cnt <= Len(ins) /\ cnt <= Len(ss)
    OBVIOUS
  <2>2. \A i \in 1..cnt : ins[i] \in Inputs /\ ss[i] \in Scripts \cup {NoScript}
    BY <2>1
  <2>3. \A i \in 1..cnt : [in |-> ins[i], script |-> ss[i]] \in Ins
    BY <2>2
  <2>4. new \in Seq(Ins)
    <3> HIDE DEF cnt, Ins
    <3> QED BY <2>1, <2>3
  <2>5. t.inputs \o new \in Seq(Ins)
    <3> HIDE DEF new, Ins
    <3> QED BY <1>0, <2>4
  <2>6. AddInputsWithScripts(t, ins, ss) = [t EXCEPT !.inputs = t.inputs \o new]
    BY DEF AddInputsWithScripts
  <2> HIDE DEF new, Ins
  <2> QED BY <1>1, <2>5, <2>6
<1>4. \A l \in Lists(Fresh(t)) : l \in Seq(Inputs)
  <2> TAKE l \in Lists(Fresh(t))
  <2>1. Fresh(t) \subseteq Inputs
    BY DEF Fresh
  <2>2. l \in Seq(Fresh(t))
    BY ListsAreSequences
  <2> QED BY <2>1, <2>2, SequenceOfMore
<1>5. \A s \in Scripts \cup {NoScript}, l \in Lists(Fresh(t)) :
        AddInputsWithScript(t, s, l) \in Builders
  <2> TAKE s \in Scripts \cup {NoScript}, l \in Lists(Fresh(t))
  <2>1. l \in Seq(Inputs)
    BY <1>4
  <2>2. [i \in DOMAIN l |-> s] \in Seq(Scripts \cup {NoScript})
    BY <2>1
  <2> QED BY <1>3, <2>1, <2>2 DEF AddInputsWithScript
<1>6. CASE \/ \E m \in Magics : u = SetTestNetMagic(t, m)
           \/ \E f \in Amounts : u = SetFee(t, f)
           \/ \E m \in Amounts : u = SetMinOutputAmount(t, m)
           \/ \E m \in Metadata \cup {Nil} : u = SetMetaData(t, m)
           \/ \E p \in Params : u = SetProtocolParameters(t, p)
           \/ \E l \in TTLs : u = SetTimeToLive(t, l)
  BY <1>6 DEF Builders, SetTestNetMagic, SetFee, SetMinOutputAmount, SetMetaData,
              SetProtocolParameters, SetTimeToLive
<1>7. CASE \/ \E l \in Lists(Fresh(t)) : u = AddInputs(t, l)
           \/ \E s \in Scripts, l \in Lists(Fresh(t)) : u = AddInputsWithScript(t, s, l)
  BY <1>5, <1>7 DEF AddInputs
<1>8. CASE \E l \in Lists(Fresh(t)), ss \in Lists(Scripts) :
                u = AddInputsWithScripts(t, l, ss)
  <2>1. \A ss \in Lists(Scripts) : ss \in Seq(Scripts)
    BY ListsAreSequences
  <2>2. \A ss \in Lists(Scripts) : ss \in Seq(Scripts \cup {NoScript})
    BY <2>1, SequenceOfMore
  <2> QED BY <1>3, <1>4, <1>8, <2>2
<1>9. CASE \E a \in Amounts : u = AddOutputs(t, <<a>>)
  <2>1. \A a \in Amounts : t.outputs \o <<a>> \in Seq(Amounts)
    BY <1>0
  <2> QED BY <1>2, <1>9, <2>1 DEF AddOutputs
<1>10. CASE \E x \in DOMAIN t.outputs, a \in Amounts : u = UpdateOutputAmount(t, x - 1, a)
  <2> PICK x \in DOMAIN t.outputs, a \in Amounts : u = UpdateOutputAmount(t, x - 1, a)
    BY <1>10
  <2>1. x \in 1..Len(t.outputs) /\ Position(t, x - 1) = x
    BY <1>0 DEF Position
  <2>2. [t.outputs EXCEPT ![x] = a] \in Seq(Amounts)
    BY <1>0, <2>1
  <2>3. u = [t EXCEPT !.outputs = [t.outputs EXCEPT ![x] = a]]
    BY <2>1 DEF UpdateOutputAmount, Builders
  <2> QED BY <1>2, <2>2, <2>3
<1>11. CASE \E x \in DOMAIN t.outputs : u = RemoveOutput(t, x - 1)
  <2> PICK x \in DOMAIN t.outputs : u = RemoveOutput(t, x - 1)
    BY <1>11
  <2>1. x \in 1..Len(t.outputs) /\ Position(t, x - 1) = x
    BY <1>0 DEF Position
  <2>2. RemoveAt(t.outputs, x) \in Seq(Amounts)
    BY <1>0, <2>1 DEF RemoveAt
  <2>3. u = [t EXCEPT !.outputs = RemoveAt(t.outputs, x)]
    BY <2>1 DEF RemoveOutput, Builders
  <2> QED BY <1>2, <2>2, <2>3
<1>12. \/ \E m \in Magics : u = SetTestNetMagic(t, m)
       \/ \E f \in Amounts : u = SetFee(t, f)
       \/ \E m \in Amounts : u = SetMinOutputAmount(t, m)
       \/ \E m \in Metadata \cup {Nil} : u = SetMetaData(t, m)
       \/ \E p \in Params : u = SetProtocolParameters(t, p)
       \/ \E l \in TTLs : u = SetTimeToLive(t, l)
       \/ \E l \in Lists(Fresh(t)) : u = AddInputs(t, l)
       \/ \E s \in Scripts, l \in Lists(Fresh(t)) : u = AddInputsWithScript(t, s, l)
       \/ \E l \in Lists(Fresh(t)), ss \in Lists(Scripts) : u = AddInputsWithScripts(t, l, ss)
       \/ \E a \in Amounts : u = AddOutputs(t, <<a>>)
       \/ \E x \in DOMAIN t.outputs, a \in Amounts : u = UpdateOutputAmount(t, x - 1, a)
       \/ \E x \in DOMAIN t.outputs : u = RemoveOutput(t, x - 1)
  BY DEF AfterOneCall
<1> QED BY <1>6, <1>7, <1>8, <1>9, <1>10, <1>11, <1>12

(* ------------------------------- the files ------------------------------- *)

\* At build-raw the files hold all that the draft is made of.
LEMMA DraftIsDescribed ==
    ASSUME NEW f, Inv, pc = "build-raw"
    PROVE  Drafted(f) = Described(b, f)
<1> DEFINE Ins == [in : Inputs, script : Scripts \cup {NoScript}]
           scripted == [i \in DOMAIN b.inputs |->
                [in |-> b.inputs[i].in,
                 script |-> IF b.inputs[i].script = NoScript
                            THEN NoScript ELSE dir.policy[i]]]
<1>1. b.inputs \in Seq(Ins)
  BY DEF Inv, FieldsOK, Builders
<1>2. \A i \in DOMAIN b.inputs : b.inputs[i] \in Ins
  <2> HIDE DEF Ins
  <2> QED BY <1>1
<1>3. \A i \in DOMAIN b.inputs : scripted[i] = b.inputs[i]
  BY <1>2 DEF Inv, FilesCurrent
<1>4. scripted = b.inputs
  <2> HIDE DEF Ins
  <2>1. b.inputs = [i \in DOMAIN b.inputs |-> b.inputs[i]]
    BY <1>1
  <2> QED BY <1>3, <2>1
<1>5. (IF b.metadata = Nil THEN Nil ELSE dir.metadata) = b.metadata
  BY DEF Inv, FilesCurrent
<1> HIDE DEF scripted, Ins
<1>6. Drafted(f) = [ins |-> scripted, outs |-> b.outputs, fee |-> f, ttl |-> b.ttl,
                    meta |-> IF b.metadata = Nil THEN Nil ELSE dir.metadata]
  BY DEF Drafted, scripted
<1> QED BY <1>4, <1>5, <1>6 DEF Described

\* The invariant holds for a new builder.
LEMMA InitInv == Init => Inv
<1> SUFFICES ASSUME Init PROVE Inv
  OBVIOUS
<1> USE PartsAssumption, BuilderAssumption DEF Init
<1>1. FieldsOK
  BY DEF FieldsOK, NewTxBuilder, Builders
<1>2. FilesOK
  BY DEF FilesOK, EmptyDir
<1>3. CallOK
  BY DEF CallOK, NoCall, Err
<1>4. FilesCurrent /\ Results
  BY DEF FilesCurrent, Results, BuiltIsCurrent, FeeIsCurrent, AssembledIsGiven, Err
<1> QED BY <1>1, <1>2, <1>3, <1>4 DEF Inv

(* ------------------------------ calls begin ------------------------------ *)

\* A call that changes fields, or a chain of them, changes no file.
LEMMA ConfigureInv ==
    ASSUME Inv, NEW t \in Builders, Len(t.inputs) <= MaxInputs, Configure(t)
    PROVE  Inv'
<1> USE DEF Configure, Start, Inv
<1>1. FieldsOK'
  BY DEF FieldsOK
<1>2. FilesOK'
  BY DEF FilesOK
<1>3. CallOK'
  BY PartsAssumption, BuilderAssumption DEF CallOK, NoCall, Err
<1>4. FilesCurrent' /\ Results'
  BY DEF FilesCurrent, Results, BuiltIsCurrent, FeeIsCurrent, AssembledIsGiven, Err
<1> QED BY <1>1, <1>2, <1>3, <1>4

\* Dispose keeps the invariant.
LEMMA DisposeInv == ASSUME Inv, Dispose PROVE Inv'
<1> USE DEF Dispose, Start, Inv
<1>1. FieldsOK'
  BY DEF FieldsOK
<1>2. FilesOK'
  BY PartsAssumption, BuilderAssumption DEF FilesOK, EmptyDir
<1>3. CallOK'
  BY PartsAssumption, BuilderAssumption DEF CallOK, NoCall, Err
<1>4. FilesCurrent' /\ Results'
  BY DEF FilesCurrent, Results, BuiltIsCurrent, FeeIsCurrent, AssembledIsGiven, Err
<1> QED BY <1>1, <1>2, <1>3, <1>4

\* The first checks of an operation, and the types of its arguments.
LEMMA OperationInv ==
    ASSUME Inv, NEW c, NEW checks, Operation(c, checks),
           c.op \in {"fee", "build", "assemble"},
           c.op = "assemble" => c.witnesses \in Seq(Witnesses),
           c.op \in {"fee", "build"} /\ checks => b.params # Nil
    PROVE  Inv'
<1> USE DEF Operation, Start, Inv
<1>1. FieldsOK'
  BY DEF FieldsOK
<1>2. FilesOK'
  BY DEF FilesOK
<1>3. CallOK'
  BY PartsAssumption, BuilderAssumption DEF CallOK, Err
<1>4. FilesCurrent' /\ Results'
  BY DEF FilesCurrent, Results, BuiltIsCurrent, FeeIsCurrent, AssembledIsGiven, Err
<1> QED BY <1>1, <1>2, <1>3, <1>4

\* A failed step, wherever the call is.
LEMMA FailureInv ==
    ASSUME Inv, Return(Err), FilesOK' PROVE Inv'
<1> USE DEF Return, Inv
<1>1. FieldsOK'
  BY DEF FieldsOK
<1>2. CallOK'
  BY DEF CallOK, Err
<1>3. FilesCurrent' /\ Results'
  BY DEF FilesCurrent, Results, BuiltIsCurrent, FeeIsCurrent, AssembledIsGiven, Err
<1> QED BY <1>1, <1>2, <1>3

(* ---------------------------- steps of a call ---------------------------- *)

\* A step that goes on returns nothing: only the files and the label count.
LEMMA GotoInv ==
    ASSUME Inv, NEW label, Goto(label), pc # "idle", FilesOK', CallOK', FilesCurrent'
    PROVE  Inv'
<1>1. FieldsOK' /\ Results'
  BY DEF Goto, Inv, FieldsOK, Results, BuiltIsCurrent, FeeIsCurrent, AssembledIsGiven
<1> QED BY <1>1 DEF Inv

\* Writing the protocol parameters keeps the invariant.
LEMMA WriteParamsInv == ASSUME Inv, WriteParams PROVE Inv'
<1> USE DEF WriteParams, Writable, Goto, Inv
<1>1. dir' = [dir EXCEPT !.params = b.params]
  OBVIOUS
<1>2. FilesOK'
  BY <1>1 DEF FilesOK, FieldsOK, Builders, CallOK
<1>3. CallOK'
  BY DEF CallOK
<1>4. FilesCurrent'
  BY <1>1 DEF FilesCurrent, FilesOK
<1> QED BY <1>2, <1>3, <1>4, GotoInv

\* Writing the metadata keeps the invariant.
LEMMA WriteMetadataInv == ASSUME Inv, WriteMetadata PROVE Inv'
<1> USE DEF WriteMetadata, Writable, Goto, Inv
<1>1. dir' = IF b.metadata = Nil THEN dir ELSE [dir EXCEPT !.metadata = b.metadata]
  OBVIOUS
<1>2. FilesOK'
  BY <1>1 DEF FilesOK, FieldsOK, Builders
<1>3. CallOK'
  BY DEF CallOK
<1>4. FilesCurrent'
  BY <1>1 DEF FilesCurrent, FilesOK
<1> QED BY <1>2, <1>3, <1>4, GotoInv

\* The script of every input is a script or none.
LEMMA ScriptsOfInputs ==
    ASSUME NEW ins \in Seq([in : Inputs, script : Scripts \cup {NoScript}])
    PROVE  \A i \in DOMAIN ins : ins[i].script \in Scripts \cup {NoScript}
<1> DEFINE Ins == [in : Inputs, script : Scripts \cup {NoScript}]
<1>1. \A i \in DOMAIN ins : ins[i] \in Ins
  <2> HIDE DEF Ins
  <2>1. ins \in Seq(Ins)
    BY DEF Ins
  <2> QED BY <2>1
<1> QED BY <1>1

\* Writing the first n policy files keeps the invariant.
LEMMA WritePoliciesInv ==
    ASSUME Inv, NEW n \in 0..Len(b.inputs), WritePolicies(n) PROVE Inv'
<1> USE DEF WritePolicies, Writable, Inv
<1> DEFINE new == [i \in DOMAIN dir.policy |->
            IF i <= n /\ b.inputs[i].script # NoScript
            THEN b.inputs[i].script ELSE dir.policy[i]]
<1>1. b.inputs \in Seq([in : Inputs, script : Scripts \cup {NoScript}])
  BY DEF FieldsOK, Builders
<1>2. dir' = [dir EXCEPT !.policy = new]
  OBVIOUS
<1>3. \A i \in DOMAIN b.inputs : b.inputs[i].script \in Scripts \cup {NoScript}
  BY <1>1, ScriptsOfInputs
<1>4. n \in Nat /\ n <= Len(b.inputs) /\ Len(b.inputs) \in Nat
      /\ DOMAIN b.inputs = 1..Len(b.inputs)
  BY <1>1
<1>5. new \in [1..MaxInputs -> Scripts \cup {NoFile}]
  <2> SUFFICES ASSUME NEW i \in 1..MaxInputs
               PROVE  new[i] \in Scripts \cup {NoFile}
    BY DEF FilesOK
  <2>1. dir.policy[i] \in Scripts \cup {NoFile}
    BY DEF FilesOK
  <2>2. CASE i <= n /\ b.inputs[i].script # NoScript
    <3>1. i \in DOMAIN b.inputs
      BY <1>4, <2>2
    <3> QED BY <1>3, <2>2, <3>1 DEF FilesOK
  <2>3. CASE ~(i <= n /\ b.inputs[i].script # NoScript)
    BY <2>1, <2>3 DEF FilesOK
  <2> QED BY <2>2, <2>3
<1>6. FilesOK'
  <2> HIDE DEF new
  <2> QED BY <1>2, <1>5 DEF FilesOK
<1>7. CASE n = Len(b.inputs)
  <2>1. CallOK'
    BY <1>7 DEF CallOK, Goto
  <2>2. \A i \in DOMAIN b.inputs :
            b.inputs[i].script # NoScript => new[i] = b.inputs[i].script
    BY <1>4, <1>7, PartsAssumption, BuilderAssumption DEF FilesOK, FieldsOK
  <2>3. FilesCurrent'
    <3> HIDE DEF new
    <3> QED BY <1>2, <1>7, <2>2 DEF FilesCurrent, FilesOK, Goto
  <2> QED BY <1>6, <1>7, <2>1, <2>3, GotoInv
<1>8. CASE n # Len(b.inputs)
  BY <1>6, <1>8, FailureInv
<1> QED BY <1>7, <1>8

\* A run of build-raw leaves the draft of this call.
LEMMA RunBuildRawInv ==
    ASSUME Inv, NEW noisy \in BOOLEAN, RunBuildRaw(noisy) PROVE Inv'
<1> USE DEF RunBuildRaw, Writable, Inv
<1>1. dir' = [dir EXCEPT !.draft = Described(b, BuildFee)]
  BY DraftIsDescribed
<1>2. FilesOK'
  BY <1>1 DEF FilesOK
<1>3. CASE noisy
  BY <1>2, <1>3, FailureInv
<1>4. CASE ~noisy
  <2>1. CallOK'
    BY <1>4 DEF CallOK, Goto
  <2>2. dir'.draft = Described(b, BuildFee) /\ dir'.params = dir.params
    BY <1>1 DEF FilesOK
  <2>3. FilesCurrent'
    BY <1>4, <2>2 DEF FilesCurrent, CallOK, Goto, BuildFee, Described
  <2> QED BY <1>2, <1>4, <2>1, <2>3, GotoInv
<1> QED BY <1>3, <1>4

\* A result: the files are as they were.
LEMMA ResultInv ==
    ASSUME Inv, NEW v, Return(Ok(v)), UNCHANGED dir, Results' PROVE Inv'
<1> USE DEF Return, Inv
<1>1. FieldsOK' /\ FilesOK'
  BY DEF FieldsOK, FilesOK
<1>2. CallOK'
  BY DEF CallOK, Ok
<1>3. FilesCurrent'
  BY DEF FilesCurrent
<1> QED BY <1>1, <1>2, <1>3

\* The fee that is returned is that of this call.
LEMMA RunCalculateMinFeeInv == ASSUME Inv, RunCalculateMinFee PROVE Inv'
<1>1. call.op = "fee" /\ dir.draft = Described(b, 0) /\ dir.params = b.params
  BY DEF Inv, RunCalculateMinFee, FilesCurrent, CallOK
<1> DEFINE v == MinFee(Described(b, 0), Len(b.inputs), Len(b.outputs),
                       WitnessCount(b, call.witnessCount), b.params, MagicArgs(b.magic))
<1>2. Return(Ok(v)) /\ UNCHANGED dir
  BY <1>1 DEF RunCalculateMinFee
<1>3. UNCHANGED <<b, call>> /\ ret' = Ok(v)
  BY <1>2 DEF Return
<1>4. Results'
  <2>1. FeeIsCurrent'
    BY <1>3 DEF FeeIsCurrent, Ok
  <2> QED BY <1>1, <1>3, <2>1 DEF Results, BuiltIsCurrent, AssembledIsGiven
<1> HIDE DEF v
<1> QED BY <1>2, <1>4, ResultInv

\* Reading the draft back and writing it again keeps the invariant.
LEMMA ReadDraftInv == ASSUME Inv, ReadDraft PROVE Inv'
<1> USE DEF ReadDraft, Writable, Goto, Inv
<1>1. dir' = [dir EXCEPT !.tmp = dir.draft]
  OBVIOUS
<1>2. FilesOK'
  BY <1>1 DEF FilesOK
<1>3. CallOK'
  BY DEF CallOK
<1>4. FilesCurrent'
  BY <1>1 DEF FilesCurrent, FilesOK, Described
<1> QED BY <1>2, <1>3, <1>4, GotoInv

\* The hash that is returned is that of the draft that is returned.
LEMMA RunTxIdInv == ASSUME Inv, RunTxId PROVE Inv'
<1>1. call.op = "build" /\ dir.draft = Described(b, b.fee) /\ dir.tmp = dir.draft
  BY DEF Inv, RunTxId, FilesCurrent, CallOK
<1> DEFINE v == [txRaw |-> dir.draft, txHash |-> TxId(dir.tmp)]
<1>2. Return(Ok(v)) /\ UNCHANGED dir
  BY DEF RunTxId
<1>3. UNCHANGED <<b, call>> /\ ret' = Ok(v)
  BY <1>2 DEF Return
<1>4. Results'
  <2>1. BuiltIsCurrent'
    BY <1>1, <1>3 DEF BuiltIsCurrent, Ok, Described
  <2> QED BY <1>1, <1>3, <2>1 DEF Results, FeeIsCurrent, AssembledIsGiven
<1> HIDE DEF v
<1> QED BY <1>2, <1>4, ResultInv

\* Writing the first n witnesses keeps the invariant.
LEMMA WriteWitnessesInv ==
    ASSUME Inv, NEW n \in 0..MaxInputs, WriteWitnesses(n) PROVE Inv'
<1> USE DEF WriteWitnesses, Writable, Inv
<1> DEFINE new == [i \in DOMAIN dir.witness |->
            IF i <= n THEN call.witnesses[i] ELSE dir.witness[i]]
<1>1. call.witnesses \in Seq(Witnesses)
  BY DEF CallOK
<1>2. dir' = [dir EXCEPT !.witness = new]
  OBVIOUS
<1>3. n \in Nat /\ n <= MaxInputs /\ DOMAIN call.witnesses = 1..Len(call.witnesses)
      /\ Len(call.witnesses) \in Nat /\ n <= Len(call.witnesses)
  BY <1>1, PartsAssumption, BuilderAssumption
<1>4. new \in [1..MaxInputs -> Witnesses \cup {NoFile}]
  <2> SUFFICES ASSUME NEW i \in 1..MaxInputs
               PROVE  new[i] \in Witnesses \cup {NoFile}
    BY DEF FilesOK
  <2>1. dir.witness[i] \in Witnesses \cup {NoFile}
    BY DEF FilesOK
  <2>2. CASE i <= n
    <3>1. i \in DOMAIN call.witnesses
      BY <1>3, <2>2
    <3>2. call.witnesses[i] \in Witnesses
      BY <1>1, <3>1, ElementOfSeq
    <3> QED BY <2>2, <3>2 DEF FilesOK
  <2>3. CASE ~(i <= n)
    BY <2>1, <2>3 DEF FilesOK
  <2> QED BY <2>2, <2>3
<1>5. FilesOK'
  <2> HIDE DEF new
  <2> QED BY <1>2, <1>4 DEF FilesOK
<1>6. CASE n = Len(call.witnesses)
  <2>1. CallOK'
    BY <1>6 DEF CallOK, Goto
  <2>2. \A i \in DOMAIN call.witnesses : new[i] = call.witnesses[i]
    BY <1>3, <1>6, PartsAssumption, BuilderAssumption DEF FilesOK
  <2>3. FilesCurrent'
    <3> HIDE DEF new
    <3> QED BY <1>2, <1>6, <2>2 DEF FilesCurrent, FilesOK, Goto
  <2> QED BY <1>5, <1>6, <2>1, <2>3, GotoInv
<1>7. CASE n # Len(call.witnesses)
  BY <1>5, <1>7, FailureInv
<1> QED BY <1>6, <1>7

\* Writing the raw transaction keeps the invariant.
LEMMA WriteRawInv == ASSUME Inv, WriteRaw PROVE Inv'
<1> USE DEF WriteRaw, Writable, Goto, Inv
<1>1. dir' = [dir EXCEPT !.raw = call.txRaw]
  OBVIOUS
<1>2. FilesOK'
  BY <1>1 DEF FilesOK
<1>3. CallOK'
  BY DEF CallOK
<1>4. FilesCurrent'
  BY <1>1 DEF FilesCurrent, FilesOK
<1> QED BY <1>2, <1>3, <1>4, GotoInv

\* A run of assemble leaves the signed transaction of this call.
LEMMA RunAssembleInv ==
    ASSUME Inv, NEW noisy \in BOOLEAN, RunAssemble(noisy) PROVE Inv'
<1> USE DEF RunAssemble, Writable, Inv
<1> DEFINE attached == [i \in DOMAIN call.witnesses |-> dir.witness[i]]
<1>1. call.op = "assemble" /\ call.witnesses \in Seq(Witnesses) /\ dir.raw = call.txRaw
  BY DEF CallOK, FilesCurrent
<1>2. attached = call.witnesses
  BY <1>1 DEF FilesCurrent
<1>3. dir' = [dir EXCEPT !.sig = Signed(dir.raw, attached)]
  OBVIOUS
<1> HIDE DEF attached
<1>4. dir' = [dir EXCEPT !.sig = Signed(call.txRaw, call.witnesses)]
  BY <1>1, <1>2, <1>3
<1>5. FilesOK'
  BY <1>4 DEF FilesOK
<1>6. CASE noisy
  BY <1>5, <1>6, FailureInv
<1>7. CASE ~noisy
  <2>1. CallOK'
    BY <1>7 DEF CallOK, Goto
  <2>2. FilesCurrent'
    BY <1>4, <1>7 DEF FilesCurrent, FilesOK, Goto
  <2> QED BY <1>5, <1>7, <2>1, <2>2, GotoInv
<1> QED BY <1>6, <1>7

\* What is read back is what this call has assembled.
LEMMA ReadSignedInv == ASSUME Inv, ReadSigned PROVE Inv'
<1>1. call.op = "assemble" /\ dir.sig = Signed(call.txRaw, call.witnesses)
  BY DEF Inv, ReadSigned, FilesCurrent, CallOK
<1>2. Return(Ok(dir.sig)) /\ UNCHANGED dir
  BY DEF ReadSigned
<1>3. UNCHANGED <<b, call>> /\ ret' = Ok(dir.sig)
  BY <1>2 DEF Return
<1>4. Results'
  <2>1. AssembledIsGiven'
    BY <1>1, <1>3 DEF AssembledIsGiven, Ok, Signed
  <2> QED BY <1>1, <1>3, <2>1 DEF Results, FeeIsCurrent, BuiltIsCurrent
<1> QED BY <1>2, <1>4, ResultInv

\* Every step of a running call keeps the invariant.
LEMMA OperationStepInv == ASSUME Inv, OperationStep PROVE Inv'
<1>1. CASE StepFails
  <2>1. FilesOK'
    BY <1>1 DEF StepFails, Inv, FilesOK
  <2> QED BY <1>1, <2>1, FailureInv DEF StepFails
<1>2. CASE ~StepFails
  BY <1>2, WriteParamsInv, WriteMetadataInv, WritePoliciesInv, RunBuildRawInv,
     RunCalculateMinFeeInv, ReadDraftInv, RunTxIdInv, WriteWitnessesInv, WriteRawInv,
     RunAssembleInv, ReadSignedInv DEF OperationStep
<1> QED BY <1>1, <1>2

\* Every step keeps the invariant.
LEMMA NextInv == ASSUME Inv, [Next]_vars PROVE Inv'
<1>1. CASE \E t \in AfterOneCall(b) :
            Len(t.inputs) <= MaxInputs /\ Len(t.outputs) <= MaxInputs /\ Configure(t)
  BY <1>1, OneCall, ConfigureInv DEF Inv, FieldsOK
<1>2. CASE \E w \in {0, 1} : CalculateFee(w)
  BY <1>2, OperationInv DEF CalculateFee
<1>3. CASE Build
  BY <1>3, OperationInv DEF Build
<1>4. CASE \E tx \in Signable, ws \in Lists(Witnesses) : AssembleTxWitnesses(tx, ws)
  <2> PICK tx \in Signable, ws \in Lists(Witnesses) : AssembleTxWitnesses(tx, ws)
    BY <1>4
  <2>1. ws \in Seq(Witnesses)
    BY ListsAreSequences
  <2> QED BY <2>1, OperationInv DEF AssembleTxWitnesses
<1>5. CASE Dispose
  BY <1>5, DisposeInv
<1>6. CASE OperationStep
  BY <1>6, OperationStepInv
<1>7. CASE UNCHANGED vars
  BY <1>7 DEF vars, Inv, FieldsOK, FilesOK, CallOK, FilesCurrent, Results,
              BuiltIsCurrent, FeeIsCurrent, AssembledIsGiven
<1> QED BY <1>1, <1>2, <1>3, <1>4, <1>5, <1>6, <1>7 DEF Next

\* The invariant holds throughout.
LEMMA Invariance == Spec => []Inv
<1>1. Init => Inv
  BY InitInv
<1>2. Inv /\ [Next]_vars => Inv'
  BY NextInv
<1> QED BY <1>1, <1>2, PTL DEF Spec

(* ------------------------------- theorems -------------------------------- *)

\* The builder's fields, its files and the running call are well typed
\* (transaction.go:40-64).
THEOREM TypeCorrect == Spec => []TypeOK
<1>1. Inv => TypeOK
  BY DEF Inv, FieldsOK, FilesOK, CallOK, Builders, TypeOK, BuilderTypeOK
<1> QED BY <1>1, Invariance, PTL

\* Build returns the transaction of the present fields, for every number of
\* inputs, outputs, scripts and calls (transaction.go:211-245, 269-312).
THEOREM BuiltCurrent == Spec => []BuiltIsCurrent
<1>1. Inv => BuiltIsCurrent
  BY DEF Inv, Results
<1> QED BY <1>1, Invariance, PTL

\* CalculateFee asks about the present transaction (transaction.go:169-209).
THEOREM FeeCurrent == Spec => []FeeIsCurrent
<1>1. Inv => FeeIsCurrent
  BY DEF Inv, Results
<1> QED BY <1>1, Invariance, PTL

\* AssembleTxWitnesses returns the body and the witnesses that it was given
\* (transaction.go:315-361).
THEOREM AssembledGiven == Spec => []AssembledIsGiven
<1>1. Inv => AssembledIsGiven
  BY DEF Inv, Results
<1> QED BY <1>1, Invariance, PTL

(* ---------------------- the contract is implemented ---------------------- *)

\* What a running call has checked before it writes its first file.
Checked ==
    /\ pc \notin {"idle", "start"} => dir.exists
    /\ pc # "idle" /\ call.op = "build" => CheckOutputs(b)
    /\ pc \in {"min-fee", "read-draft", "txid"} => b.inputs # <<>>

\* Every step keeps what was checked.
LEMMA CheckedNext == ASSUME Inv, Checked, [Next]_vars PROVE Checked'
<1> USE DEF Checked
<1>1. CASE \E t \in AfterOneCall(b) :
            Len(t.inputs) <= MaxInputs /\ Len(t.outputs) <= MaxInputs /\ Configure(t)
  BY <1>1 DEF Configure, Start
<1>2. CASE \E w \in {0, 1} : CalculateFee(w)
  BY <1>2 DEF CalculateFee, Operation, Start
<1>3. CASE Build
  <2>1. pc' \in {"idle", "start"} /\ b' = b /\ (pc' # "idle" => CheckOutputs(b))
    BY <1>3 DEF Build, Operation, Start
  <2> QED BY <2>1 DEF CheckOutputs
<1>4. CASE \E tx \in Signable, ws \in Lists(Witnesses) : AssembleTxWitnesses(tx, ws)
  BY <1>4 DEF AssembleTxWitnesses, Operation, Start
<1>5. CASE Dispose
  BY <1>5 DEF Dispose, Start
<1>6. CASE OperationStep
  <2>1. CheckOutputs(b) /\ UNCHANGED b => CheckOutputs(b)'
    BY DEF CheckOutputs
  <2>2. CASE StepFails \/ RunCalculateMinFee \/ RunTxId \/ ReadSigned
    BY <2>2 DEF StepFails, RunCalculateMinFee, RunTxId, ReadSigned, Return
  <2>3. CASE pc' = "idle" /\ UNCHANGED <<b, call>>
    BY <2>3
  <2>4. CASE WriteParams
    BY <2>1, <2>4 DEF WriteParams, Writable, Goto, Inv, FilesOK
  <2>5. CASE WriteMetadata
    BY <2>1, <2>5 DEF WriteMetadata, Writable, Goto, Inv, FilesOK
  <2>6. CASE \E n \in 0..Len(b.inputs) : WritePolicies(n)
    BY <2>1, <2>6 DEF WritePolicies, Writable, Goto, Return, Inv, FilesOK
  <2>7. CASE \E noisy \in BOOLEAN : RunBuildRaw(noisy)
    BY <2>1, <2>7 DEF RunBuildRaw, Writable, Goto, Return, Inv, FilesOK
  <2>8. CASE ReadDraft
    BY <2>1, <2>8 DEF ReadDraft, Writable, Goto, Inv, FilesOK
  <2>9. CASE \E n \in 0..MaxInputs : WriteWitnesses(n)
    BY <2>1, <2>9 DEF WriteWitnesses, Writable, Goto, Return, Inv, FilesOK
  <2>10. CASE WriteRaw
    BY <2>1, <2>10 DEF WriteRaw, Writable, Goto, Inv, FilesOK
  <2>11. CASE \E noisy \in BOOLEAN : RunAssemble(noisy)
    BY <2>1, <2>11 DEF RunAssemble, Writable, Goto, Return, Inv, FilesOK
  <2> QED BY <1>6, <2>2, <2>4, <2>5, <2>6, <2>7, <2>8, <2>9, <2>10, <2>11 DEF OperationStep
<1>7. CASE UNCHANGED vars
  BY <1>7 DEF vars, CheckOutputs
<1> QED BY <1>1, <1>2, <1>3, <1>4, <1>5, <1>6, <1>7 DEF Next

\* Both sides of the refinement speak of the same parts.
LEMMA SameParts ==
    /\ Contract!NewTxBuilder = NewTxBuilder /\ Contract!NoCall = NoCall /\ Contract!Err = Err
    /\ \A v : Contract!Ok(v) = Ok(v)
    /\ \A t : Contract!AfterOneCall(t) = AfterOneCall(t)
    /\ \A t, f : Contract!Described(t, f) = Described(t, f)
    /\ \A tx : Contract!TxId(tx) = TxId(tx)
    /\ \A tx, ws : Contract!Signed(tx, ws) = Signed(tx, ws)
    /\ \A m : Contract!MagicArgs(m) = MagicArgs(m)
    /\ \A body, i, o, w, p, n :
            Contract!MinFee(body, i, o, w, p, n) = MinFee(body, i, o, w, p, n)
    /\ \A t, w : Contract!WitnessCount(t, w) = WitnessCount(t, w)
<1>1. /\ Contract!NewTxBuilder = NewTxBuilder /\ Contract!NoCall = NoCall
      /\ Contract!Err = Err /\ \A v : Contract!Ok(v) = Ok(v)
  BY DEF Contract!NewTxBuilder, NewTxBuilder, Contract!NoCall, NoCall, Contract!Err, Err,
     Contract!Ok, Ok
<1>2. \A t : Contract!AfterOneCall(t) = AfterOneCall(t)
  BY DEF Contract!AfterOneCall, AfterOneCall, Contract!SetTestNetMagic, SetTestNetMagic,
     Contract!SetFee, SetFee, Contract!SetMinOutputAmount, SetMinOutputAmount,
     Contract!SetMetaData, SetMetaData, Contract!SetProtocolParameters,
     SetProtocolParameters, Contract!SetTimeToLive, SetTimeToLive, Contract!AddInputs,
     AddInputs, Contract!AddInputsWithScript, AddInputsWithScript,
     Contract!AddInputsWithScripts, AddInputsWithScripts, Contract!AddOutputs, AddOutputs,
     Contract!UpdateOutputAmount, UpdateOutputAmount, Contract!RemoveOutput, RemoveOutput,
     Contract!Position, Position, Contract!RemoveAt, RemoveAt, Contract!Fresh, Fresh,
     Contract!Lists, Lists
<1>3. /\ \A t, f : Contract!Described(t, f) = Described(t, f)
      /\ \A tx : Contract!TxId(tx) = TxId(tx)
      /\ \A tx, ws : Contract!Signed(tx, ws) = Signed(tx, ws)
  BY DEF Contract!Described, Described, Contract!TxId, TxId, Contract!Signed, Signed
<1>4. /\ \A m : Contract!MagicArgs(m) = MagicArgs(m)
      /\ \A body, i, o, w, p, n :
            Contract!MinFee(body, i, o, w, p, n) = MinFee(body, i, o, w, p, n)
  BY DEF Contract!MagicArgs, MagicArgs, Contract!MinFee, MinFee
<1>5. \A t, w : Contract!WitnessCount(t, w) = WitnessCount(t, w)
  BY DEF Contract!WitnessCount, WitnessCount, Contract!FoldLeft, FoldLeft,
     Contract!MapThenFoldSet, MapThenFoldSet, Contract!Max, Max
<1> QED BY <1>1, <1>2, <1>3, <1>4, <1>5

\* A call that returns a result has checked what the contract asks for, and
\* returns what it says.
LEMMA EndIsPossible ==
    ASSUME Inv, Inv', Checked, NEW v, pc \in {"min-fee", "txid", "read-sig"}, Return(Ok(v)),
           UNCHANGED dir,
           call.op = "build" => v = [txRaw |-> Described(b, b.fee),
                                     txHash |-> TxId(Described(b, b.fee))]
    PROVE  Contract!End
<1>1. UNCHANGED <<b, call>> /\ ret' = Ok(v) /\ pc' = "idle" /\ ret'.ok /\ ret'.value = v
  BY DEF Return, Ok
<1>2. Contract!Possible
  <2>1. /\ dir.exists
        /\ call.op \in {"fee", "build"} => b.params # Nil /\ b.inputs # <<>>
        /\ call.op = "build" => CheckOutputs(b)
    BY DEF Checked, Inv, CallOK
  <2> QED BY <2>1 DEF Contract!Possible, CheckOutputs
<1>3. v = Contract!Result
  <2>1. call.op \in {"fee", "build", "assemble"}
    BY DEF Inv, CallOK
  <2>2. FeeIsCurrent' /\ AssembledIsGiven'
    BY DEF Inv, Results
  <2> QED BY <1>1, <2>1, <2>2, SameParts DEF FeeIsCurrent, AssembledIsGiven, Contract!Result
<1> QED BY <1>1, <1>2, <1>3, SameParts DEF Contract!End

\* Every step of a running call is an end of it, or changes nothing that the
\* contract knows of.
LEMMA StepImplements ==
    ASSUME Inv, Inv', Checked, OperationStep
    PROVE  [Contract!Next]_(Contract!vars)
<1>1. CASE pc # "idle" /\ Return(Err) /\ dir'.exists = dir.exists
  BY <1>1, SameParts DEF Return, Contract!Next, Contract!End
<1>2. CASE \E label : pc # "idle" /\ label # "idle" /\ Goto(label) /\ dir'.exists = dir.exists
  BY <1>2 DEF Goto, Contract!vars
<1>3. CASE StepFails
  BY <1>1, <1>3 DEF StepFails
<1>4. CASE WriteParams
  <2>1. pc # "idle" /\ Goto("metadata") /\ dir'.exists = dir.exists
    BY <1>4 DEF WriteParams, Writable, Inv, FilesOK
  <2> QED BY <1>2, <2>1
<1>5. CASE WriteMetadata
  <2>1. pc # "idle" /\ Goto("policies") /\ dir'.exists = dir.exists
    BY <1>5 DEF WriteMetadata, Writable, Inv, FilesOK
  <2> QED BY <1>2, <2>1
<1>6. CASE \E n \in 0..Len(b.inputs) : WritePolicies(n)
  <2>1. /\ pc # "idle" /\ dir'.exists = dir.exists
        /\ Goto("build-raw") \/ Return(Err)
    BY <1>6 DEF WritePolicies, Writable, Inv, FilesOK
  <2> QED BY <1>1, <1>2, <2>1
<1>7. CASE \E noisy \in BOOLEAN : RunBuildRaw(noisy)
  <2>1. /\ pc # "idle" /\ dir'.exists = dir.exists
        /\ Goto("min-fee") \/ Goto("read-draft") \/ Return(Err)
    BY <1>7 DEF RunBuildRaw, Writable, Inv, FilesOK
  <2> QED BY <1>1, <1>2, <2>1
<1>8. CASE ReadDraft
  <2>1. pc # "idle" /\ Goto("txid") /\ dir'.exists = dir.exists
    BY <1>8 DEF ReadDraft, Writable, Inv, FilesOK
  <2> QED BY <1>2, <2>1
<1>9. CASE \E n \in 0..MaxInputs : WriteWitnesses(n)
  <2>1. /\ pc # "idle" /\ dir'.exists = dir.exists
        /\ Goto("raw") \/ Return(Err)
    BY <1>9 DEF WriteWitnesses, Writable, Inv, FilesOK
  <2> QED BY <1>1, <1>2, <2>1
<1>10. CASE WriteRaw
  <2>1. pc # "idle" /\ Goto("assemble") /\ dir'.exists = dir.exists
    BY <1>10 DEF WriteRaw, Writable, Inv, FilesOK
  <2> QED BY <1>2, <2>1
<1>11. CASE \E noisy \in BOOLEAN : RunAssemble(noisy)
  <2>1. /\ pc # "idle" /\ dir'.exists = dir.exists
        /\ Goto("read-sig") \/ Return(Err)
    BY <1>11 DEF RunAssemble, Writable, Inv, FilesOK
  <2> QED BY <1>1, <1>2, <2>1
<1>12. CASE RunCalculateMinFee
  <2>1. pc = "min-fee" /\ call.op = "fee" /\ UNCHANGED dir
    BY <1>12 DEF RunCalculateMinFee, Inv, CallOK
  <2> QED BY <1>12, <2>1, EndIsPossible DEF RunCalculateMinFee, Contract!Next
<1>13. CASE RunTxId
  <2>1. dir.draft = Described(b, b.fee) /\ dir.tmp = dir.draft /\ pc = "txid"
    BY <1>13 DEF RunTxId, Inv, FilesCurrent
  <2> QED BY <1>13, <2>1, EndIsPossible DEF RunTxId, Contract!Next
<1>14. CASE ReadSigned
  <2>1. pc = "read-sig" /\ call.op = "assemble" /\ UNCHANGED dir
    BY <1>14 DEF ReadSigned, Inv, CallOK
  <2> QED BY <1>14, <2>1, EndIsPossible DEF ReadSigned, Contract!Next
<1> QED BY <1>3, <1>4, <1>5, <1>6, <1>7, <1>8, <1>9, <1>10, <1>11, <1>12, <1>13, <1>14
        DEF OperationStep

\* The builder with its directory and the steps of its calls implements the one
\* without: for every sequence of calls, a call returns an error or what follows
\* from the fields and its arguments (transaction.go:169-361).
THEOREM Implements == Spec => ContractSpec
<1>1. Init => Contract!Init /\ Checked
  BY SameParts DEF Init, EmptyDir, Contract!Init, Checked
<1>2. Inv /\ Checked /\ [Next]_vars => Checked'
  BY CheckedNext
<1>3. Inv /\ Inv' /\ Checked /\ [Next]_vars => [Contract!Next]_(Contract!vars)
  <2> SUFFICES ASSUME Inv, Inv', Checked, [Next]_vars
               PROVE  [Contract!Next]_(Contract!vars)
    OBVIOUS
  <2>1. CASE \E t \in AfterOneCall(b) :
            Len(t.inputs) <= MaxInputs /\ Len(t.outputs) <= MaxInputs /\ Configure(t)
    BY <2>1, SameParts DEF Configure, Start, Contract!Change, Contract!Next
  <2>2. CASE \E w \in {0, 1} : CalculateFee(w)
    BY <2>2, SameParts DEF CalculateFee, Operation, Start, Contract!Begin, Contract!Next
  <2>3. CASE Build
    BY <2>3, SameParts DEF Build, Operation, Start, Contract!Begin, Contract!Next
  <2>4. CASE \E tx \in Signable, ws \in Lists(Witnesses) : AssembleTxWitnesses(tx, ws)
    BY <2>4, SameParts DEF AssembleTxWitnesses, Operation, Start, Contract!Begin, Contract!Next
  <2>5. CASE Dispose
    BY <2>5, SameParts DEF Dispose, Start, EmptyDir, Contract!Discard, Contract!Next
  <2>6. CASE OperationStep
    BY <2>6, StepImplements
  <2>7. CASE UNCHANGED vars
    BY <2>7 DEF vars, Contract!vars
  <2> QED BY <2>1, <2>2, <2>3, <2>4, <2>5, <2>6, <2>7 DEF Next
<1> QED BY <1>1, <1>2, <1>3, Invariance, PTL DEF Spec, ContractSpec, Contract!Spec
=============================================================================
