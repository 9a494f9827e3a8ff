----------------------------- MODULE TxBuilder -----------------------------
(* core/transaction.go: TxBuilder collects the parts of a transaction in     *)
(* memory (TxParts) and lets cardano-cli make the transaction, hash, fee and *)
(* the signed transaction out of files in a temporary directory of its own.  *)
(*                                                                           *)
(* What the builder hands over is symbolic: a transaction is the record of   *)
(* what cardano-cli was given, a fee the record of what it was computed      *)
(* from.  So the properties can ask whether a result is made of the          *)
(* builder's present fields or of something that an earlier or failed call   *)
(* left in the directory.                                                    *)
EXTENDS TxParts

CONSTANTS
    NoFile,         \* the content of a file that does not exist
    MaxInputs,      \* bound: inputs and outputs of a builder
    MaxCalls        \* bound: calls made on a builder

ASSUME BuilderAssumption ==
    MaxInputs \in Nat /\ MaxCalls \in Nat

VARIABLES
    b,      \* the builder's fields
    dir,    \* the files of baseDirectory
    pc,     \* where the running call is; "idle" between calls
    call,   \* the running or last call and its arguments
    ret,    \* what the last call returned
    calls   \* calls made so far

vars == <<b, dir, pc, call, ret, calls>>

(* ------------------------------ the directory ---------------------------- *)

EmptyDir ==
    [exists |-> TRUE, params |-> NoFile, metadata |-> NoFile,
     policy |-> [i \in 1..MaxInputs |-> NoFile], draft |-> NoFile,
     tmp |-> NoFile, witness |-> [i \in 1..MaxInputs |-> NoFile],
     raw |-> NoFile, sig |-> NoFile]

\* os.WriteFile fails when the directory is gone, and may fail otherwise.
Writable(new) == dir.exists /\ dir' = new

(* --------------------------- what cardano-cli does ----------------------- *)

\* build-raw with the arguments of buildRawTx: scripts and metadata are what
\* the files named there hold.
Drafted(fee) ==
    [ins  |-> [i \in DOMAIN b.inputs |->
                [in |-> b.inputs[i].in,
                 script |-> IF b.inputs[i].script = NoScript
                            THEN NoScript ELSE dir.policy[i]]],
     outs |-> b.outputs,
     fee  |-> fee,
     ttl  |-> b.ttl,
     meta |-> IF b.metadata = Nil THEN Nil ELSE dir.metadata]

(* ------------------------------- the calls ------------------------------- *)

Init ==
    /\ b = NewTxBuilder
    /\ dir = EmptyDir
    /\ pc = "idle"
    /\ call = NoCall
    /\ ret = Err
    /\ calls = 0

Start(c) ==
    /\ pc = "idle" /\ calls < MaxCalls
    /\ call' = c
    /\ calls' = calls + 1

Return(r) ==
    /\ pc' = "idle"
    /\ ret' = r
    /\ UNCHANGED <<b, call, calls>>

Goto(label) ==
    /\ pc' = label
    /\ UNCHANGED <<b, call, calls, ret>>

\* A call that only changes fields; callers chain them.
Configure(t) ==
    /\ Start(NoCall)
    /\ b' = t
    /\ ret' = Err
    /\ UNCHANGED <<dir, pc>>

Dispose ==
    /\ Start(NoCall)
    /\ dir' = [EmptyDir EXCEPT !.exists = FALSE]
    /\ ret' = Err
    /\ UNCHANGED <<b, pc>>

\* An operation starts, or fails at once because of its first checks.
Operation(c, checks) ==
    /\ Start(c)
    /\ pc' = IF checks THEN "start" ELSE "idle"
    /\ ret' = Err
    /\ UNCHANGED <<b, dir>>

CalculateFee(witnessCount) ==
    Operation([op |-> "fee", witnessCount |-> witnessCount], b.params # Nil)

\* Mutant: the outputs are not checked.
BuildUnchecked == Operation([op |-> "build"], b.params # Nil)

Build == Operation([op |-> "build"], b.params # Nil /\ CheckOutputs(b))

AssembleTxWitnesses(txRaw, witnesses) ==
    Operation([op |-> "assemble", txRaw |-> txRaw, witnesses |-> witnesses], TRUE)

\* A write or a run of cardano-cli fails; every such error is returned.
StepFails == pc # "idle" /\ Return(Err) /\ UNCHANGED dir

\* Mutant: the parameters are written by the first operation only.
WriteParamsOnce ==
    /\ pc = "start" /\ call.op \in {"fee", "build"}
    /\ Writable(IF dir.params = NoFile THEN [dir EXCEPT !.params = b.params] ELSE dir)
    /\ Goto("metadata")

WriteParams ==
    /\ pc = "start" /\ call.op \in {"fee", "build"}
    /\ Writable([dir EXCEPT !.params = b.params])
    /\ Goto("metadata")

WriteMetadata ==
    /\ pc = "metadata"
    /\ Writable(IF b.metadata = Nil THEN dir ELSE [dir EXCEPT !.metadata = b.metadata])
    /\ Goto("policies")

\* The scripts are written one by one: n of them before the call goes on or
\* fails.
WritePolicies(n) ==
    /\ pc = "policies"
    /\ Writable([dir EXCEPT !.policy = [i \in DOMAIN @ |->
            IF i <= n /\ b.inputs[i].script # NoScript
            THEN b.inputs[i].script ELSE @[i]]])
    /\ IF n = Len(b.inputs) THEN Goto("build-raw") ELSE Return(Err)

BuildFee == IF call.op = "fee" THEN 0 ELSE b.fee

\* Mutant: the error of runCommand is dropped.
RunBuildRawUnchecked(noisy) ==
    /\ pc = "build-raw" /\ b.inputs # <<>>
    /\ Writable(IF noisy THEN dir ELSE [dir EXCEPT !.draft = Drafted(BuildFee)])
    /\ Goto(IF call.op = "fee" THEN "min-fee" ELSE "read-draft")

\* runCommand of build-raw: anything on stderr is an error, also when the
\* program has written its output file.
RunBuildRaw(noisy) ==
    /\ pc = "build-raw" /\ b.inputs # <<>>
    /\ Writable([dir EXCEPT !.draft = Drafted(BuildFee)])
    /\ IF noisy THEN Return(Err)
       ELSE Goto(IF call.op = "fee" THEN "min-fee" ELSE "read-draft")

RunCalculateMinFee ==
    /\ pc = "min-fee"
    /\ Return(Ok(MinFee(dir.draft, Len(b.inputs), Len(b.outputs),
                        WitnessCount(b, call.witnessCount), dir.params,
                        MagicArgs(b.magic))))
    /\ UNCHANGED dir

\* The draft is read and written again as tx.tmp for txid.
ReadDraft ==
    /\ pc = "read-draft"
    /\ Writable([dir EXCEPT !.tmp = dir.draft])
    /\ Goto("txid")

RunTxId ==
    /\ pc = "txid"
    /\ Return(Ok([txRaw |-> dir.draft, txHash |-> TxId(dir.tmp)]))
    /\ UNCHANGED dir

\* Mutant: a witness file that is already there is kept.
WriteWitnessesOnce(n) ==
    /\ pc = "start" /\ call.op = "assemble" /\ n <= Len(call.witnesses)
    /\ Writable([dir EXCEPT !.witness = [i \in DOMAIN @ |->
            IF i <= n /\ @[i] = NoFile THEN call.witnesses[i] ELSE @[i]]])
    /\ IF n = Len(call.witnesses) THEN Goto("raw") ELSE Return(Err)

\* The first n witnesses are written before the call goes on or fails.
WriteWitnesses(n) ==
    /\ pc = "start" /\ call.op = "assemble" /\ n <= Len(call.witnesses)
    /\ Writable([dir EXCEPT !.witness = [i \in DOMAIN @ |->
            IF i <= n THEN call.witnesses[i] ELSE @[i]]])
    /\ IF n = Len(call.witnesses) THEN Goto("raw") ELSE Return(Err)

WriteRaw ==
    /\ pc = "raw"
    /\ Writable([dir EXCEPT !.raw = call.txRaw])
    /\ Goto("assemble")

RunAssemble(noisy) ==
    /\ pc = "assemble"
    /\ Writable([dir EXCEPT !.sig = Signed(dir.raw,
            [i \in DOMAIN call.witnesses |-> dir.witness[i]])])
    /\ IF noisy THEN Return(Err) ELSE Goto("read-sig")

ReadSigned ==
    /\ pc = "read-sig"
    /\ Return(Ok(dir.sig))
    /\ UNCHANGED dir

OperationStep ==
    \/ WriteParams \/ WriteMetadata
    \/ \E n \in 0..Len(b.inputs) : WritePolicies(n)
    \/ \E noisy \in BOOLEAN : RunBuildRaw(noisy)
    \/ RunCalculateMinFee
    \/ ReadDraft \/ RunTxId
    \/ \E n \in 0..MaxInputs : WriteWitnesses(n)
    \/ WriteRaw
    \/ \E noisy \in BOOLEAN : RunAssemble(noisy)
    \/ ReadSigned
    \/ StepFails

\* Transactions a caller can have signed: the one just built, or the one it has
\* just tried to assemble.
Signable ==
    IF call.op = "build" /\ ret.ok THEN {ret.value.txRaw}
    ELSE IF call.op = "assemble" THEN {call.txRaw} ELSE {}

Next ==
    \/ \E t \in AfterOneCall(b) :
        Len(t.inputs) <= MaxInputs /\ Len(t.outputs) <= MaxInputs /\ Configure(t)
    \/ \E w \in {0, 1} : CalculateFee(w)
    \/ Build
    \/ \E tx \in Signable, ws \in Lists(Witnesses) : AssembleTxWitnesses(tx, ws)
    \/ Dispose
    \/ OperationStep

Spec == Init /\ [][Next]_vars

(* ------------------------------ properties ------------------------------- *)

BuilderTypeOK ==
    /\ b.inputs \in Seq([in : Inputs, script : Scripts \cup {NoScript}])
    /\ b.outputs \in Seq(Amounts)
    /\ b.metadata \in Metadata \cup {Nil}
    /\ b.params \in Params \cup {Nil}
    /\ b.ttl \in TTLs
    /\ b.minOutput \in Amounts
    /\ b.fee \in Amounts
    /\ b.magic \in Magics

\* Types of the builder's fields, of its files and of the running call.
TypeOK ==
    /\ BuilderTypeOK
    /\ dir.exists \in BOOLEAN
    /\ dir.params \in Params \cup {NoFile}
    /\ dir.metadata \in Metadata \cup {NoFile}
    /\ dir.policy \in [1..MaxInputs -> Scripts \cup {NoFile}]
    /\ dir.witness \in [1..MaxInputs -> Witnesses \cup {NoFile}]
    /\ pc \in {"idle", "start", "metadata", "policies", "build-raw", "min-fee",
               "read-draft", "txid", "raw", "assemble", "read-sig"}
    /\ call.op \in {"none", "fee", "build", "assemble"}
    /\ ret.ok \in BOOLEAN
    /\ calls \in 0..MaxCalls

\* What Build returns is the transaction of the builder's present fields, and
\* the hash is its hash: never the draft, the scripts or the metadata that an
\* earlier call, a failed write or a failed run of cardano-cli left in the
\* directory (transaction.go:211-245, 269-312).
BuiltIsCurrent ==
    ret.ok /\ call.op = "build" =>
        /\ ret.value.txRaw = Described(b, b.fee)
        /\ ret.value.txHash = TxId(ret.value.txRaw)

\* The fee is computed from the present shape of the transaction, under the
\* present protocol parameters and for the keys that have to sign it
\* (transaction.go:169-209).
FeeIsCurrent ==
    ret.ok /\ call.op = "fee" =>
        ret.value = MinFee(Described(b, 0), Len(b.inputs), Len(b.outputs),
                           WitnessCount(b, call.witnessCount), b.params,
                           MagicArgs(b.magic))

\* The signed transaction holds the body and exactly the witnesses that were
\* passed, in their order, whatever an earlier call wrote to the same files
\* (transaction.go:315-361).
AssembledIsGiven ==
    ret.ok /\ call.op = "assemble" => ret.value = Signed(call.txRaw, call.witnesses)

Contract == INSTANCE BuilderSpec WITH busy <- pc # "idle", disposed <- ~dir.exists

\* Without its files and the steps of its calls, the builder is a function from
\* its fields and a call's arguments to an error or a result.  No call changes
\* the fields, none succeeds without parameters and inputs, with an output below
\* the minimum, or behind Dispose (transaction.go:169-361).
ContractSpec == Contract!Spec
=============================================================================
