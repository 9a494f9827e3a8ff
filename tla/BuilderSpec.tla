---------------------------- MODULE BuilderSpec ----------------------------
(* What a caller of a TxBuilder (core/transaction.go) may rely on, with no   *)
(* directory and no runs of cardano-cli: a call returns an error, or what    *)
(* follows from the builder's fields and the call's arguments.               *)
EXTENDS TxParts

VARIABLES
    b,          \* the builder's fields
    disposed,   \* Dispose was called
    busy,       \* a call is running
    call,       \* the running or last call and its arguments
    ret         \* what the last call returned

vars == <<b, disposed, busy, call, ret>>

Init ==
    /\ b = NewTxBuilder
    /\ disposed = FALSE
    /\ busy = FALSE
    /\ call = NoCall
    /\ ret = Err

\* Fields change between calls of CalculateFee, Build and AssembleTxWitnesses.
Change ==
    /\ ~busy
    /\ b' \in AfterOneCall(b)
    /\ call' = NoCall /\ ret' = Err
    /\ UNCHANGED <<disposed, busy>>

Discard ==
    /\ ~busy
    /\ disposed' = TRUE
    /\ call' = NoCall /\ ret' = Err
    /\ UNCHANGED <<b, busy>>

\* The call may also fail at once.
Begin ==
    /\ ~busy
    /\ call'.op \in {"fee", "build", "assemble"} /\ ret' = Err
    /\ busy' \in BOOLEAN
    /\ UNCHANGED <<b, disposed>>

\* What has to be there: parameters, inputs, and outputs that are not too small.
Possible ==
    /\ ~disposed
    /\ call.op \in {"fee", "build"} => b.params # Nil /\ b.inputs # <<>>
    /\ call.op = "build" =>
        \A i \in DOMAIN b.outputs :
            b.outputs[i] >= (IF b.minOutput = 0 THEN MinUTxO ELSE b.minOutput)

Result ==
    CASE call.op = "fee" ->
            MinFee(Described(b, 0), Len(b.inputs), Len(b.outputs),
                   WitnessCount(b, call.witnessCount), b.params, MagicArgs(b.magic))
      [] call.op = "build" ->
            [txRaw |-> Described(b, b.fee), txHash |-> TxId(Described(b, b.fee))]
      [] call.op = "assemble" -> Signed(call.txRaw, call.witnesses)

End ==
    /\ busy
    /\ busy' = FALSE
    /\ ret' = Err \/ (Possible /\ ret' = Ok(Result))
    /\ UNCHANGED <<b, disposed, call>>

Next == Change \/ Discard \/ Begin \/ End

Spec == Init /\ [][Next]_vars
=============================================================================
