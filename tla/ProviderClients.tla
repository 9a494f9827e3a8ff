-------------------------- MODULE ProviderClients --------------------------
(* What the program does with the providers' answers: GetUTXOsForAmount and  *)
(* SetProtocolParametersAndTTL (core/transaction_extended.go), SubmitTx, and *)
(* WaitForTxHashInUtxos and WaitForTransaction (core/utils.go).  One of them *)
(* runs, on one provider, while the chain moves.  The selection is           *)
(* UtxoSelection, the polling is RetryLoop.                                  *)
EXTENDS Providers, UtxoSelection

CONSTANTS
    NumRetries, \* polls of a wait
    TTLInc,     \* timeToLiveInc
    Genesis     \* the amounts that the address may hold to begin with

ASSUME ClientsAssumption ==
    /\ NumRetries \in Nat /\ TTLInc \in Nat
    /\ \A as \in Genesis : as \in Seq(Nat) /\ Total(as) + 10 < Word

Operations == {"select", "configure", "submit", "waitHash", "waitTx"}

VARIABLES
    op,         \* the operation
    stage,      \* "start", "running" or "done"
    params,     \* the protocol parameters and
    ttl,        \* the time to live that were set, {} before
    asked,      \* history: the moments of the call for the parameters
    res,        \* WaitForTransaction's res
    pc, count, reply, timer, ctxDone, result, answers, waits

clientVars == <<op, stage, params, ttl, asked, res>>
loopVars   == <<pc, count, reply, timer, ctxDone, result, answers, waits>>
vars       == <<providerVars, selectVars, clientVars, loopVars>>

\* A call that a cancelled context ends is one that AnswerFails.  Errors are
\* recoverable or not, as the caller's predicate has it.
Wait == INSTANCE RetryLoop WITH HasRecoverFn <- TRUE, HonoursCtx <- TRUE

\* The n-th UTxO of the address; every second one holds a token as well.
GenesisUtxo(n, amount) ==
    [tx |-> n, index |-> n % 2, lovelace |-> amount, token |-> n % 2]

GenesisMoment(as) ==
    [held |-> [n \in DOMAIN as |-> GenesisUtxo(n, as[n])], txs |-> DOMAIN as,
     epoch |-> 1, height |-> 1, slot |-> 1, hash |-> 0]

\* TxProviderCli's SubmitTx is CliSubmit's.
Init ==
    /\ provider \in Kinds /\ op \in Operations
    /\ op = "submit" => provider # "cli"
    /\ \E as \in Genesis : chain = <<GenesisMoment(as)>> /\ seen = <<GenesisMoment(as)>>
    /\ op # "select" => Len(Now.held) < 2
    /\ events = 0 /\ taken = FALSE /\ whole = TRUE
    /\ method = "none" /\ response = None /\ height = 0 /\ got = None
    /\ SelectInit
    /\ op # "select" => bounds = CHOOSE bd \in Bounds : TRUE
    /\ stage = "start" /\ params = {} /\ ttl = {} /\ asked = seen /\ res = {}
    /\ Wait!Init

(* ------------------------- one call, then its use ------------------------ *)

Start ==
    /\ stage = "start" /\ op \in {"select", "configure", "submit"}
    /\ Call([select |-> "GetUtxos", configure |-> "GetProtocolParameters",
             submit |-> "SubmitTx"][op])
    /\ stage' = "running"
    /\ UNCHANGED <<selectVars, op, params, asked, ttl, res, loopVars>>

\* The method has returned.
Back(o, status) == stage = "running" /\ op = o /\ method = "none" /\ got.status = status

Selecting ==
    /\ stage = "running" /\ op = "select"
    /\ \/ Back("select", "nil") /\ GetUtxos(got.value)
       \/ Back("select", "err") /\ GetUtxosFails
       \/ Take \/ NotEnough
    /\ stage' = IF outcome' \in {"ok", "poor", "err"} THEN "done" ELSE "running"
    /\ UNCHANGED <<providerVars, op, params, asked, ttl, res, loopVars>>

\* The parameters are kept until the tip is there.
HaveParams ==
    /\ Back("configure", "nil") /\ params = {}
    /\ params' = {got.value} /\ asked' = seen
    /\ Call(IF provider = "ogmios" THEN "GetHeight" ELSE "GetTip")
    /\ UNCHANGED <<selectVars, op, stage, ttl, res, loopVars>>

\* Mutant: the block's number counts as its slot.
HaveTipOfBlock ==
    /\ Back("configure", "nil") /\ params # {}
    /\ ttl' = {got.value.block + TTLInc}
    /\ stage' = "done"
    /\ UNCHANGED <<providerVars, selectVars, op, params, asked, res, loopVars>>

HaveTip ==
    /\ Back("configure", "nil") /\ params # {}
    /\ ttl' = {got.value.slot + TTLInc}
    /\ stage' = "done"
    /\ UNCHANGED <<providerVars, selectVars, op, params, asked, res, loopVars>>

Submitted ==
    /\ Back("submit", "nil")
    /\ stage' = "done"
    /\ UNCHANGED <<providerVars, selectVars, op, params, asked, ttl, res, loopVars>>

\* An error is returned, a panic ends the program.
GivesUp ==
    /\ \/ op \in {"configure", "submit"} /\ Back(op, "err")
       \/ stage = "running" /\ method = "none" /\ got.status = "panic"
    /\ stage' = "done"
    /\ UNCHANGED <<providerVars, selectVars, op, params, asked, ttl, res, loopVars>>

(* -------------------------------- waits ---------------------------------- *)

Invoke ==
    /\ stage = "start" /\ op \in {"waitHash", "waitTx"}
    /\ Wait!Invoke
    /\ stage' = "running"
    /\ UNCHANGED <<providerVars, selectVars, op, params, asked, ttl, res, ctxDone>>

\* executeFn begins; an answer of an earlier poll is not looked at again.
Poll ==
    /\ pc = "call" /\ reply = "none"
    /\ Call(IF op = "waitHash" THEN "GetUtxos" ELSE "GetTxByHash")
    /\ UNCHANGED <<selectVars, clientVars, loopVars>>

\* The closure's use of what has come back; got is looked at once.
PollBack(a) ==
    /\ pc = "call" /\ reply = "none" /\ method = "none"
    /\ Wait!Answer(a)
    /\ got' = None
    /\ UNCHANGED <<provider, chainVars, method, response, height, seen, whole, selectVars,
                   op, stage, params, ttl, asked, ctxDone>>

PollFails ==
    /\ got.status = "err"
    /\ \E a \in {"soft", "hard"} : PollBack(a)
    /\ res' = {}

\* Mutant: the last UTxO decides.
HashListedLast == got.value # <<>> /\ Last(got.value).tx = Target

\* The loop over the UTxOs of WaitForTxHashInUtxos.
HashListed == \E i \in DOMAIN got.value : got.value[i].tx = Target

PollUtxos ==
    /\ op = "waitHash" /\ got.status = "nil"
    /\ PollBack(IF HashListed THEN "stop" ELSE "again")
    /\ UNCHANGED res

\* Mutants: the closure's res is a variable of its own; any answer is enough.
PollTxShadowing ==
    /\ op = "waitTx" /\ got.status = "nil"
    /\ PollBack(IF got.value = {} THEN "again" ELSE "stop")
    /\ UNCHANGED res

PollTxAny ==
    /\ op = "waitTx" /\ got.status = "nil"
    /\ PollBack("stop")
    /\ res' = got.value

\* res, err = txRetriever.GetTxByHash(...)
PollTx ==
    /\ op = "waitTx" /\ got.status = "nil"
    /\ PollBack(IF got.value = {} THEN "again" ELSE "stop")
    /\ res' = got.value

LoopStep ==
    /\ stage = "running" /\ (Wait!LoopStep \/ Wait!FireTimer)
    /\ stage' = IF pc' = "idle" THEN "done" ELSE "running"
    /\ UNCHANGED <<providerVars, selectVars, op, params, asked, ttl, res, ctxDone>>

CancelCtx ==
    /\ stage = "running" /\ pc # "idle"
    /\ Wait!CancelCtx
    /\ UNCHANGED <<providerVars, selectVars, clientVars>>

Client ==
    \/ Start \/ Selecting \/ HaveParams \/ HaveTip \/ Submitted \/ GivesUp
    \/ Invoke \/ Poll \/ PollFails \/ PollUtxos \/ PollTx \/ LoopStep \/ CancelCtx

Next ==
    \/ Client
    \/ (MethodStep \/ Answer) /\ UNCHANGED <<selectVars, clientVars, loopVars>>
    \/ stage = "running" /\ ChainStep /\ UNCHANGED <<selectVars, clientVars, loopVars>>

Spec == Init /\ [][Next]_vars

(* ------------------------------ properties ------------------------------- *)

\* A UTxO of the list is one that the address holds, hash, index and amount; of
\* an incomplete entry it has no more than that, and no amount.
Stands(u, o) ==
    \/ u = Utxo(o.tx, o.index, o.lovelace)
    \/ ~whole /\ u \in {Utxo(o.tx, o.index, 0), Utxo(Absent, 0, 0)}

\* The list that GetUtxos returns shows the address at one moment of the call:
\* every UTxO once and with its own amount, from Blockfrost the oldest page of
\* them.  A server that does not answer as it should (an error in the place of
\* the result, a 404, an incomplete entry) can make the list empty or leave out
\* an amount, it never makes an address richer (txprovider_blockfrost.go:82-119,
\* txprovider_cli.go:66-102, txprovider_ogmios.go:138-147, 203-211).
ListIsOfOneMoment ==
    op = "select" /\ outcome \notin {"query", "err"} =>
        \E i \in DOMAIN seen : \E held \in Orders(Listed(seen[i].held)) :
            \/ utxos = <<>> /\ ~whole
            \/ Len(utxos) = Len(held) /\ \A k \in DOMAIN held : Stands(utxos[k], held[k])

Worth(held) == Total([i \in DOMAIN held |-> held[i].lovelace])

\* Behind a server that answered as it should, "not enough funds" is said only
\* of an address that was worth less than what was asked for at some moment of
\* the call, or that holds more UTxOs than a page of Blockfrost
\* (transaction_extended.go:68).
RefusesOnlyThePoor ==
    outcome = "poor" /\ whole =>
        \E i \in DOMAIN seen :
            \/ Worth(seen[i].held) < bounds[2]
            \/ provider = "blockfrost" /\ Len(seen[i].held) > PageSize

\* "Loop through utxos to find first input with enough tokens.  If we don't have
\* this UTXO we need to use more of them" (transaction_extended.go:45-46).
OneInputIfEnough ==
    outcome = "ok" /\ (\E i \in DOMAIN utxos : Meets(utxos[i].amount, bounds)) => chosen = 1

\* The tip is the chain's during the call, slot and hash of one block.  The
\* height, which Ogmios is asked for first, belongs to that block or to the tip
\* of an earlier moment of the call (txprovider_ogmios.go:95-121).  An error in
\* the place of Ogmios's result counts as the tip 0.
TipIsOfTheCall ==
    method = "none" /\ op = "configure" /\ params # {} /\ got.status = "nil" /\ whole =>
        \E i, j \in DOMAIN seen :
            /\ i <= j /\ (provider # "ogmios" => i = j)
            /\ got.value.block = seen[i].height
            /\ got.value.slot = seen[j].slot /\ got.value.hash = seen[j].hash

\* What the builder is given: parameters of a moment of the first call, their
\* numbers those of one epoch, cost models only from cardano-cli; and the time
\* to live behind the slot of a moment of the second call, which came later.  Of
\* an error in the place of Ogmios's result nothing is known
\* (transaction_extended.go:17-33, txprovider_blockfrost.go:227-276).
ConfiguredInOrder ==
    ttl # {} =>
        /\ \E i \in DOMAIN asked : \A ps \in params :
            \/ /\ ps.numbers = asked[i].epoch
               /\ ps.texts \in {asked[i].epoch} \cup (IF provider = "cli" THEN {} ELSE {0})
               /\ ps.costModels = IF provider = "cli" THEN asked[i].epoch ELSE 0
            \/ provider = "ogmios" /\ ps = [numbers |-> 0, texts |-> 0, costModels |-> 0]
        /\ whole => \E j \in DOMAIN seen : ttl = {seen[j].slot + TTLInc}

\* SubmitTx over HTTP returns nil only if the node has taken the transaction,
\* wherever the provider puts a rejection (txprovider_ogmios.go:164-172).
SubmittedIsTaken == op = "submit" /\ got.status = "nil" => taken

\* A wait that returns nil has seen the transaction: it was on chain, or its
\* output unspent, at a moment of the last poll (utils.go:43-76).
WaitedForWasThere ==
    result = "nil" =>
        \E i \in DOMAIN seen :
            /\ Target \in seen[i].txs
            /\ op = "waitHash" => \E o \in ToSet(seen[i].held) : o.tx = Target

\* A wait that times out behind a server's right answer was too early: at a
\* moment of the last poll the transaction was not on chain; its output, if it
\* is the output that is waited for, may also have been spent or be on a later
\* page (utils.go:48-61, 69-73).
TimeoutIsHonest ==
    result = "timeout" /\ answers # <<>> /\ Last(answers) = "again" /\ whole =>
        \E i \in DOMAIN seen :
            \/ Target \notin seen[i].txs
            \/ op = "waitHash" /\ Target \notin {o.tx : o \in ToSet(Listed(seen[i].held))}

\* "WaitForTransaction waits for transaction to be included in block": res and
\* err are never both set or both nil (utils.go:64-76).
ResultOrErr == op = "waitTx" /\ result # "none" => (res # {} <=> result = "nil")
=============================================================================
