----------------------------- MODULE Providers -----------------------------
(* core/txprovider_blockfrost.go, txprovider_ogmios.go, txprovider_cli.go:   *)
(* the calls of the three ITxProviders.  A call is one request, or two, and  *)
(* the conversion of what comes back; the chain moves between the two.  The  *)
(* providers keep no state, so that one call under way is all there is.      *)
(*                                                                           *)
(* A moment of the chain is a record of the UTxOs that the queried address   *)
(* holds, oldest first, the transactions included so far, and the tip.       *)
(* Servers may also answer what the code does not expect: with an error in   *)
(* the place of a result, or with an entry that is incomplete.               *)
EXTENDS Integers, FiniteSets, Sequences, SequencesExt

CONSTANTS
    PageSize,   \* UTxOs in an answer of Blockfrost: 100
    Target,     \* the transaction that clients submit and wait for
    Epochs,     \* bound: the last epoch
    MaxEvents   \* bound: blocks and rollbacks

ASSUME ProvidersAssumption ==
    /\ PageSize \in Nat \ {0}
    /\ Target \in Nat
    /\ Epochs \in Nat \ {0}
    /\ MaxEvents \in Nat

Kinds == {"blockfrost", "ogmios", "cli"}

VARIABLES
    provider,   \* the kind of the provider
    chain,      \* the moments of the chain, the tip's is the last
    events,     \* blocks and rollbacks so far
    taken,      \* the node has taken Target from this program
    method,     \* the method that is running, "none" outside of calls
    response,   \* what has come back: a record with a "status"
    height,     \* GetTip's first answer
    got,        \* what the last method returned: [status, value]
    seen,       \* history: the chain's moments during the last call
    whole       \* history: its answers were what the server knew

chainVars    == <<chain, events, taken>>
callVars     == <<method, response, height, got>>
providerVars == <<provider, chainVars, callVars, seen, whole>>

Now == Last(chain)

None    == [status |-> "none"]
Failed  == [status |-> "failed"]     \* no connection, not 200, stderr
Returned(value) == [status |-> "nil", value |-> value]

(* ------------------------- what the servers send ------------------------- *)

\* What an entry leaves out; in a hash, the empty string.
Absent == -1

\* A text in the place of a number.
NotNumber == -2

Faults == {"empty", "bare", "noNumber"}

\* An entry without its fields, without its amount, with an unreadable amount.
Garbled(o, fault) ==
    CASE fault = "empty" -> [o EXCEPT !.tx = Absent, !.index = Absent, !.lovelace = Absent]
      [] fault = "bare"  -> [o EXCEPT !.lovelace = Absent]
      [] OTHER           -> [o EXCEPT !.lovelace = NotNumber]

\* Blockfrost lists the oldest UTxOs first and sends one page of them.
Page(held) == SubSeq(held, 1, IF Len(held) < PageSize THEN Len(held) ELSE PageSize)

Listed(held) == IF provider = "blockfrost" THEN Page(held) ELSE held

\* The others order by hash, which says nothing of the age: two of the orders
\* stand for all.
Orders(held) == IF provider = "blockfrost" THEN {held} ELSE {held, Reverse(held)}

Amount(unit, quantity) == IF quantity = Absent THEN <<>> ELSE <<[unit |-> unit, quantity |-> quantity]>>

BlockfrostItem(o) ==
    [tx_hash |-> o.tx, output_index |-> o.index,
     amount |-> Amount("lovelace", o.lovelace) \o Amount("token", o.token)]

OgmiosItem(o) == [id |-> o.tx, index |-> o.index, lovelace |-> o.lovelace]

\* A row is a sequence of words.
Row(o) ==
    IF o.tx = Absent THEN <<>>
    ELSE IF o.lovelace = Absent THEN <<o.tx, o.index>>
    ELSE <<o.tx, o.index, o.lovelace, o.token>>

\* cardano-cli prints two lines above the rows; their words are no numbers.
Heading == <<NotNumber>>

Table(held) == <<Heading, Heading>> \o [i \in DOMAIN held |-> Row(held[i])]

UtxosBody(held) ==
    CASE provider = "blockfrost" -> [i \in DOMAIN held |-> BlockfrostItem(held[i])]
      [] provider = "ogmios"     -> [i \in DOMAIN held |-> OgmiosItem(held[i])]
      [] OTHER                   -> Table(held)

(* --------------------------- the conversions ----------------------------- *)

\* Go's zero value of a number that is not there.
Decoded(n) == IF n = Absent THEN 0 ELSE n

\* Mutant: the loop over the amounts runs to its end.
LovelaceLast(amount) == IF amount = <<>> THEN 0 ELSE Last(amount).quantity

\* The first amount whose unit is lovelace, 0 if there is none.
Lovelace(amount) ==
    LET first == {i \in DOMAIN amount : amount[i].unit = "lovelace"
                     /\ \A j \in 1..(i - 1) : amount[j].unit # "lovelace"}
    IN  IF first = {} THEN 0 ELSE amount[CHOOSE i \in first : TRUE].quantity

\* Mutant: one line of heading.
RowsOfOne(lines) == SubSeq(lines, 2, Len(lines))

\* strings.Split(...)[2:]
Rows(lines) == SubSeq(lines, 3, Len(lines))

\* The n-th word of a row; the fields of a shorter row keep their zero values.
WordAt(words, n, zero) == IF n <= Len(words) THEN words[n] ELSE zero

Utxo(hash, index, amount) == [tx |-> hash, index |-> index, amount |-> amount]

FromBlockfrost(v) == Utxo(v.tx_hash, v.output_index, Lovelace(v.amount))
FromOgmios(v)     == Utxo(v.id, Decoded(v.index), Decoded(v.lovelace))
FromRow(words)    == Utxo(WordAt(words, 1, Absent), WordAt(words, 2, 0), WordAt(words, 3, 0))

Utxos(body) ==
    CASE provider = "blockfrost" -> [i \in DOMAIN body |-> FromBlockfrost(body[i])]
      [] provider = "ogmios"     -> [i \in DOMAIN body |-> FromOgmios(body[i])]
      [] OTHER                   -> [i \in DOMAIN Rows(body) |-> FromRow(Rows(body)[i])]

\* strconv's error, json's or a panic: Blockfrost's fields are asserted.
Unreadable(body) == \E i \in DOMAIN Utxos(body) : Utxos(body)[i].amount = NotNumber
Slices(body)     == provider = "cli" => Len(body) >= 2
Asserts(body)    == provider = "blockfrost" => \A i \in DOMAIN body : body[i].tx_hash # Absent

\* A document of protocol parameters, by the kind of its entries: numbers,
\* numbers sent as a text, and cost models; an entry is known by its epoch, 0
\* is what is left out.  cardano-cli's JSON is passed on.  The others' entries
\* are renamed to cardano-cli's, a text that is no plain number counts as 0
\* (strconv's error is dropped), and the cost models are a TODO.
Document(epoch, plain) ==
    [numbers |-> epoch, texts |-> [number |-> epoch, plain |-> plain], costModels |-> epoch]

ProtocolParameters(body) ==
    [numbers    |-> body.numbers,
     texts      |-> IF provider = "cli" \/ body.texts.plain THEN body.texts.number ELSE 0,
     costModels |-> IF provider = "cli" THEN body.costModels ELSE 0]

(* -------------------------------- calls ---------------------------------- *)

Call(m) ==
    /\ method = "none"
    /\ method' = m
    /\ response' = None
    /\ got' = None
    /\ seen' = <<Now>>
    /\ whole' = TRUE
    /\ UNCHANGED <<provider, chainVars, height>>

Waiting(m) == method = m /\ response = None

\* The server has answered, from the chain as it is now.
Answered(m, r, all) ==
    /\ Waiting(m)
    /\ response' = r
    /\ whole' = (whole /\ all)
    /\ UNCHANGED <<provider, chainVars, method, height, got, seen>>

Ok(body) == [status |-> "ok", body |-> body]

\* The list, or the list with an entry that is incomplete.
AnswerUtxos ==
    \E held \in Orders(Listed(Now.held)) :
        \/ Answered("GetUtxos", Ok(UtxosBody(held)), TRUE)
        \/ \E i \in DOMAIN held, fault \in Faults :
                Answered("GetUtxos",
                    Ok(UtxosBody([held EXCEPT ![i] = Garbled(held[i], fault)])), FALSE)

\* 404: Blockfrost's word for an address that was never paid, and any server's
\* for a path that it does not have.
AnswerNotFound ==
    \/ /\ provider # "cli"
       /\ Answered("GetUtxos", [status |-> "notFound"], Now.held = <<>>)
    \/ /\ provider = "blockfrost"
       /\ Answered("GetTxByHash", [status |-> "notFound"], Target \notin Now.txs)

\* A cardano-cli that ends without an error and prints less than the heading.
AnswerShort == provider = "cli" /\ Answered("GetUtxos", Ok(<<Heading>>), FALSE)

AnswerTip ==
    Answered("GetTip", Ok([block |-> Now.height, slot |-> Now.slot, hash |-> Now.hash]), TRUE)

\* executeHTTPOgmios of queryNetwork/blockHeight.
AnswerHeight == provider = "ogmios" /\ Answered("GetHeight", Ok(Now.height), TRUE)

AnswerParams ==
    \E plain \in BOOLEAN :
        Answered("GetProtocolParameters", Ok(Document(Now.epoch, plain)), TRUE)

AnswerTx ==
    /\ provider = "blockfrost" /\ Target \in Now.txs
    /\ Answered("GetTxByHash", Ok(Target), TRUE)

\* The node takes a transaction once.
AnswerSubmit ==
    /\ Waiting("SubmitTx") /\ ~taken /\ Target \notin Now.txs
    /\ taken' = TRUE
    /\ response' \in {Ok("success"), Failed}
    /\ UNCHANGED <<provider, chain, events, method, height, got, seen, whole>>

\* A result that is not there decodes to Go's zero value.
Zero(m) ==
    CASE m = "GetUtxos"              -> <<>>
      [] m = "GetHeight"             -> 0
      [] m = "GetTip"                -> [block |-> 0, slot |-> 0, hash |-> Absent]
      [] m = "GetProtocolParameters" -> Document(0, TRUE)
      [] OTHER                       -> "error"

\* A JSON-RPC error, in Ogmios's body of status 200: a rejected transaction, or
\* a query that the node did not answer.
AnswerError ==
    /\ provider = "ogmios" /\ method \notin {"none", "GetTxByHash"}
    /\ Answered(method, Ok(Zero(method)), FALSE)

AnswerFails ==
    /\ method # "none" /\ (method = "GetTxByHash" => provider = "blockfrost")
    /\ Answered(method, Failed, FALSE)

Answer ==
    \/ AnswerUtxos \/ AnswerNotFound \/ AnswerShort \/ AnswerTip \/ AnswerHeight
    \/ AnswerParams \/ AnswerTx \/ AnswerSubmit \/ AnswerError \/ AnswerFails

Return(result) ==
    /\ method' = "none"
    /\ response' = None
    /\ got' = result
    /\ UNCHANGED <<provider, chainVars, height, seen, whole>>

Received(m, status) == method = m /\ response.status = status

ReturnError ==
    /\ response.status = "failed"
    /\ Return([status |-> "err"])

\* 404 is an answer to GetUtxos and to GetTxByHash only.
ReturnNotFound ==
    \/ Received("GetUtxos", "notFound") /\ Return(Returned(<<>>))
    \/ Received("GetTxByHash", "notFound") /\ Return(Returned({}))

ReturnUtxos ==
    /\ Received("GetUtxos", "ok")
    /\ Slices(response.body) /\ Asserts(response.body)
    /\ Return(IF Unreadable(response.body) THEN [status |-> "err"]
              ELSE Returned(Utxos(response.body)))

\* [2:] of fewer than two lines; .(string) of what is not there.
UtxosPanic ==
    /\ Received("GetUtxos", "ok")
    /\ ~(Slices(response.body) /\ Asserts(response.body))
    /\ Return([status |-> "panic"])

\* Ogmios's GetTip has the height and asks for the rest.
AskTip ==
    /\ Received("GetHeight", "ok")
    /\ height' = response.body
    /\ method' = "GetTip" /\ response' = None
    /\ UNCHANGED <<provider, chainVars, got, seen, whole>>

\* Mutant: the height counts as the slot.
ReturnTipMixed ==
    /\ Received("GetTip", "ok")
    /\ LET tip == response.body
       IN  Return(Returned([tip EXCEPT !.slot = IF provider = "ogmios" THEN height ELSE @]))

ReturnTip ==
    /\ Received("GetTip", "ok")
    /\ LET tip == response.body
       IN  Return(Returned([tip EXCEPT !.block = IF provider = "ogmios" THEN height ELSE @]))

ReturnParams ==
    /\ Received("GetProtocolParameters", "ok")
    /\ Return(Returned(ProtocolParameters(response.body)))

ReturnTx == Received("GetTxByHash", "ok") /\ Return(Returned({response.body}))

\* Mutant: only the status is looked at.
ReturnSubmittedDeaf == Received("SubmitTx", "ok") /\ Return(Returned({}))

ReturnSubmitted ==
    /\ Received("SubmitTx", "ok")
    /\ Return(IF response.body = "error" THEN [status |-> "err"] ELSE Returned({}))

\* TxProviderOgmios and TxProviderCli: panic("not implemented").
NotImplemented ==
    /\ Waiting("GetTxByHash") /\ provider # "blockfrost"
    /\ Return([status |-> "panic"])

MethodStep ==
    \/ ReturnError \/ ReturnNotFound \/ ReturnUtxos \/ UtxosPanic \/ AskTip
    \/ ReturnTip \/ ReturnParams \/ ReturnTx \/ ReturnSubmitted \/ NotImplemented

(* ------------------------------- the chain ------------------------------- *)

Happens(newChain) ==
    /\ events < MaxEvents
    /\ events' = events + 1
    /\ chain' = newChain
    /\ seen' = IF method = "none" THEN seen ELSE Append(seen, Last(newChain))
    /\ UNCHANGED <<provider, taken, callVars, whole>>

\* A block; hashes are numbered in the order the blocks were made.
Block(held, txs, epoch) ==
    Happens(Append(chain, [held |-> held, txs |-> txs, epoch |-> epoch,
        height |-> Now.height + 1, slot |-> Now.slot + 2, hash |-> events + 1]))

\* Target pays the address.
IncludeTarget ==
    /\ Target \notin Now.txs
    /\ Block(Append(Now.held, [tx |-> Target, index |-> 1, lovelace |-> 10, token |-> 0]),
             Now.txs \cup {Target}, Now.epoch)

SpendOldest ==
    /\ Now.held # <<>>
    /\ Block(Tail(Now.held), Now.txs, Now.epoch)

NewEpoch ==
    /\ Now.epoch < Epochs
    /\ Block(Now.held, Now.txs, Now.epoch + 1)

Rollback ==
    /\ Len(chain) > 1
    /\ Happens(Front(chain))

ChainStep == IncludeTarget \/ SpendOldest \/ NewEpoch \/ Rollback
=============================================================================
