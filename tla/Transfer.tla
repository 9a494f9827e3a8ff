------------------------------ MODULE Transfer ------------------------------
(* main.go: each round builds a transaction that pays MinUTxODefaultValue to *)
(* the receiver (createTx, then createMultiSigTx) and hands it to submitTx,  *)
(* which remembers the receiver's balance, submits, and polls the balance    *)
(* through WaitForAmount until it has grown by that amount.  The loop is     *)
(* RetryLoop; the chain, the provider's view of it and the other users of    *)
(* the receiver's address are the environment.                               *)
(*                                                                           *)
(* Time is counted in slots of one second, the unit both of defaultTimeTo-   *)
(* LiveInc and of the five seconds between two polls.  Amounts are counted   *)
(* in MinUTxODefaultValue, the least an output may hold.                     *)
EXTENDS Integers, Sequences, FiniteSets

CONSTANTS
    Rounds,         \* transfers the program makes, one after the other
    NumRetries,     \* polls of WaitForAmount (60 in main.go)
    WaitTime,       \* slots between two polls (5 in main.go)
    TTLInc,         \* defaultTimeToLiveInc (200)
    ViewLag,        \* how many slots the provider's answers may lie behind
    MonotonicView,  \* whether the provider's answers never go back in time
    Others,         \* outputs that other payers may send to the receiver
    ReceiverSpends, \* whether the receiver spends outputs meanwhile
    Misread,        \* whether a reading of the balance may fall short of it
    MaxSlack        \* bound: slots that pass outside of complete waits

ASSUME TransferAssumption ==
    /\ Rounds \in Nat \ {0}
    /\ NumRetries \in Nat \ {0}
    /\ WaitTime \in Nat \ {0}
    /\ TTLInc \in Nat
    /\ ViewLag \in Nat
    /\ MonotonicView \in BOOLEAN
    /\ IsFiniteSet(Others) /\ Others \cap 1..Rounds = {}
    /\ ReceiverSpends \in BOOLEAN
    /\ Misread \in BOOLEAN
    /\ MaxSlack \in Nat

\* 200 + ViewLag < 59 * 5 in main.go: the last poll sees whatever could be
\* included before the transaction's time to live.
ASSUME TimingAssumption == TTLInc + ViewLag < (NumRetries - 1) * WaitTime

VARIABLES
    \* the program
    step,       \* what main is doing
    round,      \* which transfer it is at
    ttl,        \* the time to live of each round's transaction
    baseline,   \* the receiver's balance before the submission
    reported,   \* rounds "included in block" was printed for
    exit,       \* why main gave up: "none", "err" or "timeout"
    \* WaitForAmount
    pc, count, reply, timer, result, answers, waits,
    armedAt,    \* the slot the running timer was armed at
    \* the environment
    slot,       \* the chain's current slot
    slack,      \* slots that passed outside of complete waits
    lastView,   \* the slot of the provider's last answer
    request,    \* the submission: "none", "sent", "accepted" or "rejected"
    created,    \* the slot an output of the receiver was created at
    spent       \* the slot it was spent at

program == <<step, round, ttl, baseline, reported, exit>>
loop    == <<pc, count, reply, timer, result, answers, waits>>
chain   == <<request, created, spent>>
vars    == <<program, loop, armedAt, slot, slack, lastView, chain>>

\* main.go passes context.Background() and no IsRecoverableErrorFn.
Wait == INSTANCE RetryLoop
    WITH HasRecoverFn <- FALSE, HonoursCtx <- FALSE, ctxDone <- FALSE

Never   == -1
Own     == 1..Rounds        \* round k's transaction creates output k
Outputs == Own \cup Others

Steps == {"tip", "build", "baseline", "submit", "submitting", "wait",
          "failed", "finished"}

(* ------------------------------ the ledger ------------------------------- *)

CreatedBy(o, v) == created[o] # Never /\ created[o] <= v
SpentBy(o, v)   == spent[o] # Never /\ spent[o] <= v

\* GetUtxosSum of the receiver's outputs as of slot v.
Balance(v) == Cardinality({o \in Outputs : CreatedBy(o, v) /\ ~SpentBy(o, v)})

\* What GetUtxos makes of it: a provider reads a 404, an answer without a result
\* and an item without its amount as if less were there (Providers.tla).
Readings(v) == IF Misread THEN 0..Balance(v) ELSE {Balance(v)}

\* The slots an answer given now may describe.
Views == {v \in 0..slot : v + ViewLag >= slot /\ (MonotonicView => v >= lastView)}

Init ==
    /\ step = "tip" /\ round = 1
    /\ ttl = [k \in Own |-> Never]
    /\ baseline = 0
    /\ reported = {}
    /\ exit = "none"
    /\ pc = "idle" /\ count = 0 /\ reply = "none" /\ timer = "off"
    /\ result = "none" /\ answers = <<>> /\ waits = 0
    /\ armedAt = 0
    /\ slot = 0 /\ slack = 0 /\ lastView = 0
    /\ request = "none"
    /\ created = [o \in Outputs |-> Never]
    /\ spent = [o \in Outputs |-> Never]

(* ------------------------------ the program ------------------------------ *)

\* A failed call ends the program: os.Exit(1).
Fail(why) == step' = "failed" /\ exit' = why

\* Mutant: the time to live is as long as the whole wait.
TtlForWindow(tip) == tip + NumRetries * WaitTime

TtlFor(tip) == tip + TTLInc

\* SetProtocolParametersAndTTL.
ReadTip ==
    /\ step = "tip"
    /\ \E v \in Views :
        /\ ttl' = [ttl EXCEPT ![round] = TtlFor(v)]
        /\ lastView' = v
    /\ step' = "build"
    /\ UNCHANGED <<round, baseline, reported, exit, loop, armedAt, slot, slack, chain>>

\* The rest of createTx or createMultiSigTx.
Build ==
    /\ step = "build"
    /\ step' = "baseline"
    /\ UNCHANGED <<round, ttl, baseline, reported, exit, loop, armedAt, slot,
                   slack, lastView, chain>>

\* submitTx asks for the receiver's balance before it submits.
ReadBaseline ==
    /\ step = "baseline"
    /\ \E v \in Views :
        /\ baseline' \in Readings(v)
        /\ lastView' = v
    /\ step' = "submit"
    /\ UNCHANGED <<round, ttl, reported, exit, loop, armedAt, slot, slack, chain>>

\* Any of the calls above may fail, the provider's and cardano-cli's.
CallFails ==
    /\ step \in {"tip", "build", "baseline"}
    /\ Fail("err")
    /\ UNCHANGED <<round, ttl, baseline, reported, loop, armedAt, slot, slack,
                   lastView, chain>>

Submit ==
    /\ step = "submit"
    /\ step' = "submitting"
    /\ request' = "sent"
    /\ UNCHANGED <<round, ttl, baseline, reported, exit, loop, armedAt, slot,
                   slack, lastView, created, spent>>

\* SubmitTx returned nil: WaitForAmount starts.
SubmitOk ==
    /\ step = "submitting" /\ request = "accepted"
    /\ step' = "wait"
    /\ Wait!Invoke
    /\ UNCHANGED <<round, ttl, baseline, reported, exit, armedAt, slot, slack,
                   lastView, chain>>

\* SubmitTx returned an error: the node rejected the transaction, or the request
\* or its response was lost, which the program cannot tell apart.
SubmitFails ==
    /\ step = "submitting"
    /\ Fail("err")
    /\ UNCHANGED <<round, ttl, baseline, reported, loop, armedAt, slot, slack,
                   lastView, chain>>

LoopStep ==
    /\ step = "wait"
    /\ Wait!LoopStep
    /\ armedAt' = IF pc = "call" /\ pc' = "select" THEN slot ELSE armedAt
    /\ UNCHANGED <<program, slot, slack, lastView, chain>>

FireTimer ==
    /\ slot >= armedAt + WaitTime
    /\ Wait!FireTimer
    /\ UNCHANGED <<program, armedAt, slot, slack, lastView, chain>>

\* Mutants: one too much, one too little.
EnoughStrict(sum) == sum > baseline + 1
EnoughWeak(sum)   == sum >= baseline

\* cmpHandler of submitTx.
Enough(sum) == sum >= baseline + 1

\* The closure of WaitForAmount gets the receiver's outputs.
PollAnswered ==
    /\ step = "wait"
    /\ \E v \in Views :
        /\ \E sum \in Readings(v) : Wait!Answer(IF Enough(sum) THEN "stop" ELSE "again")
        /\ lastView' = v
    /\ UNCHANGED <<program, armedAt, slot, slack, chain>>

\* GetUtxos fails.
PollFails ==
    /\ step = "wait"
    /\ Wait!Answer("hard")
    /\ UNCHANGED <<program, armedAt, slot, slack, lastView, chain>>

\* Mutant: no last round.
ReportForever ==
    /\ step = "wait" /\ pc = "idle" /\ result = "nil"
    /\ reported' = reported \cup {round}
    /\ step' = "tip" /\ round' = round + 1 /\ request' = "none"
    /\ UNCHANGED <<ttl, baseline, exit, loop, armedAt, slot, slack, lastView,
                   created, spent>>

\* WaitForAmount returned nil: "transaction has been included in block" is
\* printed and the next round begins.
Report ==
    /\ step = "wait" /\ pc = "idle" /\ result = "nil"
    /\ reported' = reported \cup {round}
    /\ IF round < Rounds
       THEN step' = "tip" /\ round' = round + 1 /\ request' = "none"
       ELSE step' = "finished" /\ UNCHANGED <<round, request>>
    /\ UNCHANGED <<ttl, baseline, exit, loop, armedAt, slot, slack, lastView,
                   created, spent>>

\* Mutant: after an error other than the timeout, wait again.
WaitFailsRetry ==
    /\ step = "wait" /\ pc = "idle" /\ result \notin {"none", "nil"}
    /\ IF result = "timeout"
       THEN Fail("timeout") /\ UNCHANGED loop
       ELSE Wait!Invoke /\ UNCHANGED <<step, exit>>
    /\ UNCHANGED <<round, ttl, baseline, reported, armedAt, slot, slack,
                   lastView, chain>>

\* WaitForAmount returned an error.
WaitFails ==
    /\ step = "wait" /\ pc = "idle" /\ result \notin {"none", "nil"}
    /\ Fail(IF result = "timeout" THEN "timeout" ELSE "err")
    /\ UNCHANGED <<round, ttl, baseline, reported, loop, armedAt, slot, slack,
                   lastView, chain>>

(* ---------------------------- the environment ---------------------------- *)

\* A slot passes.  Only slots of a timer that still has to wait are free.
Tick ==
    /\ slot' = slot + 1
    /\ IF timer = "armed" /\ slot < armedAt + WaitTime
       THEN UNCHANGED slack
       ELSE slack < MaxSlack /\ slack' = slack + 1
    /\ UNCHANGED <<program, loop, armedAt, lastView, chain>>

\* The node takes a transaction that is not expired, also one whose sender has
\* given up meanwhile.
NodeAccepts ==
    /\ request = "sent" /\ slot <= ttl[round]
    /\ request' = "accepted"
    /\ UNCHANGED <<program, loop, armedAt, slot, slack, lastView, created, spent>>

NodeRejects ==
    /\ request = "sent"
    /\ request' = "rejected"
    /\ UNCHANGED <<program, loop, armedAt, slot, slack, lastView, created, spent>>

\* A transaction the node has accepted is included in a block up to its time to
\* live; nothing says that it is included at all.
Sent(k) == k < round \/ (k = round /\ request = "accepted")

Include(k) ==
    /\ Sent(k) /\ created[k] = Never
    /\ slot <= ttl[k]
    /\ created' = [created EXCEPT ![k] = slot]
    /\ UNCHANGED <<program, loop, armedAt, slot, slack, lastView, request, spent>>

OtherPays(o) ==
    /\ created[o] = Never
    /\ created' = [created EXCEPT ![o] = slot]
    /\ UNCHANGED <<program, loop, armedAt, slot, slack, lastView, request, spent>>

Spend(o) ==
    /\ ReceiverSpends
    /\ created[o] # Never /\ spent[o] = Never
    /\ spent' = [spent EXCEPT ![o] = slot]
    /\ UNCHANGED <<program, loop, armedAt, slot, slack, lastView, request, created>>

\* The program has exited.
Exited == step \in {"failed", "finished"} /\ UNCHANGED vars

\* Steps the program takes by itself.
Program == Submit \/ LoopStep \/ Report \/ WaitFails

\* Steps it takes when a call comes back from a server or from cardano-cli.
Answered ==
    \/ ReadTip \/ Build \/ ReadBaseline \/ CallFails
    \/ SubmitOk \/ SubmitFails
    \/ PollAnswered \/ PollFails

Environment ==
    \/ Tick \/ NodeAccepts \/ NodeRejects \/ FireTimer
    \/ \E k \in Own : Include(k)
    \/ \E o \in Others : OtherPays(o)
    \/ \E o \in Outputs : Spend(o)

Next == Program \/ Answered \/ Environment \/ Exited

Spec == Init /\ [][Next]_vars

\* The program runs, time passes and due timers fire.  A call may be left without
\* an answer for ever: main passes context.Background(), and neither the
\* providers' http.Clients nor runCommand have a timeout.  No transaction need
\* ever be included.
FairSpec ==
    /\ Spec
    /\ WF_vars(Program)
    /\ WF_vars(Tick)
    /\ WF_vars(FireTimer)

(* ------------------------------ properties ------------------------------- *)

\* Types of the program's, the loop's and the chain's state.
TypeOK ==
    /\ step \in Steps
    /\ round \in Own
    /\ ttl \in [Own -> Int]
    /\ baseline \in Nat
    /\ reported \in SUBSET Own
    /\ exit \in {"none", "err", "timeout"}
    /\ Wait!TypeOK
    /\ armedAt \in 0..slot
    /\ slot \in Nat
    /\ slack \in 0..MaxSlack
    /\ lastView \in 0..slot
    /\ request \in {"none", "sent", "accepted", "rejected"}
    /\ created \in [Outputs -> Int]
    /\ spent \in [Outputs -> Int]

\* Giving up is final: when submitTx has returned ErrWaitForTransactionTimeout
\* the transaction has expired, so it can no longer be included behind the
\* caller's back (main.go:346, transaction_extended.go:8).
TimeoutIsFinal == exit = "timeout" => slot > ttl[round]

\* And it has not been included before either: a caller that transfers again
\* after the timeout never pays twice.  Only where the receiver does not spend
\* while the program polls and no reading falls short (utils.go:32-41).
TimeoutMeansUnpaid == exit = "timeout" => created[round] = Never

\* "transaction has been included in block" is printed only for a transaction
\* that is on chain.  Only where nobody else pays the receiver, no reading of its
\* balance falls short and the provider's answers never go back in time
\* (main.go:346-353).
ReportedIsIncluded == \A k \in reported : created[k] # Never

\* A call that a server or cardano-cli has not answered yet.
AwaitsAnswer ==
    \/ step \in {"tip", "build", "baseline", "submitting"}
    \/ step = "wait" /\ pc = "call" /\ reply = "none"

\* The program comes to an end whether or not its transactions are included; only
\* a call that never returns can keep it from that (main.go:340, 346, 393).
Concludes == <>(step \in {"failed", "finished"}) \/ <>[]AwaitsAnswer
=============================================================================
