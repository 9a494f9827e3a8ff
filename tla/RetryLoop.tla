----------------------------- MODULE RetryLoop -----------------------------
(* core/utils.go, ExecuteWithRetry: the polling loop under WaitForAmount,    *)
(* WaitForTxHashInUtxos and WaitForTransaction.  The goroutine that runs the *)
(* loop, the provider that answers its calls, the timer of time.After and    *)
(* the owner of the context are separate actors.                             *)
EXTENDS Naturals, Sequences

CONSTANTS
    NumRetries,     \* numRetries
    HasRecoverFn,   \* an IsRecoverableErrorFn was passed
    HonoursCtx      \* the provider gives up when ctx is cancelled: the HTTP
                    \* providers do, TxProviderCli ignores its ctx

ASSUME LoopAssumption ==
    /\ NumRetries \in Nat
    /\ HasRecoverFn \in BOOLEAN
    /\ HonoursCtx \in BOOLEAN

VARIABLES
    pc,         \* where the loop is; "idle" outside an invocation
    count,      \* the loop variable
    reply,      \* what executeFn returned to the running call, "none" before
    timer,      \* time.After's channel: "off", "armed" or "fired"
    ctxDone,    \* ctx.Done() is closed
    result,     \* what the last invocation returned, "none" before it returns
    answers,    \* history: replies of this invocation
    waits       \* history: timers this invocation waited for in full

loopVars == <<pc, count, reply, timer, result, answers, waits>>
vars     == <<pc, count, reply, timer, ctxDone, result, answers, waits>>

Answers == {"stop", "again", "soft", "hard"}

\* Mutant: the predicate's answer is ignored, every error is retried.
RecoverableIgnored(a) == a \in {"soft", "hard"}

\* The error test of the loop: no predicate, or a predicate that says no.
Recoverable(a) == a = "soft" /\ HasRecoverFn
IsErr(a)       == a \in {"soft", "hard"}
Retryable(a)   == a = "again" \/ Recoverable(a)

Init ==
    /\ pc = "idle"
    /\ count = 0
    /\ reply = "none"
    /\ timer = "off"
    /\ ctxDone = FALSE
    /\ result = "none"
    /\ answers = <<>>
    /\ waits = 0

(* ------------------------------ the loop --------------------------------- *)

Invoke ==
    /\ pc = "idle"
    /\ pc' = "head"
    /\ count' = 0
    /\ reply' = "none"
    /\ timer' = "off"
    /\ result' = "none"
    /\ answers' = <<>>
    /\ waits' = 0

Finish(r) == pc' = "idle" /\ result' = r

\* Mutant: count <= numRetries.
HeadCallOneMore ==
    /\ pc = "head" /\ count <= NumRetries
    /\ pc' = "call"
    /\ reply' = "none"
    /\ UNCHANGED <<count, timer, result, answers, waits>>

\* count < numRetries: the next call of executeFn starts.
HeadCall ==
    /\ pc = "head" /\ count < NumRetries
    /\ pc' = "call"
    /\ reply' = "none"
    /\ UNCHANGED <<count, timer, result, answers, waits>>

\* Mutant: the loop runs out one iteration early.
HeadExhaustedEarly ==
    /\ pc = "head" /\ count + 1 >= NumRetries
    /\ Finish("timeout")
    /\ UNCHANGED <<count, reply, timer, answers, waits>>

\* The loop ran out: ErrWaitForTransactionTimeout.
HeadExhausted ==
    /\ pc = "head" /\ count >= NumRetries
    /\ Finish("timeout")
    /\ UNCHANGED <<count, reply, timer, answers, waits>>

ReturnErr ==
    /\ pc = "call" /\ IsErr(reply) /\ ~Recoverable(reply)
    /\ Finish("err")
    /\ UNCHANGED <<count, reply, timer, answers, waits>>

ReturnNil ==
    /\ pc = "call" /\ reply = "stop"
    /\ Finish("nil")
    /\ UNCHANGED <<count, reply, timer, answers, waits>>

\* Mutant: a recoverable error is retried at once, without the select.
EnterSelectEager ==
    /\ pc = "call" /\ Retryable(reply)
    /\ IF reply = "soft"
       THEN pc' = "head" /\ count' = count + 1 /\ UNCHANGED timer
       ELSE pc' = "select" /\ timer' = "armed" /\ UNCHANGED count
    /\ UNCHANGED <<reply, result, answers, waits>>

\* Mutant: one timer for the whole invocation, never armed.
EnterSelectUnarmed ==
    /\ pc = "call" /\ Retryable(reply)
    /\ pc' = "select"
    /\ UNCHANGED <<count, reply, timer, result, answers, waits>>

\* Neither return was taken: the select is entered and arms a new timer.
EnterSelect ==
    /\ pc = "call" /\ Retryable(reply)
    /\ pc' = "select"
    /\ timer' = "armed"
    /\ UNCHANGED <<count, reply, result, answers, waits>>

\* Mutant: the context is looked at only after the wait.
SelectCtxLate ==
    /\ pc = "select" /\ ctxDone /\ timer = "fired"
    /\ Finish("ctx")
    /\ timer' = "off"
    /\ UNCHANGED <<count, reply, answers, waits>>

\* The two cases of the select; when both are ready either may be chosen.
SelectCtx ==
    /\ pc = "select" /\ ctxDone
    /\ Finish("ctx")
    /\ timer' = "off"
    /\ UNCHANGED <<count, reply, answers, waits>>

SelectTimer ==
    /\ pc = "select" /\ timer = "fired"
    /\ pc' = "head"
    /\ timer' = "off"
    /\ count' = count + 1
    /\ waits' = waits + 1
    /\ UNCHANGED <<reply, result, answers>>

LoopStep ==
    \/ HeadCall \/ HeadExhausted
    \/ ReturnErr \/ ReturnNil
    \/ EnterSelect \/ SelectCtx \/ SelectTimer

(* ---------------------------- the other actors --------------------------- *)

\* executeFn comes back with a.
Answer(a) ==
    /\ pc = "call" /\ reply = "none"
    /\ reply' = a
    /\ answers' = Append(answers, a)
    /\ UNCHANGED <<pc, count, timer, result, waits>>

\* http.Client returns ctx's error for a request whose ctx is done; whether
\* the predicate accepts that error is the caller's choice.
AbortCall ==
    /\ HonoursCtx /\ ctxDone
    /\ \E a \in {"soft", "hard"} : Answer(a)

FireTimer ==
    /\ timer = "armed"
    /\ timer' = "fired"
    /\ UNCHANGED <<pc, count, reply, result, answers, waits>>

CancelCtx ==
    /\ ~ctxDone
    /\ ctxDone' = TRUE
    /\ UNCHANGED loopVars

Serve == \E a \in Answers : Answer(a)

Next ==
    \/ (Invoke \/ LoopStep \/ Serve \/ AbortCall \/ FireTimer) /\ UNCHANGED ctxDone
    \/ CancelCtx

Spec == Init /\ [][Next]_vars

\* The loop's goroutine is always scheduled, and a provider that honours the
\* context gives up some time after it is cancelled.
LoopFairness  == WF_vars(LoopStep /\ UNCHANGED ctxDone)
AbortFairness == WF_vars(AbortCall /\ UNCHANGED ctxDone)

FairSpec == Spec /\ LoopFairness /\ AbortFairness

\* What a wait that nobody cancels needs besides: the provider answers, and
\* timers fire.
ServeFairness == WF_vars(Serve /\ UNCHANGED ctxDone)
TimerFairness == WF_vars(FireTimer /\ UNCHANGED ctxDone)

(* ------------------------------ properties ------------------------------- *)

\* Types of the loop's state.
TypeOK ==
    /\ pc \in {"idle", "head", "call", "select"}
    /\ count \in 0..NumRetries
    /\ reply \in Answers \cup {"none"}
    /\ timer \in {"off", "armed", "fired"}
    /\ ctxDone \in BOOLEAN
    /\ result \in {"none", "nil", "err", "ctx", "timeout"}
    /\ answers \in Seq(Answers)
    /\ waits \in 0..NumRetries

\* ErrWaitForTransactionTimeout means that numRetries calls were made, that
\* none of them met the condition or failed for good, and that a whole waitTime
\* was waited after each, the last one included (utils.go:86-102).
TimeoutIsExhaustive ==
    result = "timeout" =>
        /\ Len(answers) = NumRetries
        /\ waits = NumRetries
        /\ \A i \in 1..NumRetries : Retryable(answers[i])

\* No call starts before the timer of every earlier call has run out: the loop
\* never polls faster than once per waitTime, whatever the errors
\* (utils.go:95-99).
Paced == Len(answers) <= waits + 1

\* An invocation returns, if the provider answers every call and time passes
\* (utils.go:86-102).
Returns == ServeFairness /\ TimerFairness => (pc # "idle" ~> pc = "idle")

\* Cancelling the context ends the wait although the provider never answers and
\* no timer ever fires, provided that the provider honours the context
\* (utils.go:95-97).
CancelUnblocks == (pc # "idle" /\ ctxDone) ~> pc = "idle"

\* What the loop promises its callers.
Contract == INSTANCE RetrySpec WITH active <- pc # "idle", cancelled <- ctxDone

ContractSpec == Contract!Spec
=============================================================================
