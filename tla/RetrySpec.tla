----------------------------- MODULE RetrySpec -----------------------------
(* What a caller of ExecuteWithRetry (core/utils.go) may rely on, with no    *)
(* loop, no timer and no context: an invocation is the sequence of the       *)
(* answers it got, and its result is allowed by that sequence alone.         *)
EXTENDS Naturals, Sequences

CONSTANTS
    NumRetries,     \* numRetries, the bound on the calls of one invocation
    HasRecoverFn    \* whether an IsRecoverableErrorFn was passed

VARIABLES
    active,     \* an invocation is running
    answers,    \* what executeFn returned, call by call
    result,     \* what the last invocation returned, "none" before it returns
    cancelled   \* the context has been cancelled

vars == <<active, answers, result, cancelled>>

(* executeFn's outcomes: (true, nil), (false, nil), an error that the        *)
(* predicate would call recoverable, and any other error.                    *)
Answers == {"stop", "again", "soft", "hard"}
Results == {"none", "nil", "err", "ctx", "timeout"}

Retryable(a) == a = "again" \/ (a = "soft" /\ HasRecoverFn)
Failing(a)   == a \in {"soft", "hard"} /\ ~Retryable(a)

\* Every answer so far allows another call.
Open == answers = <<>> \/ Retryable(answers[Len(answers)])

\* Results the answers justify.
Justified(r) ==
    \/ r = "nil"     /\ ~Open /\ answers[Len(answers)] = "stop"
    \/ r = "err"     /\ ~Open /\ Failing(answers[Len(answers)])
    \/ r = "timeout" /\ Open /\ Len(answers) = NumRetries
    \/ r = "ctx"     /\ Open /\ answers # <<>> /\ cancelled

Init ==
    /\ active = FALSE
    /\ answers = <<>>
    /\ result = "none"
    /\ cancelled = FALSE

Begin ==
    /\ ~active
    /\ active' = TRUE
    /\ answers' = <<>>
    /\ result' = "none"
    /\ UNCHANGED cancelled

Attempt(a) ==
    /\ active /\ Open /\ Len(answers) < NumRetries
    /\ answers' = Append(answers, a)
    /\ UNCHANGED <<active, result, cancelled>>

End(r) ==
    /\ active /\ Justified(r)
    /\ active' = FALSE
    /\ result' = r
    /\ UNCHANGED <<answers, cancelled>>

Cancel ==
    /\ cancelled' = TRUE
    /\ UNCHANGED <<active, answers, result>>

Next ==
    \/ Begin
    \/ \E a \in Answers : Attempt(a)
    \/ \E r \in Results : End(r)
    \/ Cancel

Spec == Init /\ [][Next]_vars
=============================================================================
