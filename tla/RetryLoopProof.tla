--------------------------- MODULE RetryLoopProof ---------------------------
(* Theorems about ExecuteWithRetry for every numRetries, with and without a  *)
(* predicate, and for providers that honour their context or not.            *)
EXTENDS RetryLoop, SequenceTheorems, TLAPS

\* The loop variable at each point of the loop: one of 0..NumRetries - 1 inside
\* the body.
CountInv ==
    /\ pc = "head" => count <= NumRetries
    /\ pc \in {"call", "select"} => count < NumRetries

\* One answer per started call; the answer of the running call is the last.
AnswersInv ==
    /\ pc = "head" => Len(answers) = count
    /\ pc = "call" /\ reply = "none" => Len(answers) = count
    /\ pc = "call" /\ reply # "none" =>
        /\ Len(answers) = count + 1
        /\ answers[count + 1] = reply
    /\ pc = "select" => Len(answers) = count + 1
    /\ pc \in {"head", "call"} => \A i \in 1..count : Retryable(answers[i])
    /\ pc = "select" => \A i \in 1..(count + 1) : Retryable(answers[i])

\* One full wait per completed iteration.
WaitsInv ==
    /\ pc # "idle" => waits = count
    /\ Len(answers) <= waits + 1

\* A result is there exactly outside an invocation.
ResultInv ==
    /\ pc # "idle" => result = "none"
    /\ result = "timeout" =>
        /\ Len(answers) = NumRetries
        /\ waits = NumRetries
        /\ \A i \in 1..NumRetries : Retryable(answers[i])

IInv == TypeOK /\ CountInv /\ AnswersInv /\ WaitsInv /\ ResultInv

\* The strengthened invariant holds in the initial state.
LEMMA InitIInv == Init => IInv
<1> SUFFICES ASSUME Init PROVE IInv
  OBVIOUS
<1> USE LoopAssumption DEF Init
<1>1. TypeOK
  <2>1. answers \in Seq(Answers)
    BY EmptySeq
  <2>2. ctxDone \in BOOLEAN
    OBVIOUS
  <2>3. /\ count \in 0..NumRetries /\ waits \in 0..NumRetries
        /\ pc = "idle" /\ reply = "none" /\ timer = "off" /\ result = "none"
    OBVIOUS
  <2> HIDE DEF Init
  <2> QED BY <2>1, <2>2, <2>3 DEF TypeOK
<1>2. CountInv /\ AnswersInv /\ WaitsInv /\ ResultInv
  BY DEF CountInv, AnswersInv, WaitsInv, ResultInv
<1> QED BY <1>1, <1>2 DEF IInv

\* Every step of the loop, the provider, the timer and the context keeps it.
LEMMA NextIInv == IInv /\ [Next]_vars => IInv'
<1> SUFFICES ASSUME IInv, [Next]_vars PROVE IInv'
  OBVIOUS
<1> USE LoopAssumption DEF IInv, TypeOK, CountInv, AnswersInv, WaitsInv, ResultInv
<1>1. CASE Invoke /\ UNCHANGED ctxDone
  BY <1>1 DEF Invoke
<1>2. CASE HeadCall /\ UNCHANGED ctxDone
  BY <1>2 DEF HeadCall
<1>3. CASE HeadExhausted /\ UNCHANGED ctxDone
  BY <1>3 DEF HeadExhausted, Finish
<1>4. CASE ReturnErr /\ UNCHANGED ctxDone
  BY <1>4 DEF ReturnErr, Finish, IsErr
<1>5. CASE ReturnNil /\ UNCHANGED ctxDone
  BY <1>5 DEF ReturnNil, Finish
<1>6. CASE EnterSelect /\ UNCHANGED ctxDone
  <2>1. reply # "none"
    BY <1>6 DEF EnterSelect, Retryable, Recoverable
  <2> QED BY <1>6, <2>1 DEF EnterSelect
<1>7. CASE SelectCtx /\ UNCHANGED ctxDone
  BY <1>7 DEF SelectCtx, Finish
<1>8. CASE SelectTimer /\ UNCHANGED ctxDone
  BY <1>8 DEF SelectTimer
<1>9. ASSUME NEW a \in Answers, Answer(a), UNCHANGED ctxDone
      PROVE  IInv'
  <2>1. /\ answers' = Append(answers, a)
        /\ reply' = a /\ a # "none"
        /\ UNCHANGED <<pc, count, timer, result, waits>>
    BY <1>9 DEF Answer, Answers
  <2>2. Len(answers) = count /\ pc = "call" /\ result = "none"
    BY <1>9 DEF Answer
  <2>3. /\ answers' \in Seq(Answers)
        /\ Len(answers') = count + 1
        /\ answers'[count + 1] = a
        /\ \A i \in 1..count : answers'[i] = answers[i]
    BY <2>1, <2>2
  <2>4. TypeOK' /\ CountInv' /\ WaitsInv' /\ ResultInv'
    BY <1>9, <2>1, <2>2, <2>3
  <2>5. \A i \in 1..count : Retryable(answers'[i])
    BY <2>2, <2>3
  <2>6. AnswersInv'
    BY <1>9, <2>1, <2>2, <2>3, <2>5
  <2> QED BY <2>4, <2>6
<1>10. CASE Serve /\ UNCHANGED ctxDone
  BY <1>9, <1>10 DEF Serve
<1>11. CASE AbortCall /\ UNCHANGED ctxDone
  BY <1>9, <1>11 DEF AbortCall, Answers
<1>12. CASE FireTimer /\ UNCHANGED ctxDone
  BY <1>12 DEF FireTimer
<1>13. CASE CancelCtx
  BY <1>13 DEF CancelCtx, loopVars
<1>14. CASE UNCHANGED vars
  BY <1>14 DEF vars
<1> QED
  BY <1>1, <1>2, <1>3, <1>4, <1>5, <1>6, <1>7, <1>8, <1>10, <1>11, <1>12,
     <1>13, <1>14 DEF Next, LoopStep

\* The strengthened invariant holds in every reachable state.
THEOREM Inductive == Spec => []IInv
<1> QED BY InitIInv, NextIInv, PTL DEF Spec

\* Types of the loop's state, for every numRetries.
THEOREM TypeCorrect == Spec => []TypeOK
<1>1. IInv => TypeOK
  BY DEF IInv
<1> QED BY <1>1, Inductive, PTL

\* ErrWaitForTransactionTimeout is returned only after exactly numRetries calls,
\* none conclusive, and a full waitTime after each (utils.go:86-102).
THEOREM TimeoutExhaustive == Spec => []TimeoutIsExhaustive
<1>1. IInv => TimeoutIsExhaustive
  BY DEF IInv, ResultInv, TimeoutIsExhaustive
<1> QED BY <1>1, Inductive, PTL

\* The loop never calls executeFn again before the wait that follows the
\* previous call is over (utils.go:95-99).
THEOREM AlwaysPaced == Spec => []Paced
<1>1. IInv => Paced
  BY DEF IInv, WaitsInv, Paced
<1> QED BY <1>1, Inductive, PTL

\* Initial states of the loop are initial states of its contract.
LEMMA InitImplements == Init => Contract!Init
BY DEF Init, Contract!Init

\* The answers so far are open in the contract's sense wherever the loop may
\* still call.
LEMMA OpenWhileLooping ==
    ASSUME IInv, pc \in {"head", "select"} \/ (pc = "call" /\ reply = "none")
    PROVE  Contract!Open
<1>1. answers \in Seq(Answers) /\ count \in Nat
  BY LoopAssumption DEF IInv, TypeOK
<1>2. answers = <<>> \/ Len(answers) \in 1..Len(answers)
  BY <1>1, EmptySeq
<1>3. answers # <<>> => Retryable(answers[Len(answers)])
  BY <1>1, <1>2 DEF IInv, AnswersInv
<1> QED
  BY <1>3 DEF Contract!Open, Contract!Retryable, Retryable, Recoverable

\* Every step of the loop is a step of its contract or leaves it unchanged.
LEMMA StepImplements == IInv /\ [Next]_vars => [Contract!Next]_(Contract!vars)
<1> SUFFICES ASSUME IInv, [Next]_vars
             PROVE  Contract!Next \/ UNCHANGED Contract!vars
  BY DEF Contract!vars
<1> USE DEF Contract!vars
<1>0. /\ answers \in Seq(Answers) /\ count \in Nat /\ NumRetries \in Nat
      /\ reply \in Answers \cup {"none"}
  BY LoopAssumption DEF IInv, TypeOK
<1>1. CASE Invoke /\ UNCHANGED ctxDone
  BY <1>1 DEF Invoke, Contract!Next, Contract!Begin
<1>2. CASE HeadCall /\ UNCHANGED ctxDone
  BY <1>2 DEF HeadCall
<1>3. CASE HeadExhausted /\ UNCHANGED ctxDone
  <2>1. Contract!Open /\ Len(answers) = NumRetries
    BY <1>0, <1>3, OpenWhileLooping DEF IInv, CountInv, AnswersInv, HeadExhausted
  <2>2. Contract!End("timeout")
    BY <1>3, <2>1 DEF HeadExhausted, Finish, Contract!End, Contract!Justified
  <2> QED BY <2>2 DEF Contract!Next, Contract!Results
<1>4. CASE (ReturnErr \/ ReturnNil) /\ UNCHANGED ctxDone
  <2>1. pc = "call" /\ reply \in Answers /\ reply # "again" /\ ~Recoverable(reply)
    BY <1>0, <1>4 DEF ReturnErr, ReturnNil, IsErr, Recoverable, Answers
  <2>2. answers # <<>> /\ answers[Len(answers)] = reply
    BY <1>0, <2>1 DEF IInv, AnswersInv, Answers
  <2>3. ~Contract!Open
    BY <2>1, <2>2 DEF Contract!Open, Contract!Retryable, Recoverable
  <2>4. CASE ReturnErr
    <3>1. Contract!Failing(reply)
      BY <2>1, <2>4 DEF ReturnErr, IsErr, Contract!Failing, Contract!Retryable, Recoverable
    <3>2. Contract!End("err")
      BY <1>4, <2>1, <2>2, <2>3, <2>4, <3>1
      DEF ReturnErr, Finish, Contract!End, Contract!Justified
    <3> QED BY <3>2 DEF Contract!Next, Contract!Results
  <2>5. CASE ReturnNil
    <3>1. Contract!End("nil")
      BY <1>4, <2>1, <2>2, <2>3, <2>5
      DEF ReturnNil, Finish, Contract!End, Contract!Justified
    <3> QED BY <3>1 DEF Contract!Next, Contract!Results
  <2> QED BY <1>4, <2>4, <2>5
<1>5. CASE EnterSelect /\ UNCHANGED ctxDone
  BY <1>5 DEF EnterSelect
<1>6. CASE SelectCtx /\ UNCHANGED ctxDone
  <2>1. Contract!Open /\ answers # <<>>
    BY <1>0, <1>6, OpenWhileLooping DEF IInv, AnswersInv, SelectCtx
  <2>2. Contract!End("ctx")
    BY <1>6, <2>1 DEF SelectCtx, Finish, Contract!End, Contract!Justified
  <2> QED BY <2>2 DEF Contract!Next, Contract!Results
<1>7. CASE SelectTimer /\ UNCHANGED ctxDone
  BY <1>7 DEF SelectTimer
<1>8. ASSUME NEW a \in Answers, Answer(a), UNCHANGED ctxDone
      PROVE  Contract!Next
  <2>1. Contract!Open /\ Len(answers) < NumRetries
    BY <1>0, <1>8, OpenWhileLooping DEF IInv, CountInv, AnswersInv, Answer
  <2>2. Contract!Attempt(a)
    BY <1>8, <2>1 DEF Answer, Contract!Attempt
  <2> QED BY <2>2 DEF Contract!Next, Contract!Answers, Answers
<1>9. CASE Serve /\ UNCHANGED ctxDone
  BY <1>8, <1>9 DEF Serve
<1>10. CASE AbortCall /\ UNCHANGED ctxDone
  BY <1>8, <1>10 DEF AbortCall, Answers
<1>11. CASE FireTimer /\ UNCHANGED ctxDone
  BY <1>11 DEF FireTimer
<1>12. CASE CancelCtx
  BY <1>12 DEF CancelCtx, loopVars, Contract!Next, Contract!Cancel
<1>13. CASE UNCHANGED vars
  BY <1>13 DEF vars
<1> QED
  BY <1>1, <1>2, <1>3, <1>4, <1>5, <1>6, <1>7, <1>9, <1>10, <1>11, <1>12,
     <1>13 DEF Next, LoopStep

\* ExecuteWithRetry implements its contract: whatever the interleaving of the
\* timer, the provider and the cancellation, the result is one that the
\* sequence of the answers justifies.
THEOREM Implements == Spec => ContractSpec
<1>1. Init => Contract!Init
  BY InitImplements
<1>2. IInv /\ [Next]_vars => [Contract!Next]_(Contract!vars)
  BY StepImplements
<1> QED BY <1>1, <1>2, Inductive, PTL DEF Spec, ContractSpec, Contract!Spec
=============================================================================
