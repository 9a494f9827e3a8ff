--------------------------- MODULE TransferProof ---------------------------
(* Theorems about submitTx for every number of rounds and polls, every wait, *)
(* time to live and view lag that satisfy TimingAssumption, with any other   *)
(* payers, a receiver that spends, and answers that may go back in time.     *)
EXTENDS Transfer, FiniteSetTheorems, TLAPS

\* The loop's own invariant is not proved again: it comes with the loop.
Loop == INSTANCE RetryLoopProof
    WITH HasRecoverFn <- FALSE, HonoursCtx <- FALSE, ctxDone <- FALSE

\* Every step of Transfer is a step of the loop or leaves it alone.
LEMMA LoopSteps ==
    ASSUME [Next]_vars
    PROVE  [Loop!Next]_(Loop!vars)
<1> USE DEF Loop!vars, loop
<1>1. CASE UNCHANGED loop
  BY <1>1
<1>2. CASE SubmitOk
  BY <1>2 DEF SubmitOk, Wait!Invoke, Loop!Invoke, Loop!Next
<1>3. CASE LoopStep
  BY <1>3 DEF LoopStep, Wait!LoopStep, Wait!HeadCall, Wait!HeadExhausted,
     Wait!ReturnErr, Wait!ReturnNil, Wait!EnterSelect, Wait!SelectCtx,
     Wait!SelectTimer, Wait!Finish, Wait!IsErr, Wait!Retryable, Wait!Recoverable,
     Loop!Next, Loop!LoopStep, Loop!HeadCall, Loop!HeadExhausted,
     Loop!ReturnErr, Loop!ReturnNil, Loop!EnterSelect, Loop!SelectCtx,
     Loop!SelectTimer, Loop!Finish, Loop!IsErr, Loop!Retryable, Loop!Recoverable
<1>4. CASE FireTimer
  BY <1>4 DEF FireTimer, Wait!FireTimer, Loop!FireTimer, Loop!Next
<1>5. CASE PollAnswered \/ PollFails
  BY <1>5 DEF PollAnswered, PollFails, Wait!Answer, Loop!Answer, Loop!Serve,
     Loop!Answers, Loop!Next
<1> QED
  BY <1>1, <1>2, <1>3, <1>4, <1>5 DEF Next, Program, Answered, Environment, ReadTip, Build,
     ReadBaseline, CallFails, Submit, SubmitFails, Report, WaitFails, Tick,
     NodeAccepts, NodeRejects, Include, OtherPays, Spend, Exited, vars

\* The loop's invariant holds throughout Transfer.
LEMMA LoopInit == Init => Loop!IInv
<1>1. Loop!LoopAssumption
  BY TransferAssumption DEF Loop!LoopAssumption
<1>2. Init => Loop!Init
  BY DEF Init, Loop!Init
<1> QED BY <1>1, <1>2, Loop!InitIInv

\* Every step of Transfer keeps it.
LEMMA LoopNext == Loop!IInv /\ [Next]_vars => Loop!IInv'
<1>1. Loop!LoopAssumption
  BY TransferAssumption DEF Loop!LoopAssumption
<1> QED BY <1>1, LoopSteps, Loop!NextIInv

(* ------------------------------- types ----------------------------------- *)

\* A balance is a natural number.
LEMMA BalanceType ==
    ASSUME NEW v
    PROVE  Balance(v) \in Nat
<1>1. IsFiniteSet(Outputs)
  <2>1. IsFiniteSet(Own)
    BY TransferAssumption, FS_Interval DEF Own
  <2>2. IsFiniteSet(Others)
    BY TransferAssumption
  <2> QED BY <2>1, <2>2, FS_Union DEF Outputs
<1> QED BY <1>1, FS_Subset, FS_CardinalityType DEF Balance

\* What is read of it is one too, and the balance itself unless it falls short.
LEMMA ReadingType ==
    ASSUME NEW v, NEW sum \in Readings(v)
    PROVE  sum \in Nat /\ (Misread = FALSE => sum = Balance(v))
BY BalanceType, TransferAssumption DEF Readings

\* Types without the loop's, which Loop!IInv holds.
Types ==
    /\ step \in Steps
    /\ round \in Own
    /\ ttl \in [Own -> Int]
    /\ baseline \in Nat
    /\ reported \in SUBSET Own
    /\ exit \in {"none", "err", "timeout"}
    /\ armedAt \in 0..slot
    /\ slot \in Nat
    /\ slack \in 0..MaxSlack
    /\ lastView \in 0..slot
    /\ request \in {"none", "sent", "accepted", "rejected"}
    /\ created \in [Outputs -> Int]
    /\ spent \in [Outputs -> Int]

\* The initial state is well typed.
LEMMA TypesInit == Init => Types
BY TransferAssumption DEF Init, Types, Steps, Own, Outputs, Never

\* Every step keeps the state well typed.
LEMMA TypesNext == Types /\ [Next]_vars => Types'
<1> SUFFICES ASSUME Types, [Next]_vars PROVE Types'
  OBVIOUS
<1> USE TransferAssumption DEF Types, program, loop, chain
<1>1. CASE ReadTip
  BY <1>1 DEF ReadTip, Views, TtlFor, Steps
<1>2. CASE Build
  BY <1>2 DEF Build, Steps
<1>3. CASE ReadBaseline
  BY <1>3, ReadingType DEF ReadBaseline, Views, Steps
<1>4. CASE CallFails
  BY <1>4 DEF CallFails, Fail, Steps
<1>5. CASE Submit
  BY <1>5 DEF Submit, Steps
<1>6. CASE SubmitOk
  BY <1>6 DEF SubmitOk, Steps
<1>7. CASE SubmitFails
  BY <1>7 DEF SubmitFails, Fail, Steps
<1>8. CASE LoopStep
  BY <1>8 DEF LoopStep
<1>9. CASE Report
  BY <1>9 DEF Report, Steps, Own
<1>10. CASE WaitFails
  BY <1>10 DEF WaitFails, Fail, Steps
<1>11. CASE Tick
  BY <1>11 DEF Tick
<1>12. CASE NodeAccepts \/ NodeRejects
  BY <1>12 DEF NodeAccepts, NodeRejects
<1>13. CASE FireTimer
  BY <1>13 DEF FireTimer
<1>14. CASE PollAnswered
  BY <1>14 DEF PollAnswered, Views
<1>15. CASE PollFails
  BY <1>15 DEF PollFails
<1>16. ASSUME NEW k \in Own, Include(k) PROVE Types'
  <2>1. created' \in [Outputs -> Int]
    BY <1>16 DEF Include, Outputs
  <2> QED BY <1>16, <2>1 DEF Include
<1>17. ASSUME NEW o \in Others, OtherPays(o) PROVE Types'
  <2>1. created' \in [Outputs -> Int]
    BY <1>17 DEF OtherPays, Outputs
  <2> QED BY <1>17, <2>1 DEF OtherPays
<1>18. ASSUME NEW o \in Outputs, Spend(o) PROVE Types'
  BY <1>18 DEF Spend
<1>19. CASE UNCHANGED vars
  BY <1>19 DEF vars
<1> QED
  BY <1>1, <1>2, <1>3, <1>4, <1>5, <1>6, <1>7, <1>8, <1>9, <1>10, <1>11, <1>12,
     <1>13, <1>14, <1>15, <1>16, <1>17, <1>18, <1>19
  DEF Next, Program, Answered, Environment, Exited

\* Types of the program's, the loop's and the chain's state.
THEOREM TypeCorrect == Spec => []TypeOK
<1>1. Types /\ Loop!IInv => TypeOK
  BY DEF Types, TypeOK, Loop!IInv, Loop!TypeOK, Wait!TypeOK, Loop!Answers,
     Wait!Answers
<1> QED BY <1>1, LoopInit, LoopNext, TypesInit, TypesNext, PTL DEF Spec

(* --------------------------- the timing argument -------------------------- *)

\* A full round of waits outlasts every time to live.
LEMMA WaitsOutlastTTL ==
    ASSUME NEW t \in Int, NEW s \in Int, t + NumRetries * WaitTime <= s + TTLInc
    PROVE  t < s
<1>1. NumRetries * WaitTime = (NumRetries - 1) * WaitTime + WaitTime
  BY TransferAssumption
<1>2. (NumRetries - 1) * WaitTime \in Int
  BY TransferAssumption
<1> QED BY <1>1, <1>2, TransferAssumption, TimingAssumption

\* Each poll of the running round is WaitTime later than the one before, while
\* the time to live stays where SetProtocolParametersAndTTL put it: at most
\* TTLInc slots after a slot that lay before the first poll.
Timing ==
    /\ step # "wait" => pc = "idle"
    /\ step \in {"build", "baseline", "submit", "submitting"} =>
        ttl[round] <= slot + TTLInc
    /\ step = "wait" /\ pc \in {"head", "call"} =>
        ttl[round] + count * WaitTime <= slot + TTLInc
    /\ step = "wait" /\ pc = "select" =>
        /\ ttl[round] + count * WaitTime <= armedAt + TTLInc
        /\ timer = "fired" => armedAt + WaitTime <= slot
    /\ (step = "wait" /\ pc = "idle" /\ result = "timeout") \/ exit = "timeout" =>
        ttl[round] + NumRetries * WaitTime <= slot + TTLInc
    /\ exit # "none" => step = "failed"

IInv == Types /\ Loop!IInv /\ Timing

\* Nothing has been waited for initially.
LEMMA TimingInit == Init => Timing
BY DEF Init, Timing

\* Every step keeps the bounds between slots, waits and times to live.
LEMMA TimingNext == IInv /\ [Next]_vars => Timing'
<1> SUFFICES ASSUME IInv, [Next]_vars PROVE Timing'
  OBVIOUS
<1>0. /\ count \in Nat /\ count * WaitTime \in Int
      /\ pc = "head" => count <= NumRetries
      /\ slot \in Nat /\ armedAt \in Nat /\ ttl[round] \in Int /\ round \in Own
      /\ pc \in {"idle", "head", "call", "select"}
      /\ timer \in {"off", "armed", "fired"}
  BY TransferAssumption
  DEF IInv, Types, Loop!IInv, Loop!TypeOK, Loop!CountInv
<1>00. Timing
  BY DEF IInv
<1> USE TransferAssumption, <1>0, <1>00 DEF Timing, program, loop, chain
<1>1. CASE ReadTip
  <2>1. PICK v \in Views : ttl' = [ttl EXCEPT ![round] = TtlFor(v)]
    BY <1>1 DEF ReadTip
  <2>2. v \in Nat /\ v <= slot /\ ttl'[round] = v + TTLInc
    BY <2>1 DEF Views, TtlFor, IInv, Types
  <2> QED BY <1>1, <2>2 DEF ReadTip
<1>2. CASE Build
  BY <1>2 DEF Build
<1>3. CASE ReadBaseline
  BY <1>3 DEF ReadBaseline
<1>4. CASE CallFails
  BY <1>4 DEF CallFails, Fail
<1>5. CASE Submit
  BY <1>5 DEF Submit
<1>6. CASE SubmitOk
  BY <1>6 DEF SubmitOk, Wait!Invoke
<1>7. CASE SubmitFails
  BY <1>7 DEF SubmitFails, Fail
<1>8. CASE LoopStep
  <2>1. CASE Wait!HeadCall
    BY <1>8, <2>1 DEF LoopStep, Wait!HeadCall
  <2>2. CASE Wait!HeadExhausted
    <3>1. count = NumRetries
      BY <2>2 DEF Wait!HeadExhausted
    <3> QED BY <1>8, <2>2, <3>1 DEF LoopStep, Wait!HeadExhausted, Wait!Finish
  <2>3. CASE Wait!ReturnErr \/ Wait!ReturnNil
    BY <1>8, <2>3 DEF LoopStep, Wait!ReturnErr, Wait!ReturnNil, Wait!Finish
  <2>4. CASE Wait!EnterSelect
    BY <1>8, <2>4 DEF LoopStep, Wait!EnterSelect
  <2>5. CASE Wait!SelectCtx
    BY <2>5 DEF Wait!SelectCtx
  <2>6. CASE Wait!SelectTimer
    <3>1. (count + 1) * WaitTime = count * WaitTime + WaitTime
      OBVIOUS
    <3> QED BY <1>8, <2>6, <3>1 DEF LoopStep, Wait!SelectTimer
  <2> QED BY <1>8, <2>1, <2>2, <2>3, <2>4, <2>5, <2>6 DEF LoopStep, Wait!LoopStep
<1>9. CASE Report
  BY <1>9 DEF Report
<1>10. CASE WaitFails
  BY <1>10 DEF WaitFails, Fail
<1>11. CASE Tick
  BY <1>11 DEF Tick
<1>12. CASE NodeAccepts \/ NodeRejects
  BY <1>12 DEF NodeAccepts, NodeRejects
<1>13. CASE FireTimer
  BY <1>13 DEF FireTimer, Wait!FireTimer
<1>14. CASE PollAnswered \/ PollFails
  BY <1>14 DEF PollAnswered, PollFails, Wait!Answer
<1>15. ASSUME NEW k \in Own, Include(k) PROVE Timing'
  BY <1>15 DEF Include
<1>16. ASSUME NEW o \in Others, OtherPays(o) PROVE Timing'
  BY <1>16 DEF OtherPays
<1>17. ASSUME NEW o \in Outputs, Spend(o) PROVE Timing'
  BY <1>17 DEF Spend
<1>18. CASE UNCHANGED vars
  BY <1>18 DEF vars
<1> QED
  BY <1>1, <1>2, <1>3, <1>4, <1>5, <1>6, <1>7, <1>8, <1>9, <1>10, <1>11, <1>12,
     <1>13, <1>14, <1>15, <1>16, <1>17, <1>18
  DEF Next, Program, Answered, Environment, Exited

\* The strengthened invariant holds in every reachable state.
THEOREM Inductive == Spec => []IInv
<1>1. Init => IInv
  BY TypesInit, LoopInit, TimingInit DEF IInv
<1>2. IInv /\ [Next]_vars => IInv'
  BY TypesNext, LoopNext, TimingNext DEF IInv
<1> QED BY <1>1, <1>2, PTL DEF Spec

\* ErrWaitForTransactionTimeout is only returned for a transaction that has
\* expired: nothing the provider, the node or other users do makes submitTx
\* give up on one that could still be included (main.go:346).
THEOREM TimeoutFinal == Spec => []TimeoutIsFinal
<1>1. IInv => TimeoutIsFinal
  <2> SUFFICES ASSUME IInv, exit = "timeout" PROVE ttl[round] < slot
    BY DEF TimeoutIsFinal, IInv, Types
  <2>1. ttl[round] \in Int /\ slot \in Int
    BY DEF IInv, Types
  <2>2. ttl[round] + NumRetries * WaitTime <= slot + TTLInc
    BY DEF IInv, Timing
  <2> QED BY <2>1, <2>2, WaitsOutlastTTL
<1> QED BY <1>1, Inductive, PTL

(* ---------------------- a timeout means not paid -------------------------- *)

\* The receiver's outputs of everybody else: all there are, and those created
\* by slot t.
Existing      == {o \in Outputs \ {round} : created[o] # Never}
ExistingBy(t) == {o \in Outputs \ {round} : CreatedBy(o, t)}

\* Outputs are created at slots that have passed, a round's own only after its
\* transaction was accepted and up to its time to live; none is spent.
Ledger ==
    /\ \A o \in Outputs : spent[o] = Never
    /\ \A o \in Outputs : created[o] # Never => created[o] \in 0..slot
    /\ \A k \in Own : k > round \/ (k = round /\ request # "accepted") =>
                        created[k] = Never
    /\ \A k \in Own : created[k] # Never => created[k] <= ttl[k]

\* The program and the submission.
Protocol ==
    /\ step \in {"tip", "build", "baseline", "submit"} => request = "none"
    /\ step = "wait" => request = "accepted"

\* The baseline counts only outputs of everybody else, and once the transaction
\* is accepted only such as were created by its time to live.
BaselineInv ==
    /\ step \in {"submit", "submitting"} /\ request # "accepted" =>
        baseline <= Cardinality(Existing)
    /\ step \in {"submitting", "wait"} /\ request = "accepted" =>
        baseline <= Cardinality(ExistingBy(ttl[round]))

\* From the answer to the last poll on: too late, and not included.
LastPollFailed ==
    /\ step = "wait"
    /\ \/ pc = "call" /\ reply = "again" /\ count = NumRetries - 1
       \/ pc = "select" /\ count = NumRetries - 1
       \/ pc = "head" /\ count = NumRetries
       \/ pc = "idle" /\ result = "timeout"

Missed == created[round] = Never /\ ttl[round] < slot

MissedInv == LastPollFailed \/ exit = "timeout" => Missed

UInv == IInv /\ Ledger /\ Protocol /\ BaselineInv /\ MissedInv

\* The sets that are counted are finite.
LEMMA OutputsFinite ==
    ASSUME NEW S \in SUBSET Outputs, NEW T \in SUBSET S
    PROVE  /\ IsFiniteSet(S) /\ IsFiniteSet(T)
           /\ Cardinality(S) \in Nat /\ Cardinality(T) \in Nat
           /\ Cardinality(T) <= Cardinality(S)
<1>1. IsFiniteSet(Own)
  BY TransferAssumption, FS_Interval DEF Own
<1>2. IsFiniteSet(Others)
  BY TransferAssumption
<1>3. IsFiniteSet(Outputs)
  BY <1>1, <1>2, FS_Union DEF Outputs
<1>4. IsFiniteSet(S)
  BY <1>3, FS_Subset
<1> QED BY <1>4, FS_Subset, FS_CardinalityType

\* The answer to a poll that describes a slot behind the time to live counts at
\* least the baseline, and the round's own output too if there is one.
LEMMA LatePollSees ==
    ASSUME IInv, Ledger, NEW v \in Nat, ttl[round] <= v, created[round] # Never
    PROVE  Balance(v) >= Cardinality(ExistingBy(ttl[round])) + 1
<1> DEFINE E == ExistingBy(ttl[round])
           A == {o \in Outputs : CreatedBy(o, v) /\ ~SpentBy(o, v)}
<1>1. round \in Own /\ round \in Outputs /\ ttl[round] \in Int
      /\ created \in [Outputs -> Int]
  BY DEF IInv, Types, Outputs
<1>2. E \in SUBSET Outputs /\ A \in SUBSET Outputs /\ round \notin E
  BY DEF ExistingBy
<1>3. E \cup {round} \in SUBSET A
  <2>1. ASSUME NEW o \in E PROVE o \in A
    <3>1. o \in Outputs /\ created[o] # Never /\ created[o] <= ttl[round]
      BY DEF ExistingBy, CreatedBy
    <3>2. created[o] \in Int
      BY <1>1, <3>1
    <3>3. created[o] <= v
      BY <1>1, <3>1, <3>2
    <3> QED BY <3>1, <3>3 DEF Ledger, CreatedBy, SpentBy
  <2>2. round \in A
    <3>1. created[round] <= ttl[round] /\ created[round] \in Int
      BY <1>1 DEF Ledger
    <3>2. created[round] <= v
      BY <1>1, <3>1
    <3> QED BY <1>1, <3>2 DEF Ledger, CreatedBy, SpentBy
  <2> QED BY <2>1, <2>2
<1>4. IsFiniteSet(E) /\ Cardinality(E) \in Nat
  BY <1>2, OutputsFinite
<1>5. Cardinality(E \cup {round}) = Cardinality(E) + 1
  BY <1>2, <1>4, FS_AddElement
<1>6. Cardinality(E \cup {round}) <= Cardinality(A) /\ Cardinality(A) \in Nat
  BY <1>2, <1>3, OutputsFinite
<1> QED BY <1>4, <1>5, <1>6 DEF Balance

\* Every step keeps the bounds on the slots that outputs were created at.
LEMMA LedgerNext ==
    ASSUME UInv, [Next]_vars, ReceiverSpends = FALSE, Misread = FALSE
    PROVE  Ledger'
<1> USE TransferAssumption DEF program, loop, chain
<1>0. /\ Ledger /\ Protocol
      /\ slot \in Nat /\ round \in Own /\ Own \in SUBSET Int
      /\ ttl \in [Own -> Int] /\ created \in [Outputs -> Int]
      /\ Own \in SUBSET Outputs /\ Others \in SUBSET Outputs
      /\ Own \cap Others = {}
  BY DEF UInv, IInv, Types, Outputs, Own
<1>1. CASE ReadTip
  <2>1. \A k \in Own : k # round => ttl'[k] = ttl[k]
    BY <1>0, <1>1 DEF ReadTip
  <2>2. created[round] = Never
    BY <1>0, <1>1 DEF ReadTip, Ledger, Protocol
  <2> QED BY <1>0, <1>1, <2>1, <2>2 DEF ReadTip, Ledger
<1>2. CASE UNCHANGED <<ttl, created, spent, slot, round, request>>
  BY <1>0, <1>2 DEF Ledger
<1>3. CASE Build \/ ReadBaseline \/ CallFails \/ SubmitFails \/ LoopStep
           \/ WaitFails \/ FireTimer \/ PollAnswered \/ PollFails \/ SubmitOk
  <2>1. UNCHANGED <<ttl, created, spent, slot, round, request>>
    BY <1>3 DEF Build, ReadBaseline, CallFails, SubmitFails, LoopStep, WaitFails,
       FireTimer, PollAnswered, PollFails, SubmitOk
  <2> QED BY <1>2, <2>1
<1>4. CASE Submit \/ NodeRejects \/ NodeAccepts
  <2>1. /\ UNCHANGED <<ttl, created, spent, slot, round>>
        /\ request # "accepted"
    BY <1>0, <1>4 DEF Submit, NodeRejects, NodeAccepts, Protocol
  <2> QED BY <1>0, <2>1 DEF Ledger
<1>5. CASE Report
  <2>1. UNCHANGED <<ttl, created, spent, slot>>
    BY <1>5 DEF Report
  <2>2. \/ round' = round + 1
        \/ UNCHANGED <<round, request>>
    BY <1>5 DEF Report
  <2> QED BY <1>0, <2>1, <2>2 DEF Ledger, Own
<1>6. CASE Tick
  <2>1. slot' = slot + 1 /\ UNCHANGED <<ttl, created, spent, round, request>>
    BY <1>6 DEF Tick
  <2> QED BY <1>0, <2>1 DEF Ledger
<1>7. ASSUME NEW k \in Own, Include(k) PROVE Ledger'
  <2>1. /\ UNCHANGED <<ttl, spent, slot, round, request>>
        /\ created' = [created EXCEPT ![k] = slot]
        /\ slot <= ttl[k] /\ k <= round /\ (k = round => request = "accepted")
    BY <1>0, <1>7 DEF Include, Sent, Own
  <2>2. /\ created'[k] = slot
        /\ \A o \in Outputs : o # k => created'[o] = created[o]
    BY <1>0, <2>1
  <2>3. \A j \in Own : j > round => j # k
    BY <1>0, <2>1 DEF Own
  <2> QED BY <1>0, <2>1, <2>2, <2>3 DEF Ledger
<1>8. ASSUME NEW o \in Others, OtherPays(o) PROVE Ledger'
  <2>1. /\ UNCHANGED <<ttl, spent, slot, round, request>>
        /\ created' = [created EXCEPT ![o] = slot]
    BY <1>8 DEF OtherPays
  <2>2. /\ created'[o] = slot
        /\ \A p \in Outputs : p # o => created'[p] = created[p]
        /\ o \notin Own
    BY <1>0, <2>1
  <2> QED BY <1>0, <2>1, <2>2 DEF Ledger
<1>9. ASSUME NEW o \in Outputs, Spend(o) PROVE Ledger'
  BY <1>9 DEF Spend
<1>10. CASE UNCHANGED vars
  BY <1>2, <1>10 DEF vars
<1> QED
  BY <1>1, <1>3, <1>4, <1>5, <1>6, <1>7, <1>8, <1>9, <1>10
  DEF Next, Program, Answered, Environment, Exited

\* Every step keeps the order of main: what is accepted, waited for and failed.
LEMMA ProtocolNext ==
    ASSUME Types, Protocol, [Next]_vars
    PROVE  Protocol'
<1> USE DEF program, loop, chain, Types, Protocol
<1>1. CASE ReadTip \/ Build \/ ReadBaseline \/ CallFails \/ Submit
  BY <1>1 DEF ReadTip, Build, ReadBaseline, CallFails, Fail, Submit
<1>2. CASE SubmitOk \/ SubmitFails \/ LoopStep \/ WaitFails
  BY <1>2 DEF SubmitOk, SubmitFails, Fail, LoopStep, WaitFails
<1>3. CASE Report
  BY <1>3 DEF Report
<1>4. CASE Tick \/ NodeAccepts \/ NodeRejects \/ FireTimer \/ PollAnswered \/ PollFails
  BY <1>4 DEF Tick, NodeAccepts, NodeRejects, FireTimer, PollAnswered, PollFails
<1>5. ASSUME NEW o, Include(o) \/ OtherPays(o) \/ Spend(o) PROVE Protocol'
  BY <1>5 DEF Include, OtherPays, Spend
<1>6. CASE UNCHANGED vars
  BY <1>6 DEF vars
<1> QED
  BY <1>1, <1>2, <1>3, <1>4, <1>5, <1>6 DEF Next, Program, Answered, Environment, Exited

\* What is counted can only become more.
LEMMA ExistingGrows ==
    ASSUME Types, round' = round, UNCHANGED ttl,
           \A o \in Outputs : created[o] # Never => created'[o] = created[o]
    PROVE  /\ Cardinality(Existing) <= Cardinality(Existing')
           /\ Cardinality(ExistingBy(ttl[round])) <= Cardinality(ExistingBy(ttl[round])')
           /\ Cardinality(Existing) \in Nat /\ Cardinality(Existing') \in Nat
           /\ Cardinality(ExistingBy(ttl[round])) \in Nat
           /\ Cardinality(ExistingBy(ttl[round])') \in Nat
<1>1. /\ Existing' \in SUBSET Outputs /\ ExistingBy(ttl[round])' \in SUBSET Outputs
      /\ Existing \in SUBSET Existing'
      /\ ExistingBy(ttl[round]) \in SUBSET ExistingBy(ttl[round])'
  BY DEF Existing, ExistingBy, CreatedBy
<1> QED BY <1>1, OutputsFinite

\* Every step keeps the baseline at or below what later answers count.
LEMMA BaselineNext ==
    ASSUME UInv, [Next]_vars, ReceiverSpends = FALSE, Misread = FALSE
    PROVE  BaselineInv'
<1> USE DEF program, loop, chain
<1>0. /\ Types /\ Ledger /\ Protocol /\ BaselineInv /\ baseline \in Nat
  BY DEF UInv, IInv, Types
<1>1. CASE ReadTip \/ Build \/ CallFails \/ SubmitFails \/ Report \/ WaitFails
  BY <1>1 DEF ReadTip, Build, CallFails, SubmitFails, Report, WaitFails, Fail, BaselineInv
<1>2. CASE ReadBaseline
  <2>1. PICK v \in Views : baseline' = Balance(v)
    BY <1>2, ReadingType DEF ReadBaseline
  <2>2. step' = "submit" /\ request' = "none" /\ UNCHANGED <<round, created, ttl>>
    BY <1>0, <1>2 DEF ReadBaseline, Protocol
  <2>3. created[round] = Never
    BY <1>0, <1>2 DEF ReadBaseline, Protocol, Ledger, Types
  <2>4. {o \in Outputs : CreatedBy(o, v) /\ ~SpentBy(o, v)} \in SUBSET Existing
    BY <2>3 DEF Existing, CreatedBy
  <2>5. Existing \in SUBSET Outputs /\ Existing' = Existing
    BY <2>2 DEF Existing
  <2>6. baseline' <= Cardinality(Existing')
    BY <2>1, <2>4, <2>5, OutputsFinite DEF Balance
  <2> QED BY <2>2, <2>6 DEF BaselineInv
<1>3. ASSUME baseline' = baseline, round' = round, ttl' = ttl,
             (step = "submit" /\ request' = "sent" /\ request # "accepted")
                \/ (step' = step /\ request' = request)
                \/ (step' = step /\ request' = "rejected" /\ request # "accepted")
                \/ (step' = "wait" /\ step = "submitting" /\ request = "accepted"
                    /\ request' = request),
             \A o \in Outputs : created[o] # Never => created'[o] = created[o]
      PROVE  BaselineInv'
  BY <1>0, <1>3, ExistingGrows DEF BaselineInv
<1>4. CASE Submit \/ SubmitOk \/ LoopStep
  BY <1>0, <1>3, <1>4 DEF Submit, SubmitOk, LoopStep, Protocol
<1>5. CASE Tick \/ NodeRejects \/ FireTimer \/ PollAnswered \/ PollFails
  BY <1>3, <1>5 DEF Tick, NodeRejects, FireTimer, PollAnswered, PollFails
<1>6. CASE NodeAccepts
  <2>1. /\ slot <= ttl[round] /\ request # "accepted"
        /\ UNCHANGED <<step, round, ttl, baseline, created>>
    BY <1>6 DEF NodeAccepts
  <2>2. \A o \in Existing : CreatedBy(o, ttl[round])
    <3> SUFFICES ASSUME NEW o \in Existing PROVE CreatedBy(o, ttl[round])
      OBVIOUS
    <3>1. o \in Outputs /\ created[o] # Never
      BY DEF Existing
    <3>2. created[o] \in 0..slot /\ slot \in Nat /\ ttl[round] \in Int
      BY <1>0, <3>1 DEF Ledger, Types
    <3> QED BY <2>1, <3>1, <3>2 DEF CreatedBy
  <2>3. Existing \in SUBSET ExistingBy(ttl[round])
    BY <2>2 DEF Existing, ExistingBy
  <2>4. /\ ExistingBy(ttl[round]) \in SUBSET Outputs
        /\ ExistingBy(ttl[round])' = ExistingBy(ttl[round])
    BY <2>1 DEF ExistingBy, CreatedBy
  <2>5. /\ Cardinality(Existing) <= Cardinality(ExistingBy(ttl[round])')
        /\ Cardinality(Existing) \in Nat
        /\ Cardinality(ExistingBy(ttl[round])') \in Nat
    BY <2>3, <2>4, OutputsFinite
  <2>6. step = "submitting" => baseline <= Cardinality(Existing)
    BY <1>0, <2>1 DEF BaselineInv
  <2>7. step # "wait"
    BY <1>0, <2>1 DEF Protocol
  <2>8. request' = "accepted"
    BY <1>6 DEF NodeAccepts
  <2> QED BY <1>0, <2>1, <2>5, <2>6, <2>7, <2>8 DEF BaselineInv
<1>7. ASSUME NEW o, Include(o) \/ OtherPays(o) \/ Spend(o) PROVE BaselineInv'
  <2>1. /\ UNCHANGED <<step, request, round, ttl, baseline>>
        /\ \A p \in Outputs : created[p] # Never => created'[p] = created[p]
    BY <1>0, <1>7 DEF Include, OtherPays, Spend, Types
  <2> QED BY <1>3, <2>1
<1>8. CASE UNCHANGED vars
  BY <1>3, <1>8 DEF vars
<1> QED
  BY <1>1, <1>2, <1>4, <1>5, <1>6, <1>7, <1>8 DEF Next, Program, Answered, Environment, Exited

\* Every step keeps the rest of the invariant: a poll behind the time to live
\* that is answered with "again" has counted all that could be there.
LEMMA MissedNext ==
    ASSUME UInv, [Next]_vars, ReceiverSpends = FALSE, Misread = FALSE
    PROVE  MissedInv'
<1> USE TransferAssumption DEF program, loop, chain
<1>0. /\ Types /\ Timing /\ Ledger /\ Protocol /\ BaselineInv /\ MissedInv
      /\ slot \in Nat /\ round \in Own /\ ttl[round] \in Int
      /\ count \in Nat
      /\ pc = "head" => count <= NumRetries
      /\ reply \in {"none", "stop", "again", "soft", "hard"}
  BY DEF UInv, IInv, Types, Loop!IInv, Loop!TypeOK, Loop!CountInv, Loop!Answers
\* Steps under which neither the round nor its output changes.
<1>1. ASSUME round' = round, ttl' = ttl, slot' \in {slot, slot + 1},
             created'[round] = created[round],
             LastPollFailed' \/ exit' = "timeout" => LastPollFailed \/ exit = "timeout"
      PROVE  MissedInv'
  BY <1>0, <1>1 DEF MissedInv, Missed
<1>2. CASE ReadTip \/ Build \/ ReadBaseline \/ CallFails \/ Submit \/ SubmitFails
  <2>1. step' # "wait" /\ exit' # "timeout"
    BY <1>0, <1>2 DEF ReadTip, Build, ReadBaseline, CallFails, Submit, SubmitFails,
       Fail, Timing
  <2> QED BY <2>1 DEF MissedInv, LastPollFailed
<1>3. CASE SubmitOk
  <2>1. pc' = "head" /\ count' = 0 /\ exit' = exit /\ step = "submitting"
    BY <1>3 DEF SubmitOk, Wait!Invoke
  <2> QED BY <1>0, <2>1 DEF MissedInv, LastPollFailed, Timing
<1>4. CASE LoopStep
  <2>1. /\ step = "wait" /\ exit = "none" /\ UNCHANGED <<step, exit, round, ttl, slot, created>>
    BY <1>0, <1>4 DEF LoopStep, Timing, Types
  <2>2. CASE Wait!HeadCall
    BY <1>1, <2>1, <2>2 DEF Wait!HeadCall, LastPollFailed
  <2>3. CASE Wait!HeadExhausted
    <3>1. pc = "head" /\ count = NumRetries
      BY <1>0, <2>3 DEF Wait!HeadExhausted
    <3>2. LastPollFailed
      BY <2>1, <3>1 DEF LastPollFailed
    <3> QED BY <1>1, <2>1, <3>2
  <2>4. CASE Wait!ReturnErr \/ Wait!ReturnNil \/ Wait!SelectCtx
    BY <1>1, <2>1, <2>4 DEF Wait!ReturnErr, Wait!ReturnNil, Wait!SelectCtx,
       Wait!Finish, LastPollFailed
  <2>5. CASE Wait!EnterSelect
    BY <1>1, <2>1, <2>5
    DEF Wait!EnterSelect, Wait!Retryable, Wait!Recoverable, LastPollFailed
  <2>6. CASE Wait!SelectTimer
    <3>1. pc = "select" /\ pc' = "head" /\ count' = count + 1
      BY <2>6 DEF Wait!SelectTimer
    <3>2. count' = NumRetries => count = NumRetries - 1
      BY <1>0, <3>1
    <3>3. LastPollFailed' => LastPollFailed
      BY <2>1, <3>1, <3>2 DEF LastPollFailed
    <3> QED BY <1>1, <2>1, <3>3
  <2> QED BY <1>4, <2>2, <2>3, <2>4, <2>5, <2>6 DEF LoopStep, Wait!LoopStep
<1>5. CASE PollAnswered
  <2>1. PICK v \in Views : Wait!Answer(IF Enough(Balance(v)) THEN "stop" ELSE "again")
    BY <1>5, ReadingType DEF PollAnswered
  <2>2. /\ step = "wait" /\ exit = "none" /\ pc = "call"
        /\ UNCHANGED <<step, exit, round, ttl, slot, created, pc, count>>
    BY <1>0, <1>5, <2>1 DEF PollAnswered, Wait!Answer, Timing, Types
  <2>3. reply' = IF Enough(Balance(v)) THEN "stop" ELSE "again"
    BY <2>1 DEF Wait!Answer
  <2>4. CASE count = NumRetries - 1 /\ ~Enough(Balance(v))
    <3>1. ttl[round] + (NumRetries - 1) * WaitTime <= slot + TTLInc
      BY <1>0, <2>2, <2>4 DEF Timing
    <3>2. (NumRetries - 1) * WaitTime \in Int
      OBVIOUS
    <3>3. ttl[round] + ViewLag < slot
      BY <1>0, <3>1, <3>2, TimingAssumption
    <3>4. v \in Nat /\ v <= slot /\ v + ViewLag >= slot
      BY <1>0 DEF Views
    <3>5. ttl[round] < slot /\ ttl[round] <= v
      BY <1>0, <3>3, <3>4
    <3>6. created[round] = Never
      <4> SUFFICES ASSUME created[round] # Never PROVE FALSE
        OBVIOUS
      <4>1. Balance(v) >= Cardinality(ExistingBy(ttl[round])) + 1
        BY <3>4, <3>5, LatePollSees DEF UInv
      <4>2. baseline <= Cardinality(ExistingBy(ttl[round]))
        BY <1>0, <2>2 DEF BaselineInv, Protocol
      <4>3. Cardinality(ExistingBy(ttl[round])) \in Nat
        <5>1. ExistingBy(ttl[round]) \in SUBSET Outputs
          BY DEF ExistingBy
        <5> QED BY <5>1, OutputsFinite
      <4>4. Balance(v) \in Nat /\ baseline \in Nat
        BY <1>0, BalanceType DEF Types
      <4> QED BY <2>4, <4>1, <4>2, <4>3, <4>4 DEF Enough
    <3> QED BY <2>2, <3>5, <3>6 DEF MissedInv, Missed
  <2>5. CASE ~(count = NumRetries - 1 /\ ~Enough(Balance(v)))
    BY <2>2, <2>3, <2>5 DEF MissedInv, LastPollFailed
  <2> QED BY <2>4, <2>5
<1>6. CASE PollFails
  <2>1. /\ exit = "none" /\ exit' = exit /\ pc' = "call" /\ reply' = "hard"
    BY <1>0, <1>6 DEF PollFails, Wait!Answer, Timing, Types
  <2> QED BY <2>1 DEF MissedInv, LastPollFailed
<1>7. CASE Report
  <2>1. exit' # "timeout" /\ step' # "wait"
    BY <1>0, <1>7 DEF Report, Timing
  <2> QED BY <2>1 DEF MissedInv, LastPollFailed
<1>8. CASE WaitFails
  <2>1. /\ step = "wait" /\ pc = "idle" /\ step' = "failed"
        /\ UNCHANGED <<round, ttl, slot, created>>
        /\ exit' = "timeout" => result = "timeout"
    BY <1>8 DEF WaitFails, Fail
  <2> QED BY <1>1, <2>1 DEF LastPollFailed
<1>9. CASE Tick \/ NodeAccepts \/ NodeRejects \/ FireTimer
  <2>1. /\ UNCHANGED <<round, ttl, created, step, exit, pc, reply, count, result>>
        /\ slot' \in {slot, slot + 1}
    BY <1>9 DEF Tick, NodeAccepts, NodeRejects, FireTimer, Wait!FireTimer
  <2> QED BY <1>1, <2>1 DEF LastPollFailed
<1>10. ASSUME NEW k \in Own, Include(k) PROVE MissedInv'
  <2>1. /\ UNCHANGED <<round, ttl, step, exit, pc, reply, count, result, slot>>
        /\ slot <= ttl[k] /\ created' = [created EXCEPT ![k] = slot]
    BY <1>10 DEF Include
  <2>2. CASE k = round
    <3>1. ~Missed
      BY <1>0, <2>1, <2>2 DEF Missed
    <3>2. ~(LastPollFailed' \/ exit' = "timeout")
      BY <1>0, <2>1, <3>1 DEF MissedInv, LastPollFailed
    <3> QED BY <3>2 DEF MissedInv
  <2>3. CASE k # round
    <3>1. created'[round] = created[round]
      BY <1>0, <2>1, <2>3 DEF Types, Outputs
    <3> QED BY <1>1, <2>1, <3>1 DEF LastPollFailed
  <2> QED BY <2>2, <2>3
<1>11. ASSUME NEW o \in Others, OtherPays(o) PROVE MissedInv'
  <2>1. /\ UNCHANGED <<round, ttl, step, exit, pc, reply, count, result, slot>>
        /\ created' = [created EXCEPT ![o] = slot] /\ o # round
    BY <1>0, <1>11 DEF OtherPays, Own
  <2>2. created'[round] = created[round]
    BY <1>0, <2>1 DEF Types, Outputs
  <2> QED BY <1>1, <2>1, <2>2 DEF LastPollFailed
<1>12. ASSUME NEW o \in Outputs, Spend(o) PROVE MissedInv'
  BY <1>12 DEF Spend
<1>13. CASE UNCHANGED vars
  BY <1>1, <1>13 DEF vars, LastPollFailed
<1> QED
  BY <1>2, <1>3, <1>4, <1>5, <1>6, <1>7, <1>8, <1>9, <1>10, <1>11, <1>12, <1>13
  DEF Next, Program, Answered, Environment, Exited

\* When submitTx returns ErrWaitForTransactionTimeout its transaction is not on
\* chain and never will be, so that transferring again cannot pay twice: with
\* other payers, and with answers that lag behind or go back in time, as long as
\* the receiver does not spend meanwhile and no reading of its balance falls
\* short (main.go:330-356, utils.go:32-41).
THEOREM TimeoutUnpaid ==
    ASSUME ReceiverSpends = FALSE, Misread = FALSE
    PROVE  Spec => []TimeoutMeansUnpaid
<1>1. Init => UInv
  <2> SUFFICES ASSUME Init PROVE UInv
    OBVIOUS
  <2>1. IInv
    BY TypesInit, LoopInit, TimingInit DEF IInv
  <2>2. Ledger /\ Protocol /\ BaselineInv /\ MissedInv
    BY DEF Init, Ledger, Protocol, BaselineInv, MissedInv, LastPollFailed, Outputs, Never
  <2> QED BY <2>1, <2>2 DEF UInv
<1>2. UInv /\ [Next]_vars => UInv'
  <2> SUFFICES ASSUME UInv, [Next]_vars PROVE UInv'
    OBVIOUS
  <2>1. IInv'
    BY TypesNext, LoopNext, TimingNext DEF UInv, IInv
  <2>2. Protocol'
    BY ProtocolNext DEF UInv, IInv
  <2> QED BY <2>1, <2>2, LedgerNext, BaselineNext, MissedNext DEF UInv
<1>3. UInv => TimeoutMeansUnpaid
  BY DEF UInv, MissedInv, Missed, TimeoutMeansUnpaid
<1> QED BY <1>1, <1>2, <1>3, PTL DEF Spec

(* ---------------------------- true reports ------------------------------- *)
(* Where nobody else pays the receiver and answers never go back in time,    *)
(* submitTx reports only what is on chain: for every number of rounds and    *)
(* polls, however far answers lag behind, also if the receiver spends.       *)

\* The provider has answered from a slot at which output k was there.
Seen(k) == created[k] # Never /\ created[k] <= lastView

\* A round's output is created after its transaction was accepted.
OwnFirst ==
    \A k \in Own : k > round \/ (k = round /\ request # "accepted") => created[k] = Never

\* Every round before this one was reported when its output had been seen.
EarlierSeen == \A k \in Own : k < round \/ k \in reported => Seen(k)

\* So was this one's, once a poll was answered with enough.
EnoughSeen ==
    step = "wait" /\ (\/ pc = "call" /\ reply = "stop"
                      \/ pc = "idle" /\ result = "nil") => Seen(round)

\* The outputs of earlier rounds that are unspent at slot v.
Unspent(v) == {o \in Own : o < round /\ ~SpentBy(o, v)}

\* No later answer counts more of them than the baseline did.
BaselineCovers ==
    step \in {"submit", "submitting", "wait"} =>
        \A v \in Nat : v >= lastView => Cardinality(Unspent(v)) <= baseline

RInv == IInv /\ Protocol /\ OwnFirst /\ EarlierSeen /\ EnoughSeen /\ BaselineCovers

\* What a step that moves the clock, the chain or the polling may do.
Onward ==
    /\ lastView' >= lastView
    /\ \A o \in Own : created[o] # Never => created'[o] = created[o]
    /\ \A o \in Own : spent[o] # Never => spent'[o] = spent[o]

\* Every step is such a step when answers never go back in time.
LEMMA GoesOnward ==
    ASSUME Types, [Next]_vars, MonotonicView = TRUE
    PROVE  Onward
<1> USE DEF program, loop, chain
<1>1. \A v \in Views : v >= lastView
  BY DEF Views
<1>2. CASE ReadTip \/ ReadBaseline \/ PollAnswered
  BY <1>1, <1>2 DEF ReadTip, ReadBaseline, PollAnswered, Onward
<1>3. CASE UNCHANGED <<lastView, created, spent>>
  BY <1>3 DEF Onward, Types
<1>4. CASE Build \/ CallFails \/ Submit \/ SubmitOk \/ SubmitFails \/ LoopStep
           \/ Report \/ WaitFails
  BY <1>3, <1>4 DEF Build, CallFails, Submit, SubmitOk, SubmitFails, LoopStep, Report,
     WaitFails
<1>5. CASE Tick \/ NodeAccepts \/ NodeRejects \/ FireTimer \/ PollFails
  BY <1>3, <1>5 DEF Tick, NodeAccepts, NodeRejects, FireTimer, PollFails
<1>6. ASSUME NEW o, Include(o) \/ OtherPays(o) \/ Spend(o) PROVE Onward
  <2>1. Own \in SUBSET Outputs /\ created \in [Outputs -> Int] /\ spent \in [Outputs -> Int]
        /\ lastView \in Nat
    BY DEF Outputs, Types
  <2>2. CASE Include(o) \/ OtherPays(o)
    BY <2>1, <2>2 DEF Include, OtherPays, Onward
  <2>3. CASE Spend(o)
    BY <2>1, <2>3 DEF Spend, Onward
  <2> QED BY <1>6, <2>2, <2>3
<1>7. CASE UNCHANGED vars
  BY <1>3, <1>7 DEF vars
<1> QED
  BY <1>2, <1>4, <1>5, <1>6, <1>7 DEF Next, Program, Answered, Environment, Exited

\* What has been seen stays seen.
LEMMA SeenStays ==
    ASSUME Types, Types', Onward, NEW k \in Own, Seen(k)
    PROVE  Seen(k)'
BY DEF Onward, Seen, Types, Outputs

\* Outputs are only spent, never unspent.
LEMMA UnspentShrinks ==
    ASSUME Types, Types', Onward, round' = round, NEW v \in Nat
    PROVE  /\ Cardinality(Unspent(v)') <= Cardinality(Unspent(v))
           /\ Cardinality(Unspent(v)') \in Nat /\ Cardinality(Unspent(v)) \in Nat
<1>1. Unspent(v)' \in SUBSET Unspent(v) /\ Unspent(v) \in SUBSET Outputs
  BY DEF Unspent, SpentBy, Onward, Outputs
<1> QED BY <1>1, OutputsFinite

\* An answer that shows enough shows the round's own output.
LEMMA EnoughShowsOwn ==
    ASSUME RInv, Others = {}, step = "wait", NEW v \in Nat, v >= lastView,
           Enough(Balance(v))
    PROVE  CreatedBy(round, v)
<1> SUFFICES ASSUME ~CreatedBy(round, v) PROVE FALSE
  OBVIOUS
<1> DEFINE A == {o \in Outputs : CreatedBy(o, v) /\ ~SpentBy(o, v)}
<1>1. A \in SUBSET Unspent(v) /\ Unspent(v) \in SUBSET Outputs
  <2> SUFFICES ASSUME NEW o \in A PROVE o \in Own /\ o < round /\ ~SpentBy(o, v)
    BY DEF Unspent, Outputs
  <2>1. o \in Own /\ created[o] # Never /\ o # round
    BY DEF Outputs, CreatedBy
  <2>2. ~(o > round)
    BY <2>1 DEF RInv, OwnFirst
  <2>3. o \in Int /\ round \in Int
    BY <2>1 DEF RInv, IInv, Types, Own
  <2> QED BY <2>1, <2>2, <2>3
<1>2. Cardinality(A) <= Cardinality(Unspent(v)) /\ Cardinality(Unspent(v)) \in Nat
      /\ Cardinality(A) \in Nat
  BY <1>1, OutputsFinite
<1>3. Cardinality(Unspent(v)) <= baseline /\ baseline \in Nat
  BY DEF RInv, BaselineCovers, IInv, Types
<1>4. Balance(v) = Cardinality(A)
  BY DEF Balance
<1> HIDE DEF A
<1> QED BY <1>2, <1>3, <1>4 DEF Enough

\* Every step keeps the outputs behind their acceptance.
LEMMA OwnFirstNext ==
    ASSUME RInv, [Next]_vars
    PROVE  OwnFirst'
<1> USE DEF program, loop, chain
<1>0. /\ OwnFirst /\ Protocol /\ round \in Own /\ created \in [Outputs -> Int]
      /\ Own \in SUBSET Int /\ Own \in SUBSET Outputs /\ Own \cap Others = {}
  BY TransferAssumption DEF RInv, IInv, Types, Own, Outputs
<1>1. CASE UNCHANGED <<created, round, request>>
  BY <1>0, <1>1 DEF OwnFirst
<1>2. CASE ReadTip \/ Build \/ ReadBaseline \/ CallFails \/ SubmitOk \/ SubmitFails
           \/ LoopStep \/ WaitFails \/ Tick \/ FireTimer \/ PollAnswered \/ PollFails
  BY <1>1, <1>2 DEF ReadTip, Build, ReadBaseline, CallFails, SubmitOk, SubmitFails,
     LoopStep, WaitFails, Tick, FireTimer, PollAnswered, PollFails
<1>3. CASE Submit \/ NodeAccepts \/ NodeRejects
  <2>1. UNCHANGED <<created, round>> /\ request # "accepted"
    BY <1>0, <1>3 DEF Submit, NodeAccepts, NodeRejects, Protocol
  <2> QED BY <1>0, <2>1 DEF OwnFirst
<1>4. CASE Report
  BY <1>0, <1>4 DEF Report, OwnFirst
<1>5. ASSUME NEW k \in Own, Include(k) PROVE OwnFirst'
  <2>1. /\ UNCHANGED <<round, request>> /\ created' = [created EXCEPT ![k] = slot]
        /\ k <= round /\ (k = round => request = "accepted")
    BY <1>0, <1>5 DEF Include, Sent
  <2> QED BY <1>0, <2>1 DEF OwnFirst
<1>6. ASSUME NEW o \in Others, OtherPays(o) PROVE OwnFirst'
  BY <1>0, <1>6 DEF OtherPays, OwnFirst
<1>7. ASSUME NEW o \in Outputs, Spend(o) PROVE OwnFirst'
  BY <1>1, <1>7 DEF Spend
<1>8. CASE UNCHANGED vars
  BY <1>1, <1>8 DEF vars
<1> QED
  BY <1>2, <1>3, <1>4, <1>5, <1>6, <1>7, <1>8 DEF Next, Program, Answered, Environment, Exited

\* Every step keeps what earlier rounds have seen; a report moves on to the next.
LEMMA EarlierSeenNext ==
    ASSUME RInv, Types', Onward, [Next]_vars
    PROVE  EarlierSeen'
<1> USE DEF program, loop, chain
<1>0. Types /\ EarlierSeen /\ EnoughSeen
  BY DEF RInv, IInv
<1>1. CASE UNCHANGED <<round, reported>>
  BY <1>0, <1>1, SeenStays DEF EarlierSeen
<1>2. CASE Report
  <2>1. Seen(round) /\ reported' = reported \cup {round} /\ round' \in {round, round + 1}
    BY <1>0, <1>2 DEF Report, EnoughSeen
  <2>2. \A k \in Own : k < round' \/ k \in reported' => k < round \/ k = round \/ k \in reported
    BY <1>0, <2>1 DEF Own, Types
  <2> QED BY <1>0, <2>1, <2>2, SeenStays DEF EarlierSeen
<1>3. CASE ReadTip \/ Build \/ ReadBaseline \/ CallFails \/ Submit \/ SubmitOk
           \/ SubmitFails \/ LoopStep \/ WaitFails
  BY <1>1, <1>3 DEF ReadTip, Build, ReadBaseline, CallFails, Submit, SubmitOk,
     SubmitFails, LoopStep, WaitFails
<1>4. CASE Tick \/ NodeAccepts \/ NodeRejects \/ FireTimer \/ PollAnswered \/ PollFails
  BY <1>1, <1>4 DEF Tick, NodeAccepts, NodeRejects, FireTimer, PollAnswered, PollFails
<1>5. ASSUME NEW o, Include(o) \/ OtherPays(o) \/ Spend(o) PROVE EarlierSeen'
  BY <1>1, <1>5 DEF Include, OtherPays, Spend
<1>6. CASE UNCHANGED vars
  BY <1>1, <1>6 DEF vars
<1> QED
  BY <1>2, <1>3, <1>4, <1>5, <1>6 DEF Next, Program, Answered, Environment, Exited

\* Every step keeps the meaning of an answer that was enough.
LEMMA EnoughSeenNext ==
    ASSUME RInv, Types', Onward, [Next]_vars, Others = {}, MonotonicView = TRUE,
           Misread = FALSE
    PROVE  EnoughSeen'
<1> USE DEF program, loop, chain
<1>0. /\ Types /\ EnoughSeen /\ Timing /\ round \in Own
      /\ slot \in Nat /\ lastView \in Nat
  BY DEF RInv, IInv, Types
<1>1. CASE UNCHANGED <<step, round, pc, reply, result>>
  BY <1>0, <1>1, SeenStays DEF EnoughSeen
<1>2. CASE step' # "wait"
  BY <1>2 DEF EnoughSeen
<1>3. CASE ReadTip \/ Build \/ ReadBaseline \/ CallFails \/ Submit \/ SubmitFails
           \/ Report \/ WaitFails
  BY <1>2, <1>3 DEF ReadTip, Build, ReadBaseline, CallFails, Submit, SubmitFails,
     Report, WaitFails, Fail
<1>4. CASE SubmitOk
  BY <1>4 DEF SubmitOk, Wait!Invoke, EnoughSeen
<1>5. CASE LoopStep
  <2>1. step = "wait" /\ UNCHANGED <<step, round>>
    BY <1>5 DEF LoopStep
  <2>2. CASE Wait!HeadCall
    BY <2>2 DEF Wait!HeadCall, EnoughSeen
  <2>3. CASE Wait!HeadExhausted \/ Wait!EnterSelect \/ Wait!SelectCtx \/ Wait!SelectTimer
    BY <2>3 DEF Wait!HeadExhausted, Wait!EnterSelect, Wait!SelectCtx, Wait!SelectTimer,
       Wait!Finish, EnoughSeen
  <2>4. CASE Wait!ReturnErr
    BY <2>4 DEF Wait!ReturnErr, Wait!Finish, EnoughSeen
  <2>5. CASE Wait!ReturnNil
    <3>1. pc = "call" /\ reply = "stop"
      BY <2>5 DEF Wait!ReturnNil
    <3> QED BY <1>0, <2>1, <3>1, SeenStays DEF EnoughSeen
  <2> QED BY <1>5, <2>2, <2>3, <2>4, <2>5 DEF LoopStep, Wait!LoopStep
<1>6. CASE PollAnswered
  <2>1. PICK v \in Views :
            /\ Wait!Answer(IF Enough(Balance(v)) THEN "stop" ELSE "again")
            /\ lastView' = v
    BY <1>6, ReadingType DEF PollAnswered
  <2>2. /\ step = "wait" /\ UNCHANGED <<step, round, created>> /\ pc' = "call"
        /\ reply' = IF Enough(Balance(v)) THEN "stop" ELSE "again"
    BY <1>6, <2>1 DEF PollAnswered, Wait!Answer
  <2>3. v \in Nat /\ v >= lastView
    BY <1>0 DEF Views
  <2>4. Enough(Balance(v)) => Seen(round)'
    BY <2>1, <2>2, <2>3, EnoughShowsOwn DEF CreatedBy, Seen
  <2> QED BY <2>2, <2>4 DEF EnoughSeen
<1>7. CASE PollFails
  BY <1>7 DEF PollFails, Wait!Answer, EnoughSeen
<1>8. CASE Tick \/ NodeAccepts \/ NodeRejects \/ FireTimer
  BY <1>1, <1>8 DEF Tick, NodeAccepts, NodeRejects, FireTimer, Wait!FireTimer
<1>9. ASSUME NEW o, Include(o) \/ OtherPays(o) \/ Spend(o) PROVE EnoughSeen'
  BY <1>1, <1>9 DEF Include, OtherPays, Spend
<1>10. CASE UNCHANGED vars
  BY <1>1, <1>10 DEF vars
<1> QED
  BY <1>3, <1>4, <1>5, <1>6, <1>7, <1>8, <1>9, <1>10 DEF Next, Program, Answered, Environment, Exited

\* Every step keeps the baseline above what later answers count of earlier rounds.
LEMMA BaselineCoversNext ==
    ASSUME RInv, Types', Onward, [Next]_vars, MonotonicView = TRUE, Misread = FALSE
    PROVE  BaselineCovers'
<1> USE DEF program, loop, chain
<1>0. /\ Types /\ BaselineCovers /\ EarlierSeen /\ baseline \in Nat
      /\ lastView \in Nat /\ lastView' \in Nat
  BY DEF RInv, IInv, Types
<1>1. CASE /\ UNCHANGED <<round, baseline>>
           /\ step \in {"submit", "submitting", "wait"}
  <2> SUFFICES ASSUME NEW v \in Nat, v >= lastView'
               PROVE  Cardinality(Unspent(v)') <= baseline
    BY <1>1 DEF BaselineCovers
  <2>1. v >= lastView
    BY <1>0 DEF Onward
  <2> QED BY <1>0, <1>1, <2>1, UnspentShrinks DEF BaselineCovers
<1>2. CASE step' \notin {"submit", "submitting", "wait"}
  BY <1>2 DEF BaselineCovers
<1>3. CASE ReadBaseline
  <2>1. PICK w \in Views : baseline' = Balance(w) /\ lastView' = w
    BY <1>3, ReadingType DEF ReadBaseline
  <2>2. UNCHANGED <<round, created, spent>>
    BY <1>3 DEF ReadBaseline
  <2>3. w \in Nat /\ w >= lastView
    BY <1>0, <2>1 DEF Views, Types
  <2> SUFFICES ASSUME NEW v \in Nat, v >= w PROVE Cardinality(Unspent(v)') <= baseline'
    BY <2>1 DEF BaselineCovers
  <2> DEFINE A == {o \in Outputs : CreatedBy(o, w) /\ ~SpentBy(o, w)}
  <2>4. Unspent(v)' = Unspent(v)
    BY <2>2 DEF Unspent, SpentBy
  <2>5. Unspent(v) \in SUBSET A
    <3> SUFFICES ASSUME NEW o \in Own, o < round, ~SpentBy(o, v) PROVE o \in A
      BY DEF Unspent
    <3>1. o \in Outputs /\ created[o] \in Int /\ spent[o] \in Int
      BY <1>0 DEF Types, Outputs
    <3>2. created[o] # Never /\ created[o] <= lastView
      BY <1>0 DEF EarlierSeen, Seen
    <3> QED BY <1>0, <2>3, <3>1, <3>2 DEF CreatedBy, SpentBy
  <2>6. Cardinality(Unspent(v)) <= Cardinality(A)
    BY <2>5, OutputsFinite
  <2> QED BY <2>1, <2>4, <2>6 DEF Balance
<1>4. CASE ReadTip \/ Build \/ CallFails \/ SubmitFails \/ Report \/ WaitFails
  BY <1>2, <1>4 DEF ReadTip, Build, CallFails, SubmitFails, Report, WaitFails, Fail
<1>5. CASE Submit \/ SubmitOk \/ LoopStep
  BY <1>1, <1>5 DEF Submit, SubmitOk, LoopStep
<1>6. CASE UNCHANGED <<step, round, baseline>>
  BY <1>1, <1>2, <1>6
<1>7. CASE Tick \/ NodeAccepts \/ NodeRejects \/ FireTimer \/ PollAnswered \/ PollFails
  BY <1>6, <1>7 DEF Tick, NodeAccepts, NodeRejects, FireTimer, PollAnswered, PollFails
<1>8. ASSUME NEW o, Include(o) \/ OtherPays(o) \/ Spend(o) PROVE BaselineCovers'
  BY <1>6, <1>8 DEF Include, OtherPays, Spend
<1>9. CASE UNCHANGED vars
  BY <1>6, <1>9 DEF vars
<1> QED
  BY <1>3, <1>4, <1>5, <1>7, <1>8, <1>9 DEF Next, Program, Answered, Environment, Exited

\* "transaction has been included in block" is printed only for a transaction
\* that is on chain, if nobody else pays the receiver, no reading of its balance
\* falls short and the provider's answers never go back in time, however far they lag behind and also if the receiver
\* spends while the program polls (main.go:333-353).
THEOREM ReportsTrue ==
    ASSUME Others = {}, MonotonicView = TRUE, Misread = FALSE
    PROVE  Spec => []ReportedIsIncluded
<1>1. Init => RInv
  <2> SUFFICES ASSUME Init PROVE RInv
    OBVIOUS
  <2>1. IInv
    BY TypesInit, LoopInit, TimingInit DEF IInv
  <2>2. Protocol /\ OwnFirst /\ EarlierSeen /\ EnoughSeen /\ BaselineCovers
    BY DEF Init, Protocol, OwnFirst, EarlierSeen, EnoughSeen, BaselineCovers, Own, Outputs
  <2> QED BY <2>1, <2>2 DEF RInv
<1>2. RInv /\ [Next]_vars => RInv'
  <2> SUFFICES ASSUME RInv, [Next]_vars PROVE RInv'
    OBVIOUS
  <2>1. IInv'
    BY TypesNext, LoopNext, TimingNext DEF RInv, IInv
  <2>2. Types /\ Types'
    BY <2>1 DEF RInv, IInv
  <2>3. Onward
    BY <2>2, GoesOnward
  <2>4. Protocol'
    BY <2>2, ProtocolNext DEF RInv
  <2> QED BY <2>1, <2>2, <2>3, <2>4, OwnFirstNext, EarlierSeenNext, EnoughSeenNext,
             BaselineCoversNext DEF RInv
<1>3. RInv => ReportedIsIncluded
  BY DEF RInv, EarlierSeen, Seen, ReportedIsIncluded, IInv, Types
<1> QED BY <1>1, <1>2, <1>3, PTL DEF Spec
=============================================================================
