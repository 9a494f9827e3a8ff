--------------------------- MODULE CliUtilsProof ----------------------------
(* Proofs about CliUtils: whichever step of a call fails, its results fit    *)
(* its error, and no partial result passes for a whole one.                  *)
EXTENDS CliUtils, TLAPS, SequenceTheorems

\* A running call is at a step of its plan and holds what its commands have
\* printed so far; only "stake-wallet" runs a second command.
Running ==
    at # 0 =>
        /\ call \in AllCalls
        /\ at \in DOMAIN Plan(call)
        /\ outputs = IF at = 4 THEN <<{"key", "stake-key"}>> ELSE <<>>

Inv == TypeOK /\ ResultsFitError /\ Running

\* The plans, step by step.
LEMMA Plans ==
    /\ Plan("wallet") = <<File("key"), Run({"key"})>>
    /\ Plan("stake-wallet") = <<File("key"), File("stake-key"),
                                Run({"key", "stake-key"}), Run({"stake-key"})>>
    /\ Plan("address") = <<File("script"), Run({"script"})>>
    /\ Plan("stake-address") = <<File("script"), File("stake-script"),
                                 Run({"script", "stake-script"})>>
    /\ Plan("policy-id") = <<File("script"), Run({"script"})>>
    /\ Plan("tx-hash") = <<File("tx"), Run({"tx"})>>
BY DEF Plan

\* A plan has two, three or four steps; four only that of a wallet address with a stake key.
LEMMA PlanLengths ==
    ASSUME NEW c \in AllCalls
    PROVE  /\ Len(Plan(c)) \in {2, 3, 4}
           /\ DOMAIN Plan(c) = 1..Len(Plan(c))
           /\ Len(Plan(c)) = 4 <=> c = "stake-wallet"
BY Plans DEF AllCalls

\* What a step does.
LEMMA Deeds == \A f, fs : File(f).do = "file" /\ Run(fs).do = "run" /\ Run(fs).on = fs
BY DEF File, Run

\* In a plan of two steps the run is the last.
LEMMA TwoSteps ==
    ASSUME NEW p, NEW i \in {1, 2}, Len(p) = 2, p[1].do = "file", p[2].do = "run"
    PROVE  /\ p[i].do = "file" => i < Len(p) /\ i < 3
           /\ p[i].do = "run" => i = Len(p)
OBVIOUS

\* In a plan of three steps the run is the last.
LEMMA ThreeSteps ==
    ASSUME NEW p, NEW i \in {1, 2, 3}, Len(p) = 3,
           p[1].do = "file", p[2].do = "file", p[3].do = "run"
    PROVE  /\ p[i].do = "file" => i < Len(p) /\ i < 3
           /\ p[i].do = "run" => i = Len(p)
OBVIOUS

\* In a plan of four steps the runs are the last two.
LEMMA FourSteps ==
    ASSUME NEW p, NEW i \in {1, 2, 3, 4}, Len(p) = 4,
           p[1].do = "file", p[2].do = "file", p[3].do = "run", p[4].do = "run"
    PROVE  /\ p[i].do = "file" => i < Len(p) /\ i < 3
           /\ p[i].do = "run" => i = Len(p) \/ i = 3
OBVIOUS

\* The commands are the last steps, and only "stake-wallet" has two of them.
LEMMA LastIsRun ==
    ASSUME NEW c \in AllCalls, NEW i \in DOMAIN Plan(c)
    PROVE  /\ Plan(c)[i].do = "file" => i < Len(Plan(c)) /\ i < 3
           /\ Plan(c)[i].do = "run" => i = Len(Plan(c)) \/ (c = "stake-wallet" /\ i = 3)
<1>1. CASE c = "wallet"
  <2>1. /\ i \in 1..2 /\ Len(Plan(c)) = 2
        /\ Plan(c)[1] = File("key")
        /\ Plan(c)[2] = Run({"key"})
    BY <1>1, Plans
  <2>2. /\ Len(Plan(c)) = 2
        /\ Plan(c)[1].do = "file"
        /\ Plan(c)[2].do = "run"
    BY <2>1, Deeds
  <2>3. i \in {1, 2}
    BY <2>1
  <2> QED BY <1>1, <2>2, <2>3, TwoSteps
<1>2. CASE c = "stake-wallet"
  <2>1. /\ i \in 1..4 /\ Len(Plan(c)) = 4
        /\ Plan(c)[1] = File("key")
        /\ Plan(c)[2] = File("stake-key")
        /\ Plan(c)[3] = Run({"key", "stake-key"})
        /\ Plan(c)[4] = Run({"stake-key"})
    BY <1>2, Plans
  <2>2. /\ Len(Plan(c)) = 4
        /\ Plan(c)[1].do = "file"
        /\ Plan(c)[2].do = "file"
        /\ Plan(c)[3].do = "run"
        /\ Plan(c)[4].do = "run"
    BY <2>1, Deeds
  <2>3. i \in {1, 2, 3, 4}
    BY <2>1
  <2> QED BY <1>2, <2>2, <2>3, FourSteps
<1>3. CASE c = "address"
  <2>1. /\ i \in 1..2 /\ Len(Plan(c)) = 2
        /\ Plan(c)[1] = File("script")
        /\ Plan(c)[2] = Run({"script"})
    BY <1>3, Plans
  <2>2. /\ Len(Plan(c)) = 2
        /\ Plan(c)[1].do = "file"
        /\ Plan(c)[2].do = "run"
    BY <2>1, Deeds
  <2>3. i \in {1, 2}
    BY <2>1
  <2> QED BY <1>3, <2>2, <2>3, TwoSteps
<1>4. CASE c = "stake-address"
  <2>1. /\ i \in 1..3 /\ Len(Plan(c)) = 3
        /\ Plan(c)[1] = File("script")
        /\ Plan(c)[2] = File("stake-script")
        /\ Plan(c)[3] = Run({"script", "stake-script"})
    BY <1>4, Plans
  <2>2. /\ Len(Plan(c)) = 3
        /\ Plan(c)[1].do = "file"
        /\ Plan(c)[2].do = "file"
        /\ Plan(c)[3].do = "run"
    BY <2>1, Deeds
  <2>3. i \in {1, 2, 3}
    BY <2>1
  <2> QED BY <1>4, <2>2, <2>3, ThreeSteps
<1>5. CASE c = "policy-id"
  <2>1. /\ i \in 1..2 /\ Len(Plan(c)) = 2
        /\ Plan(c)[1] = File("script")
        /\ Plan(c)[2] = Run({"script"})
    BY <1>5, Plans
  <2>2. /\ Len(Plan(c)) = 2
        /\ Plan(c)[1].do = "file"
        /\ Plan(c)[2].do = "run"
    BY <2>1, Deeds
  <2>3. i \in {1, 2}
    BY <2>1
  <2> QED BY <1>5, <2>2, <2>3, TwoSteps
<1>6. CASE c = "tx-hash"
  <2>1. /\ i \in 1..2 /\ Len(Plan(c)) = 2
        /\ Plan(c)[1] = File("tx")
        /\ Plan(c)[2] = Run({"tx"})
    BY <1>6, Plans
  <2>2. /\ Len(Plan(c)) = 2
        /\ Plan(c)[1].do = "file"
        /\ Plan(c)[2].do = "run"
    BY <2>1, Deeds
  <2>3. i \in {1, 2}
    BY <2>1
  <2> QED BY <1>6, <2>2, <2>3, TwoSteps
<1> QED BY <1>1, <1>2, <1>3, <1>4, <1>5, <1>6 DEF AllCalls

\* Appending to one element makes a pair.
LEMMA AppendPair ==
    ASSUME NEW x, NEW y
    PROVE  Append(<<x>>, y) = <<x, y>>
<1> DEFINE S == {x, y}
<1>1. <<x>> \in Seq(S) /\ <<x, y>> \in Seq(S) /\ y \in S
  OBVIOUS
<1> HIDE DEF S
<1>2. Append(<<x>>, y) \in Seq(S) /\ Len(Append(<<x>>, y)) = 2
  BY <1>1
<1>3. \A i \in 1..2 : Append(<<x>>, y)[i] = <<x, y>>[i]
  BY <1>1, <1>2
<1> QED BY <1>1, <1>2, <1>3, SeqEqual

\* What the last command prints completes the results.
LEMMA LastCompletes ==
    ASSUME NEW c \in AllCalls, NEW i, i = Len(Plan(c))
    PROVE  Append(IF i = 4 THEN <<{"key", "stake-key"}>> ELSE <<>>, Plan(c)[i].on)
            = Results(c)
<1>1. CASE c = "wallet"
  <2>1. Plan(c) = <<File("key"), Run({"key"})>>
    BY <1>1, Plans
  <2>2. Results(c) = <<{"key"}>>
    BY <1>1 DEF Results
  <2> QED BY <2>1, <2>2 DEF File, Run
<1>2. CASE c = "stake-wallet"
  <2>1. Plan(c) = <<File("key"), File("stake-key"),
                         Run({"key", "stake-key"}), Run({"stake-key"})>>
    BY <1>2, Plans
  <2>2. Results(c) = <<{"key", "stake-key"}, {"stake-key"}>>
    BY <1>2 DEF Results
  <2>3. Plan(c)[4].on = {"stake-key"} /\ i = 4
    BY <2>1, Deeds
  <2>4. Append(<<{"key", "stake-key"}>>, {"stake-key"}) = Results(c)
    BY <2>2, AppendPair
  <2> QED BY <2>3, <2>4
<1>3. CASE c = "address"
  <2>1. Plan(c) = <<File("script"), Run({"script"})>>
    BY <1>3, Plans
  <2>2. Results(c) = <<{"script"}>>
    BY <1>3 DEF Results
  <2> QED BY <2>1, <2>2 DEF File, Run
<1>4. CASE c = "stake-address"
  <2>1. Plan(c) = <<File("script"), File("stake-script"),
                         Run({"script", "stake-script"})>>
    BY <1>4, Plans
  <2>2. Results(c) = <<{"script", "stake-script"}>>
    BY <1>4 DEF Results
  <2> QED BY <2>1, <2>2 DEF File, Run
<1>5. CASE c = "policy-id"
  <2>1. Plan(c) = <<File("script"), Run({"script"})>>
    BY <1>5, Plans
  <2>2. Results(c) = <<{"script"}>>
    BY <1>5 DEF Results
  <2> QED BY <2>1, <2>2 DEF File, Run
<1>6. CASE c = "tx-hash"
  <2>1. Plan(c) = <<File("tx"), Run({"tx"})>>
    BY <1>6, Plans
  <2>2. Results(c) = <<{"tx"}>>
    BY <1>6 DEF Results
  <2> QED BY <2>1, <2>2 DEF File, Run
<1> QED BY <1>1, <1>2, <1>3, <1>4, <1>5, <1>6 DEF AllCalls

\* The invariant holds initially.
LEMMA InitInv == Init => Inv
BY CallsAssumption DEF Init, Inv, TypeOK, ResultsFitError, Running

\* Making the temporary directory keeps the invariant.
LEMMA BeginInv == ASSUME Inv, NEW c \in Calls, Begin(c) PROVE Inv'
<1> USE DEF Begin, Inv
<1>1. c \in AllCalls
  BY CallsAssumption DEF AllCalls
<1>2. TypeOK'
  <2>1. ret'.err \in BOOLEAN
    <3>1. CASE UNCHANGED ret
      BY <3>1 DEF TypeOK
    <3>2. CASE ret' = [err |-> TRUE, values |-> <<>>]
      BY <3>2
    <3> QED BY <3>1, <3>2
  <2>2. made' \in 0..MaxCalls /\ at' \in 0..4
    BY CallsAssumption DEF TypeOK
  <2> QED BY <1>1, <2>1, <2>2 DEF TypeOK
<1>3. ResultsFitError'
  BY DEF ResultsFitError
<1>4. Running'
  BY <1>1, PlanLengths DEF Running
<1> QED BY <1>2, <1>3, <1>4

\* Writing a file keeps the invariant.
LEMMA WriteFileInv == ASSUME Inv, WriteFile PROVE Inv'
<1> USE DEF WriteFile, Inv
<1>1. call \in AllCalls /\ at \in DOMAIN Plan(call) /\ at \in 1..4
  BY DEF Running, TypeOK
<1>2. at < Len(Plan(call)) /\ at < 3
  BY <1>1, LastIsRun DEF Step
<1>3. TypeOK'
  BY <1>1, <1>2 DEF TypeOK
<1>4. ResultsFitError'
  BY <1>1 DEF ResultsFitError
<1>5. Running'
  BY <1>1, <1>2, PlanLengths DEF Running
<1> QED BY <1>3, <1>4, <1>5

\* A successful run of cardano-cli keeps the invariant.
LEMMA RunCommandInv == ASSUME Inv, RunCommand PROVE Inv'
<1> USE DEF RunCommand, Inv
<1>1. call \in AllCalls /\ at \in DOMAIN Plan(call) /\ at \in 1..4
  BY DEF Running, TypeOK
<1>2. Step.do = "run"
  OBVIOUS
<1>3. outputs' = Append(IF at = 4 THEN <<{"key", "stake-key"}>> ELSE <<>>, Step.on)
  BY <1>1 DEF Running
<1>4. CASE at = Len(Plan(call))
  <2>1. outputs' = Results(call)
    BY <1>1, <1>3, <1>4, LastCompletes DEF Step
  <2>2. at' = 0 /\ dir' = "absent" /\ files' = {} /\ call' = call /\ made' = made
        /\ ret' = [err |-> FALSE, values |-> Results(call)]
    BY <1>4, <2>1 DEF Return
  <2> QED BY <2>2, <1>1 DEF TypeOK, ResultsFitError, Running
<1>5. CASE at # Len(Plan(call))
  <2>1. call = "stake-wallet" /\ at = 3
    BY <1>1, <1>2, <1>5, LastIsRun DEF Step
  <2>2. Step.on = {"key", "stake-key"}
    BY <2>1, Plans DEF Step, Run
  <2>3. outputs' = <<{"key", "stake-key"}>>
    BY <1>3, <2>1, <2>2
  <2>4. at' = 4 /\ UNCHANGED <<call, dir, files, ret, made>>
    BY <1>5, <2>1
  <2>5. 4 \in DOMAIN Plan("stake-wallet")
    BY Plans
  <2> QED BY <1>1, <2>1, <2>3, <2>4, <2>5 DEF TypeOK, ResultsFitError, Running
<1> QED BY <1>4, <1>5

\* A failed step, whose directory is removed, keeps the invariant.
LEMMA StepFailsInv == ASSUME Inv, StepFails PROVE Inv'
<1> USE DEF StepFails, Return, Inv
<1>1. call \in AllCalls /\ at \in DOMAIN Plan(call) /\ at \in 1..4
  BY DEF Running, TypeOK
<1>2. TypeOK' /\ Running'
  BY <1>1 DEF TypeOK, Running, Swallows
<1>3. ResultsFitError'
  <2>1. Step.do = "file" => at # 4
    BY <1>1, LastIsRun DEF Step
  <2>2. /\ ret' = [err |-> ~Swallows(call, Step), values |-> IF at = 4 THEN outputs ELSE <<>>]
        /\ call' = call
    OBVIOUS
  <2>3. CASE at = 4
    <3>1. call = "stake-wallet"
      BY <1>1, <2>3, PlanLengths
    <3>2. ~Swallows(call, Step)
      BY <2>1, <2>3 DEF Swallows
    <3>3. outputs = <<{"key", "stake-key"}>>
      BY <1>1, <2>3 DEF Running
    <3>4. call' = "stake-wallet"
      BY <2>2, <3>1
    <3>5. ret' = [err |-> TRUE, values |-> <<{"key", "stake-key"}>>]
      BY <2>2, <2>3, <3>2, <3>3
    <3>6. ret'.err /\ ret'.values = <<{"key", "stake-key"}>>
      BY <3>5
    <3> HIDE DEF StepFails, Return, Inv
    <3> QED BY <3>4, <3>6, Zenon DEF ResultsFitError
  <2>4. CASE at # 4
    <3>1. Swallows(call, Step) => call \in {"wallet", "stake-wallet"}
      BY DEF Swallows
    <3>2. Swallows(call, Step) \in BOOLEAN
      BY DEF Swallows
    <3>3. ret'.values = <<>> /\ ret'.err = ~Swallows(call, Step)
      BY <2>2, <2>4
    <3> HIDE DEF StepFails, Return, Inv
    <3> QED BY <2>2, <3>1, <3>2, <3>3 DEF ResultsFitError
  <2> QED BY <2>3, <2>4
<1> QED BY <1>2, <1>3

\* The invariant holds throughout.
LEMMA Invariance == Spec => []Inv
<1>1. Init => Inv
  BY InitInv
<1>2. Inv /\ [Next]_vars => Inv'
  <2> SUFFICES ASSUME Inv, [Next]_vars PROVE Inv'
    OBVIOUS
  <2>1. CASE Next
    BY <2>1, BeginInv, WriteFileInv, RunCommandInv, StepFailsInv DEF Next
  <2>2. CASE UNCHANGED vars
    BY <2>2 DEF vars, Inv, TypeOK, ResultsFitError, Running
  <2> QED BY <2>1, <2>2
<1> QED BY <1>1, <1>2, PTL DEF Spec

(* ------------------------------- theorems -------------------------------- *)

\* Types of a call's state; files exist only in a directory
\* (cli_utils.go:34-233).
THEOREM TypeCorrect == Spec => []TypeOK
<1>1. Inv => TypeOK
  BY DEF Inv
<1> QED BY <1>1, Invariance, PTL

\* A call hands out everything without an error, nothing with one, the address
\* with one where the second command for a stake wallet failed, and nothing
\* without one where GetWalletAddress dropped it: nothing else, whichever steps of
\* however many calls fail (cli_utils.go:34-108, 129-184, 200-233).
THEOREM ResultsAndErrors == Spec => []ResultsFitError
<1>1. Inv => ResultsFitError
  BY DEF Inv
<1> QED BY <1>1, Invariance, PTL
=============================================================================
