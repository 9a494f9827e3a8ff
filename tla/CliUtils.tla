------------------------------ MODULE CliUtils ------------------------------
(* core/cli_utils.go: the calls of CliUtils that write their arguments to    *)
(* files in a fresh temporary directory, run cardano-cli on them and return  *)
(* what it prints.  A call is its plan, the list of its steps; every step    *)
(* may fail.                                                                 *)
EXTENDS Naturals, Sequences

CONSTANTS
    Calls,      \* the calls that are made, a subset of AllCalls
    MaxCalls    \* bound: calls made, one after the other

ASSUME CallsAssumption ==
    /\ Calls \subseteq {"wallet", "stake-wallet", "address", "stake-address",
                  "policy-id", "tx-hash"}
    /\ MaxCalls \in Nat

VARIABLES
    call,       \* the running or last call, "none" at first
    at,         \* the step it is at, 0 when no call runs
    dir,        \* the call's directory: "absent" or "present"
    files,      \* the files in it
    outputs,    \* what cardano-cli has printed for this call
    ret,        \* the last call's error and results
    made        \* calls made so far

vars == <<call, at, dir, files, outputs, ret, made>>

(* ------------------------------- the plans ------------------------------- *)

\* wallets without and with a stake key, scripts without and with a stake script
AllCalls == {"wallet", "stake-wallet", "address", "stake-address",
             "policy-id", "tx-hash"}

\* A step encodes an argument and writes it, or runs cardano-cli on files; the
\* command's result is the set of the files it was computed from.
File(f) == [do |-> "file", on |-> {f}]
Run(fs) == [do |-> "run", on |-> fs]

Plan(c) ==
    CASE c = "wallet"        -> <<File("key"), Run({"key"})>>
      [] c = "stake-wallet"  -> <<File("key"), File("stake-key"),
                                  Run({"key", "stake-key"}), Run({"stake-key"})>>
      [] c = "address"       -> <<File("script"), Run({"script"})>>
      [] c = "stake-address" -> <<File("script"), File("stake-script"),
                                  Run({"script", "stake-script"})>>
      [] c = "policy-id"     -> <<File("script"), Run({"script"})>>
      [] c = "tx-hash"       -> <<File("tx"), Run({"tx"})>>

\* What each call promises, as the arguments that a result is computed from: an
\* address, for a stake wallet also the stake address, an id, a hash.
Results(c) ==
    CASE c = "wallet"        -> <<{"key"}>>
      [] c = "stake-wallet"  -> <<{"key", "stake-key"}, {"stake-key"}>>
      [] c = "address"       -> <<{"script"}>>
      [] c = "stake-address" -> <<{"script", "stake-script"}>>
      [] c = "policy-id"     -> <<{"script"}>>
      [] c = "tx-hash"       -> <<{"tx"}>>

\* GetWalletAddress returns a nil error when a key cannot be encoded or written.
Swallows(c, step) == c \in {"wallet", "stake-wallet"} /\ step.do = "file"

(* -------------------------------- the calls ------------------------------ *)

Init ==
    /\ call = "none" /\ at = 0
    /\ dir = "absent" /\ files = {} /\ outputs = <<>>
    /\ ret = [err |-> FALSE, values |-> <<>>]
    /\ made = 0

\* os.MkdirTemp, or its failure.
Begin(c) ==
    /\ at = 0 /\ made < MaxCalls
    /\ call' = c
    /\ made' = made + 1
    /\ files' = {} /\ outputs' = <<>>
    /\ \/ at' = 1 /\ dir' = "present" /\ UNCHANGED ret
       \/ at' = 0 /\ dir' = "absent" /\ ret' = [err |-> TRUE, values |-> <<>>]

\* Every return behind MkdirTemp runs the deferred RemoveAll.
Return(err, values) ==
    /\ at' = 0
    /\ dir' = "absent" /\ files' = {}
    /\ ret' = [err |-> err, values |-> values]
    /\ UNCHANGED <<call, made>>

Step == Plan(call)[at]

WriteFile ==
    /\ at # 0 /\ Step.do = "file" /\ dir = "present"
    /\ files' = files \cup Step.on
    /\ at' = at + 1
    /\ UNCHANGED <<call, dir, outputs, ret, made>>

\* Mutant: the first command is the last.
RunCommandOnce ==
    /\ at # 0 /\ Step.do = "run" /\ Step.on \subseteq files
    /\ outputs' = Append(outputs, Step.on)
    /\ Return(FALSE, outputs')

RunCommand ==
    /\ at # 0 /\ Step.do = "run" /\ Step.on \subseteq files
    /\ outputs' = Append(outputs, Step.on)
    /\ IF at = Len(Plan(call))
       THEN Return(FALSE, outputs')
       ELSE at' = at + 1 /\ UNCHANGED <<call, dir, files, ret, made>>

\* When the second command of GetWalletAddress fails, the address is returned
\* together with the error.
StepFails ==
    /\ at # 0
    /\ Return(~Swallows(call, Step), IF at = 4 THEN outputs ELSE <<>>)
    /\ UNCHANGED outputs

Next == (\E c \in Calls : Begin(c)) \/ WriteFile \/ RunCommand \/ StepFails

Spec == Init /\ [][Next]_vars

(* ------------------------------ properties ------------------------------- *)

\* Types of the state; files exist only in a directory.
TypeOK ==
    /\ call \in AllCalls \cup {"none"}
    /\ at \in 0..4
    /\ dir \in {"absent", "present"} /\ (dir = "absent" => files = {})
    /\ ret.err \in BOOLEAN
    /\ made \in 0..MaxCalls

\* What a call that has returned hands out fits its error and its kind: all that
\* its comment promises, computed from all of its own arguments; or an error and
\* nothing; or an error and the address, where the second command for a stake
\* wallet failed; or no error and nothing, where GetWalletAddress dropped one.
\* So results beside a nil error are never partial (cli_utils.go:34-108,
\* 129-184, 200-233).
ResultsFitError ==
    at = 0 /\ call # "none" =>
        \/ ~ret.err /\ ret.values = Results(call)
        \/ ret.err /\ ret.values = <<>>
        \/ ret.err /\ ret.values = <<{"key", "stake-key"}>> /\ call = "stake-wallet"
        \/ ~ret.err /\ ret.values = <<>> /\ call \in {"wallet", "stake-wallet"}

\* "GetWalletAddress returns address and stake address for wallet (if wallet is
\* stake wallet)" (cli_utils.go:128): whenever it returns no error.
ResultOrError ==
    at = 0 /\ call # "none" /\ ~ret.err => ret.values = Results(call)
=============================================================================
