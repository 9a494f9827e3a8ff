----------------------------- MODULE CliSubmit ------------------------------
(* core/txprovider_cli.go, SubmitTx: the signed transaction goes to          *)
(* cardano-cli in the file tx.send of the provider's directory.  Nothing     *)
(* orders the calls that goroutines make on one provider.                    *)
EXTENDS Naturals, FiniteSets

CONSTANTS
    Callers,    \* goroutines; each submits one transaction, named like itself
    Providers,  \* TxProviderCli objects
    ProviderOf  \* the provider each goroutine uses

ASSUME SubmitAssumption ==
    /\ IsFiniteSet(Callers)
    /\ ProviderOf \in [Callers -> Providers]

VARIABLES
    pc,         \* where each call is
    ret,        \* what it returned: "none", "ok" or "err"
    send,       \* tx.send of each provider: the transaction it holds, if any
    open,       \* the provider's directory exists
    answer,     \* what cardano-cli printed for each call
    accepted,   \* transactions that the node has taken into its mempool
    overlapped  \* history: calls that another call on their provider ran into

vars == <<pc, ret, send, open, answer, accepted, overlapped>>

Init ==
    /\ pc = [c \in Callers |-> "start"]
    /\ ret = [c \in Callers |-> "none"]
    /\ send = [p \in Providers |-> {}]
    /\ open = [p \in Providers |-> TRUE]
    /\ answer = [c \in Callers |-> "none"]
    /\ accepted = {}
    /\ overlapped = {}

\* Mutant: one directory for all providers.
FileOfAll(c) == CHOOSE p \in Providers : TRUE

\* The directory of NewTxProviderCli is a fresh one.
FileOf(c) == ProviderOf[c]

At(c, label)   == pc[c] = label
Goto(c, label) == pc' = [pc EXCEPT ![c] = label]

Return(c, r) ==
    /\ pc' = [pc EXCEPT ![c] = "done"]
    /\ ret' = [ret EXCEPT ![c] = r]

\* Calls on the same provider that are under way.
Meeting(c) == {d \in Callers \ {c} : ProviderOf[d] = ProviderOf[c] /\ pc[d] \in {"write", "run"}}

\* os.WriteFile truncates the file before it writes; either part may fail.
Truncate(c) ==
    /\ At(c, "start") /\ open[FileOf(c)]
    /\ send' = [send EXCEPT ![FileOf(c)] = {}]
    /\ overlapped' = overlapped \cup Meeting(c)
            \cup (IF Meeting(c) = {} THEN {} ELSE {c})
    /\ Goto(c, "write")
    /\ UNCHANGED <<ret, open, answer, accepted>>

\* Mutant: the file is opened for appending.
WriteAppending(c) ==
    /\ At(c, "write")
    /\ send' = [send EXCEPT ![FileOf(c)] = @ \cup {c}]
    /\ Goto(c, "run")
    /\ UNCHANGED <<ret, open, answer, accepted, overlapped>>

Write(c) ==
    /\ At(c, "write")
    /\ send' = [send EXCEPT ![FileOf(c)] = {c}]
    /\ Goto(c, "run")
    /\ UNCHANGED <<ret, open, answer, accepted, overlapped>>

WriteFails(c) ==
    /\ pc[c] \in {"start", "write"}
    /\ Return(c, "err")
    /\ UNCHANGED <<send, open, answer, accepted, overlapped>>

\* cardano-cli sends what the file holds now; the node takes a transaction
\* once.
Accept(c) ==
    /\ At(c, "run") /\ answer[c] = "none" /\ open[FileOf(c)]
    /\ \E t \in send[FileOf(c)] \ accepted :
        /\ accepted' = accepted \cup {t}
        /\ answer' = [answer EXCEPT ![c] = "success"]
    /\ UNCHANGED <<pc, ret, send, open, overlapped>>

\* No file, an empty file, a transaction the node refuses, no connection.
Refuse(c) ==
    /\ At(c, "run") /\ answer[c] = "none"
    /\ answer' = [answer EXCEPT ![c] = "stderr"]
    /\ UNCHANGED <<pc, ret, send, open, accepted, overlapped>>

\* Mutant: stderr is not looked at.
JudgeDeaf(c) ==
    /\ At(c, "run") /\ answer[c] # "none"
    /\ Return(c, "ok")
    /\ UNCHANGED <<send, open, answer, accepted, overlapped>>

\* runCommand and the test of its output.  A process that is killed, or writes
\* a warning to stderr, counts as failed also after the node's answer.
Judge(c) ==
    /\ At(c, "run") /\ answer[c] # "none"
    /\ \E r \in {"ok", "err"} :
        /\ r = "ok" => answer[c] = "success"
        /\ Return(c, r)
    /\ UNCHANGED <<send, open, answer, accepted, overlapped>>

\* Dispose removes the directory; main defers it, nothing waits for the calls.
Dispose(p) ==
    /\ open[p]
    /\ open' = [open EXCEPT ![p] = FALSE]
    /\ send' = [send EXCEPT ![p] = {}]
    /\ UNCHANGED <<pc, ret, answer, accepted, overlapped>>

Next ==
    \/ \E c \in Callers :
        Truncate(c) \/ Write(c) \/ WriteFails(c) \/ Accept(c) \/ Refuse(c) \/ Judge(c)
    \/ \E p \in Providers : Dispose(p)

Spec == Init /\ [][Next]_vars

(* ------------------------------ properties ------------------------------- *)

\* Types of the calls, the files and the mempool.
TypeOK ==
    /\ pc \in [Callers -> {"start", "write", "run", "done"}]
    /\ ret \in [Callers -> {"none", "ok", "err"}]
    /\ send \in [Providers -> {{}} \cup {{t} : t \in Callers}]
    /\ open \in [Providers -> BOOLEAN]
    /\ answer \in [Callers -> {"none", "success", "stderr"}]
    /\ accepted \in SUBSET Callers
    /\ overlapped \in SUBSET Callers

\* "SubmitTx submits transaction - txSigned should be cbor serialized signed
\* transaction" (interfaces.go:23): a call that returns nil has submitted its
\* own transaction, where no other call on its provider overlaps it.  Calls on
\* other providers and a Dispose in its midst do no harm.
SubmitsOwn ==
    \A c \in Callers : ret[c] = "ok" /\ c \notin overlapped => c \in accepted

\* However the calls overlap, as many transactions are in the mempool as calls
\* have returned nil (txprovider_cli.go:125-153).
NoMoreThanAccepted ==
    Cardinality({c \in Callers : ret[c] = "ok"}) <= Cardinality(accepted)
=============================================================================
