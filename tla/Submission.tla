----------------------------- MODULE Submission -----------------------------
(* From a transaction that was built to one that is submitted: the calls of  *)
(* CliSubmit and the documents of TextEnvelope that they write.  A goroutine *)
(* builds, has its transaction assembled and submits it, or submits signed   *)
(* bytes that it was given.                                                  *)
EXTENDS CliSubmit, TextEnvelope, SequencesExt

ASSUME SubmissionAssumption ==
    /\ Goroutines = Callers
    \* One provider, one cardano-cli.
    /\ \A c, d \in Callers : ProviderOf[c] = ProviderOf[d] => CliFormat[c] = CliFormat[d]

VARIABLE at     \* what each goroutine does next

submissionVars == <<vars, envelopeVars, at>>

\* Build, AssembleTxWitnesses (both ends of it) and SubmitTx handle documents.
Order == <<"build", "assemble", "assembled", "submit", "send">>

Following(a) == Order[CHOOSE i \in DOMAIN Order : i > 1 /\ Order[i - 1] = a]

SubmissionInit ==
    /\ Init
    /\ EnvelopeInit
    /\ at \in [Callers -> {"build", "submit"}]

\* The document is parsed or printed, first its type.
Begin(c) ==
    /\ \/ at[c] = "build"     /\ ParseType(c, "unwitnessed")
       \/ at[c] = "assemble"  /\ PrintType(c, "unwitnessed")
       \/ at[c] = "assembled" /\ ParseType(c, "witnessed")
       \/ at[c] = "submit"    /\ PrintType(c, "witnessed")
    /\ UNCHANGED <<vars, at>>

End(c) ==
    /\ ParseDesc(c) \/ PrintDesc(c)
    /\ at' = [at EXCEPT ![c] = Following(@)]
    /\ UNCHANGED vars

\* SubmitTx from the file on.
Send(c) ==
    /\ at[c] = "send"
    /\ Truncate(c) \/ Write(c) \/ WriteFails(c) \/ Accept(c) \/ Refuse(c) \/ Judge(c)
    /\ UNCHANGED <<envelopeVars, at>>

Discard(p) == Dispose(p) /\ UNCHANGED <<envelopeVars, at>>

SubmissionNext ==
    \/ \E c \in Callers : Begin(c) \/ End(c) \/ Send(c)
    \/ \E p \in Providers : Discard(p)

SubmissionSpec == SubmissionInit /\ [][SubmissionNext]_submissionVars

(* ------------------------------ properties ------------------------------- *)

\* Types of the composed state; what is in a file has been printed before.
SubmissionTypeOK ==
    /\ TypeOK
    /\ EnvelopeTypeOK
    /\ at \in [Callers -> ToSet(Order)]
    /\ \A p \in Providers : \A c \in send[p] : at[c] = "send" /\ handed[c] # {}
=============================================================================
