-------------------------- MODULE SubmissionProof ---------------------------
(* Theorems about CliSubmit and Submission for every number of goroutines    *)
(* and providers, shared in any way.  What is shown of SubmitTx alone, under *)
(* Spec, carries over because the composition implements CliSubmit; that     *)
(* documents fit cardano-cli needs what each goroutine has written to the    *)
(* package variables.                                                        *)
EXTENDS Submission, FiniteSetTheorems, TLAPS

(* ----------------------------- SubmitTx alone ---------------------------- *)

\* Types of the calls, the files and the mempool.
THEOREM TypeCorrect == Spec => []TypeOK
<1> USE SubmitAssumption DEF TypeOK
<1>1. Init => TypeOK
  BY DEF Init
<1>2. TypeOK /\ [Next]_vars => TypeOK'
  <2> SUFFICES ASSUME TypeOK, [Next]_vars PROVE TypeOK'
    OBVIOUS
  <2> USE DEF At, Goto, Return, FileOf
  <2>1. ASSUME NEW c \in Callers, Truncate(c) PROVE TypeOK'
    <3>1. overlapped' \in SUBSET Callers
      BY <2>1 DEF Truncate, Meeting
    <3>2. send' \in [Providers -> {{}} \cup {{t} : t \in Callers}]
      BY <2>1 DEF Truncate
    <3>3. pc' \in [Callers -> {"start", "write", "run", "done"}]
      BY <2>1 DEF Truncate
    <3> QED BY <2>1, <3>1, <3>2, <3>3 DEF Truncate
  <2>2. ASSUME NEW c \in Callers, Write(c) PROVE TypeOK'
    BY <2>2 DEF Write
  <2>3. ASSUME NEW c \in Callers, WriteFails(c) PROVE TypeOK'
    BY <2>3 DEF WriteFails
  <2>4. ASSUME NEW c \in Callers, Accept(c) PROVE TypeOK'
    <3>1. ProviderOf[c] \in Providers
      OBVIOUS
    <3>2. send[ProviderOf[c]] \in SUBSET Callers
      BY <3>1
    <3>3. accepted' \in SUBSET Callers /\ answer' \in [Callers -> {"none", "success", "stderr"}]
      BY <2>4, <3>2 DEF Accept
    <3> QED BY <2>4, <3>3 DEF Accept
  <2>5. ASSUME NEW c \in Callers, Refuse(c) PROVE TypeOK'
    BY <2>5 DEF Refuse
  <2>6. ASSUME NEW c \in Callers, Judge(c) PROVE TypeOK'
    BY <2>6 DEF Judge
  <2>7. ASSUME NEW p \in Providers, Dispose(p) PROVE TypeOK'
    BY <2>7 DEF Dispose
  <2>8. CASE UNCHANGED vars
    BY <2>8 DEF vars
  <2> QED BY <2>1, <2>2, <2>3, <2>4, <2>5, <2>6, <2>7, <2>8 DEF Next
<1> QED BY <1>1, <1>2, PTL DEF Spec

(* ------------------------ calls that nobody overlaps --------------------- *)

\* Two calls that are under way on one provider overlap.
OverlapInv ==
    \A c, d \in Callers :
        c # d /\ ProviderOf[c] = ProviderOf[d]
            /\ pc[c] \in {"write", "run"} /\ pc[d] \in {"write", "run"}
        => c \in overlapped

\* The file of a call that nobody overlaps holds its own transaction, or nothing
\* once the directory is gone.
FileInv ==
    \A c \in Callers :
        pc[c] = "run" /\ c \notin overlapped => send[ProviderOf[c]] \subseteq {c}

\* Before it runs cardano-cli a call has no answer, and nil needs a good one.
AnswerInv ==
    \A c \in Callers :
        /\ pc[c] \in {"start", "write"} => answer[c] = "none"
        /\ ret[c] = "ok" => answer[c] = "success"

\* What cardano-cli was pleased with is in the mempool.
AcceptInv ==
    \A c \in Callers :
        answer[c] = "success" /\ c \notin overlapped => c \in accepted

OwnInv == TypeOK /\ OverlapInv /\ FileInv /\ AnswerInv /\ AcceptInv

\* Every step keeps the files of calls apart that nobody overlaps.
LEMMA OwnNext ==
    ASSUME OwnInv, TypeOK', [Next]_vars
    PROVE  OwnInv'
<1> USE SubmitAssumption DEF At, Goto, Return, FileOf
<1>1. ASSUME NEW c \in Callers, Truncate(c) PROVE OwnInv'
  <2>1. OverlapInv'
    BY <1>1 DEF Truncate, Meeting, OwnInv, OverlapInv, TypeOK
  <2>2. FileInv'
    BY <1>1 DEF Truncate, Meeting, OwnInv, FileInv, TypeOK
  <2>3. AnswerInv' /\ AcceptInv'
    BY <1>1 DEF Truncate, OwnInv, AnswerInv, AcceptInv, TypeOK
  <2> QED BY <2>1, <2>2, <2>3 DEF OwnInv
<1>2. ASSUME NEW c \in Callers, Write(c) PROVE OwnInv'
  <2>1. OverlapInv'
    BY <1>2 DEF Write, OwnInv, OverlapInv, TypeOK
  <2>2. FileInv'
    BY <1>2 DEF Write, OwnInv, FileInv, OverlapInv, TypeOK
  <2>3. AnswerInv' /\ AcceptInv'
    BY <1>2 DEF Write, OwnInv, AnswerInv, AcceptInv, TypeOK
  <2> QED BY <2>1, <2>2, <2>3 DEF OwnInv
<1>3. ASSUME NEW c \in Callers, WriteFails(c) PROVE OwnInv'
  BY <1>3 DEF WriteFails, OwnInv, OverlapInv, FileInv, AnswerInv, AcceptInv, TypeOK
<1>4. ASSUME NEW c \in Callers, Accept(c) PROVE OwnInv'
  <2>1. c \notin overlapped => c \in accepted'
    BY <1>4 DEF Accept, OwnInv, FileInv
  <2>2. AcceptInv'
    BY <1>4, <2>1 DEF Accept, OwnInv, AcceptInv, TypeOK
  <2>3. OverlapInv' /\ FileInv' /\ AnswerInv'
    BY <1>4 DEF Accept, OwnInv, OverlapInv, FileInv, AnswerInv, TypeOK
  <2> QED BY <2>2, <2>3 DEF OwnInv
<1>5. ASSUME NEW c \in Callers, Refuse(c) PROVE OwnInv'
  BY <1>5 DEF Refuse, OwnInv, OverlapInv, FileInv, AnswerInv, AcceptInv, TypeOK
<1>6. ASSUME NEW c \in Callers, Judge(c) PROVE OwnInv'
  BY <1>6 DEF Judge, OwnInv, OverlapInv, FileInv, AnswerInv, AcceptInv, TypeOK
<1>7. ASSUME NEW p \in Providers, Dispose(p) PROVE OwnInv'
  BY <1>7 DEF Dispose, OwnInv, OverlapInv, FileInv, AnswerInv, AcceptInv, TypeOK
<1>8. CASE UNCHANGED vars
  BY <1>8 DEF vars, OwnInv, OverlapInv, FileInv, AnswerInv, AcceptInv
<1> QED BY <1>1, <1>2, <1>3, <1>4, <1>5, <1>6, <1>7, <1>8 DEF Next

\* SubmitTx returns nil only for a caller whose own transaction the node has
\* taken, unless another call on the same provider overlaps
\* (txprovider_cli.go:125-153).
THEOREM OwnSubmitted == Spec => []SubmitsOwn
<1>1. Init => OwnInv
  BY SubmitAssumption
  DEF Init, OwnInv, TypeOK, OverlapInv, FileInv, AnswerInv, AcceptInv
<1>2. OwnInv /\ TypeOK' /\ [Next]_vars => OwnInv'
  BY OwnNext
<1>3. OwnInv => SubmitsOwn
  BY DEF OwnInv, AnswerInv, AcceptInv, SubmitsOwn
<1> QED BY <1>1, <1>2, <1>3, TypeCorrect, PTL DEF Spec

(* ----------------------------- counting answers -------------------------- *)

Pleased == {c \in Callers : answer[c] = "success"}

\* Every good answer is one transaction in the mempool; nil needs a good answer.
CountInv ==
    /\ AnswerInv
    /\ Cardinality(Pleased) = Cardinality(accepted)

\* Every step keeps the count.
LEMMA CountNext ==
    ASSUME TypeOK, CountInv, [Next]_vars
    PROVE  CountInv'
<1> USE SubmitAssumption DEF At, Goto, Return, FileOf
<1>1. ASSUME NEW c \in Callers, Accept(c) PROVE CountInv'
  <2>1. PICK t \in send[ProviderOf[c]] \ accepted : accepted' = accepted \cup {t}
    BY <1>1 DEF Accept
  <2>2. c \notin Pleased /\ Pleased' = Pleased \cup {c}
    BY <1>1 DEF Accept, Pleased, TypeOK
  <2>3. IsFiniteSet(Pleased) /\ IsFiniteSet(accepted)
    BY FS_Subset DEF Pleased, TypeOK
  <2>4. Cardinality(Pleased') = Cardinality(Pleased) + 1
    BY <2>2, <2>3, FS_AddElement
  <2>5. Cardinality(accepted') = Cardinality(accepted) + 1
    BY <2>1, <2>3, FS_AddElement
  <2>6. AnswerInv'
    BY <1>1 DEF Accept, CountInv, AnswerInv, TypeOK
  <2> QED BY <2>4, <2>5, <2>6 DEF CountInv
<1>2. ASSUME NEW c \in Callers, Refuse(c) PROVE CountInv'
  <2>1. Pleased' = Pleased /\ accepted' = accepted
    BY <1>2 DEF Refuse, Pleased, TypeOK
  <2>2. AnswerInv'
    BY <1>2 DEF Refuse, CountInv, AnswerInv, TypeOK
  <2> QED BY <2>1, <2>2 DEF CountInv
<1>3. ASSUME NEW c \in Callers, Truncate(c) \/ Write(c) \/ WriteFails(c) \/ Judge(c)
      PROVE CountInv'
  <2>1. Pleased' = Pleased /\ accepted' = accepted
    BY <1>3 DEF Truncate, Write, WriteFails, Judge, Pleased
  <2>2. AnswerInv'
    BY <1>3 DEF Truncate, Write, WriteFails, Judge, CountInv, AnswerInv, TypeOK
  <2> QED BY <2>1, <2>2 DEF CountInv
<1>4. ASSUME NEW p \in Providers, Dispose(p) PROVE CountInv'
  BY <1>4 DEF Dispose, CountInv, AnswerInv, Pleased
<1>5. CASE UNCHANGED vars
  BY <1>5 DEF vars, CountInv, AnswerInv, Pleased
<1> QED BY <1>1, <1>2, <1>3, <1>4, <1>5 DEF Next

\* However calls on one provider overlap, no more of them return nil than there
\* are transactions in the mempool (txprovider_cli.go:125-153).
THEOREM CountAccepted == Spec => []NoMoreThanAccepted
<1> USE SubmitAssumption
<1>1. Init => CountInv
  <2> SUFFICES ASSUME Init PROVE CountInv
    OBVIOUS
  <2>1. Pleased = {} /\ accepted = {}
    BY DEF Init, Pleased
  <2>2. AnswerInv
    BY DEF Init, AnswerInv
  <2> QED BY <2>1, <2>2 DEF CountInv
<1>2. TypeOK /\ CountInv /\ [Next]_vars => CountInv'
  BY CountNext
<1>3. TypeOK /\ CountInv => NoMoreThanAccepted
  <2> SUFFICES ASSUME TypeOK, CountInv PROVE NoMoreThanAccepted
    OBVIOUS
  <2> DEFINE Nils == {c \in Callers : ret[c] = "ok"}
  <2>1. Nils \subseteq Pleased
    BY DEF CountInv, AnswerInv, Pleased
  <2>2. IsFiniteSet(Pleased)
    BY FS_Subset DEF Pleased
  <2>3. Cardinality(Nils) <= Cardinality(Pleased)
    BY <2>1, <2>2, FS_Subset
  <2> QED BY <2>3 DEF NoMoreThanAccepted, CountInv
<1> QED BY <1>1, <1>2, <1>3, TypeCorrect, PTL DEF Spec

(* ------------------------- SubmitTx and envelopes ------------------------ *)

\* All goroutines drive one and the same version of cardano-cli.
OneCli == \A c, d \in Callers : CliFormat[c] = CliFormat[d]

(* ------------------------ CliSubmit is implemented ----------------------- *)

\* Parsing and printing leave SubmitTx's own state alone.
THEOREM ImplementsSubmit == SubmissionSpec => Spec
<1>1. SubmissionInit => Init
  BY DEF SubmissionInit
<1>2. [SubmissionNext]_submissionVars => [Next]_vars
  <2> SUFFICES ASSUME [SubmissionNext]_submissionVars PROVE [Next]_vars
    OBVIOUS
  <2>1. ASSUME NEW c \in Callers, Begin(c) \/ End(c) PROVE UNCHANGED vars
    BY <2>1 DEF Begin, End
  <2>2. ASSUME NEW c \in Callers, Send(c) PROVE Next
    BY <2>2 DEF Send, Next
  <2>3. ASSUME NEW p \in Providers, Discard(p) PROVE Next
    BY <2>3 DEF Discard, Next
  <2>4. CASE UNCHANGED submissionVars
    BY <2>4 DEF submissionVars
  <2> QED BY <2>1, <2>2, <2>3, <2>4 DEF SubmissionNext
<1> QED BY <1>1, <1>2, PTL DEF SubmissionSpec, Spec

\* A nil still means that the goroutine's own transaction was taken, if no other
\* call on its provider overlapped (txprovider_cli.go:125-153).
THEOREM OwnSubmittedInAll == SubmissionSpec => []SubmitsOwn
BY ImplementsSubmit, OwnSubmitted, PTL

\* No more calls return nil than transactions are taken, goroutines racing in
\* rawdata.go or not (txprovider_cli.go:125-153).
THEOREM CountAcceptedInAll == SubmissionSpec => []NoMoreThanAccepted
BY ImplementsSubmit, CountAccepted, PTL

(* ---------------------------- types of the whole ------------------------- *)

\* The station after each one.
LEMMA Follows ==
    /\ Following("build") = "assemble" /\ Following("assemble") = "assembled"
    /\ Following("assembled") = "submit" /\ Following("submit") = "send"
<1> DEFINE next(a, i) == i > 1 /\ Order[i - 1] = a
<1>1. /\ DOMAIN Order = 1..5
      /\ Order[1] = "build" /\ Order[2] = "assemble" /\ Order[3] = "assembled"
      /\ Order[4] = "submit" /\ Order[5] = "send"
  BY DEF Order
<1>2. \A i \in 1..5 : i = 1 \/ i = 2 \/ i = 3 \/ i = 4 \/ i = 5
  OBVIOUS
<1>3. \A i \in 1..5 : next("build", i) <=> i = 2
  BY <1>1, <1>2
<1>4. \A i \in 1..5 : next("assemble", i) <=> i = 3
  BY <1>1, <1>2
<1>5. \A i \in 1..5 : next("assembled", i) <=> i = 4
  BY <1>1, <1>2
<1>6. \A i \in 1..5 : next("submit", i) <=> i = 5
  BY <1>1, <1>2
<1>7. \A a : Following(a) = Order[CHOOSE i \in 1..5 : next(a, i)]
  BY <1>1 DEF Following
<1> HIDE DEF next
<1>8. (CHOOSE i \in 1..5 : next("build", i)) = 2
  BY <1>3
<1>9. (CHOOSE i \in 1..5 : next("assemble", i)) = 3
  BY <1>4
<1>10. (CHOOSE i \in 1..5 : next("assembled", i)) = 4
  BY <1>5
<1>11. (CHOOSE i \in 1..5 : next("submit", i)) = 5
  BY <1>6
<1> QED BY <1>1, <1>7, <1>8, <1>9, <1>10, <1>11

\* The stations a goroutine passes.
LEMMA Stations == ToSet(Order) = {"build", "assemble", "assembled", "submit", "send"}
<1>1. /\ DOMAIN Order = {1, 2, 3, 4, 5}
      /\ Order[1] = "build" /\ Order[2] = "assemble" /\ Order[3] = "assembled"
      /\ Order[4] = "submit" /\ Order[5] = "send"
  BY DEF Order
<1> QED BY <1>1 DEF ToSet

\* Where a goroutine is determines what it does there.
Agrees ==
    /\ at \in [Callers -> ToSet(Order)]
    /\ \A c \in Callers :
        /\ doing[c] = "parsing" => at[c] \in {"build", "assembled"}
        /\ doing[c] = "printing" => at[c] \in {"assemble", "submit"}
        /\ at[c] = "send" => handed[c] # {}
    /\ \A p \in Providers : \A c \in send[p] : at[c] = "send"

\* A package variable holds one of the formats or a torn value.
LEMMA ReadableFormats ==
    ASSUME NEW g \in Goroutines, NEW w \in SUBSET Goroutines
    PROVE  Readable(g, w) \subseteq Formats \cup {Torn}
BY EnvelopeAssumption DEF Readable

\* Who is parsing has written the type already.
ParsingInv == \A g \in Goroutines : doing[g] = "parsing" => g \in types[kind[g]]

\* Parsing and printing keep the package variables' types.
LEMMA EnvelopeStep ==
    ASSUME EnvelopeTypeOK, ParsingInv, NEW c \in Callers, Begin(c) \/ End(c)
    PROVE  EnvelopeTypeOK' /\ ParsingInv'
<1> USE EnvelopeAssumption, SubmissionAssumption DEF EnvelopeTypeOK, ParsingInv, Kinds
<1>1. ASSUME NEW k \in Kinds, ParseType(c, k) PROVE EnvelopeTypeOK' /\ ParsingInv'
  BY <1>1 DEF ParseType
<1>2. ASSUME ParseDesc(c) PROVE EnvelopeTypeOK' /\ ParsingInv'
  BY <1>2 DEF ParseDesc
<1>3. ASSUME NEW k \in Kinds, PrintType(c, k) PROVE EnvelopeTypeOK' /\ ParsingInv'
  BY <1>3, ReadableFormats DEF PrintType
<1>4. ASSUME PrintDesc(c) PROVE EnvelopeTypeOK' /\ ParsingInv'
  <2>1. PICK d \in Readable(c, descs[kind[c]]) :
            handed' = [handed EXCEPT ![c] =
                {[type |-> half[c], desc |-> d, parsed |-> c \in descs[kind[c]]]}]
    BY <1>4 DEF PrintDesc
  <2>2. d \in Formats \cup {Torn}
    BY ReadableFormats
  <2> DEFINE document == [type |-> half[c], desc |-> d, parsed |-> c \in descs[kind[c]]]
  <2>3. document \in Documents
    BY <2>2 DEF Documents
  <2>4. handed' = [handed EXCEPT ![c] = {document}]
    BY <2>1
  <2> HIDE DEF document
  <2>5. handed' \in [Goroutines -> SUBSET Documents]
    BY <2>3, <2>4
  <2> QED BY <1>4, <2>5 DEF PrintDesc
<1> QED BY <1>1, <1>2, <1>3, <1>4 DEF Begin, End

\* Parsing and printing go with where the goroutine is.
LEMMA StationStep ==
    ASSUME TypeOK, EnvelopeTypeOK, Agrees, NEW c \in Callers, Begin(c) \/ End(c)
    PROVE  Agrees'
<1> USE SubmissionAssumption DEF Agrees, EnvelopeTypeOK
<1> USE Stations
<1>1. CASE Begin(c)
  <2>1. at' = at /\ send' = send /\ handed' = handed
    BY <1>1 DEF Begin, vars, ParseType, PrintType
  <2>2. \/ at[c] \in {"build", "assembled"} /\ doing' = [doing EXCEPT ![c] = "parsing"]
        \/ at[c] \in {"assemble", "submit"} /\ doing' = [doing EXCEPT ![c] = "printing"]
    BY <1>1 DEF Begin, ParseType, PrintType
  <2> QED BY <2>1, <2>2
<1>2. CASE End(c)
  <2>1. /\ at' = [at EXCEPT ![c] = Following(at[c])]
        /\ send' = send /\ doing' = [doing EXCEPT ![c] = "idle"]
    BY <1>2 DEF End, vars, ParseDesc, PrintDesc
  <2>2. CASE ParseDesc(c)
    <3>1. handed' = handed /\ at[c] \in {"build", "assembled"}
      BY <2>2 DEF ParseDesc
    <3>2. at'[c] \in {"assemble", "submit"}
      BY <2>1, <3>1, Follows
    <3> QED BY <2>1, <3>1, <3>2
  <2>3. CASE PrintDesc(c)
    <3>1. at[c] \in {"assemble", "submit"}
      BY <2>3 DEF PrintDesc
    <3>2. at'[c] \in {"assembled", "send"}
      BY <2>1, <3>1, Follows
    <3>3. handed'[c] # {} /\ \A d \in Callers \ {c} : handed'[d] = handed[d]
      <4>1. PICK new : handed' = [handed EXCEPT ![c] = {new}]
        BY <2>3 DEF PrintDesc
      <4> QED BY <4>1
    <3>4. \A d \in Callers \ {c} : at'[d] = at[d] /\ doing'[d] = doing[d]
      BY <2>1
    <3>5. \A p \in Providers : \A d \in send[p] : d # c /\ d \in Callers
      BY <3>1 DEF TypeOK
    <3>6. at' \in [Callers -> ToSet(Order)]
      BY <2>1, <3>2
    <3>7. doing'[c] = "idle"
      BY <2>1
    <3> QED BY <2>1, <3>2, <3>3, <3>4, <3>5, <3>6, <3>7
  <2> QED BY <1>2, <2>2, <2>3 DEF End
<1> QED BY <1>1, <1>2

Shape == TypeOK /\ EnvelopeTypeOK /\ ParsingInv /\ Agrees

\* Every step keeps the types of the whole.
LEMMA ShapeStep ==
    ASSUME Shape, TypeOK', [SubmissionNext]_submissionVars
    PROVE  Shape'
<1>1. ASSUME NEW c \in Callers, Begin(c) \/ End(c) PROVE Shape'
  BY <1>1, EnvelopeStep, StationStep DEF Shape
<1>2. ASSUME NEW c \in Callers, Send(c) PROVE Shape'
  <2>1. (EnvelopeTypeOK /\ ParsingInv)'
    BY <1>2 DEF Send, Shape, envelopeVars, EnvelopeTypeOK, ParsingInv
  <2>2. /\ UNCHANGED <<at, doing, handed>> /\ at[c] = "send"
        /\ \A p \in Providers : send'[p] \subseteq send[p] \cup {c}
    BY <1>2, SubmitAssumption
    DEF Send, Shape, TypeOK, envelopeVars, Truncate, Write, WriteFails, Accept, Refuse,
        Judge, FileOf
  <2>3. Agrees'
    BY <2>2 DEF Shape, Agrees
  <2> QED BY <2>1, <2>3 DEF Shape
<1>3. ASSUME NEW p \in Providers, Discard(p) PROVE Shape'
  <2>1. (EnvelopeTypeOK /\ ParsingInv)'
    BY <1>3 DEF Discard, Shape, envelopeVars, EnvelopeTypeOK, ParsingInv
  <2>2. /\ UNCHANGED <<at, doing, handed>>
        /\ \A q \in Providers : send'[q] \subseteq send[q]
    BY <1>3 DEF Discard, Shape, TypeOK, envelopeVars, Dispose
  <2>3. Agrees'
    BY <2>2 DEF Shape, Agrees
  <2> QED BY <2>1, <2>3 DEF Shape
<1>4. CASE UNCHANGED submissionVars
  BY <1>4
  DEF submissionVars, vars, envelopeVars, Shape, TypeOK, EnvelopeTypeOK, ParsingInv, Agrees
<1> QED BY <1>1, <1>2, <1>3, <1>4 DEF SubmissionNext

\* The state of the composition is well typed.
LEMMA ShapeCorrect == SubmissionSpec => []Shape
<1>1. SubmissionInit => Shape
  <2> SUFFICES ASSUME SubmissionInit PROVE Shape
    OBVIOUS
  <2>1. TypeOK
    BY SubmitAssumption DEF SubmissionInit, Init, TypeOK
  <2>2. EnvelopeTypeOK /\ ParsingInv
    BY EnvelopeAssumption DEF SubmissionInit, EnvelopeInit, EnvelopeTypeOK, ParsingInv, Kinds
  <2>3. Agrees
    BY SubmissionAssumption, Stations DEF SubmissionInit, EnvelopeInit, Init, Agrees
  <2> QED BY <2>1, <2>2, <2>3 DEF Shape
<1>2. Shape /\ TypeOK' /\ [SubmissionNext]_submissionVars => Shape'
  BY ShapeStep
<1> QED BY <1>1, <1>2, ImplementsSubmit, TypeCorrect, PTL DEF SubmissionSpec

\* The types of the composed state, and nobody's transaction is in a file before
\* it has been printed (txprovider_cli.go:125-143).
THEOREM TypesTogether == SubmissionSpec => []SubmissionTypeOK
<1>1. Shape => SubmissionTypeOK
  <2> SUFFICES ASSUME Shape, NEW p \in Providers, NEW c \in send[p]
               PROVE  at[c] = "send" /\ handed[c] # {}
    BY DEF Shape, Agrees, SubmissionTypeOK
  <2>1. c \in Callers
    BY DEF Shape, TypeOK
  <2> QED BY <2>1 DEF Shape, Agrees
<1> QED BY <1>1, ShapeCorrect, PTL

(* ------------------------- documents fit cardano-cli --------------------- *)

\* With one version of cardano-cli a goroutine that has written reads its own format.
LEMMA ReadsOwn ==
    ASSUME OneCli, NEW g \in Goroutines, NEW w \in SUBSET Goroutines, g \in w
    PROVE  Readable(g, w) = {CliFormat[g]}
<1>1. {CliFormat[h] : h \in w} = {CliFormat[g]}
  BY SubmissionAssumption DEF OneCli
<1> DEFINE values == {CliFormat[h] : h \in w} \cup (IF g \in w THEN {} ELSE {Default})
<1>2. values = {CliFormat[g]}
  BY <1>1
<1>3. Cardinality({CliFormat[g]}) = 1
  BY FS_Singleton
<1>4. Readable(g, w) = values \cup (IF Cardinality(values) > 1 THEN {Torn} ELSE {})
  BY DEF Readable
<1> HIDE DEF values
<1> QED BY <1>2, <1>3, <1>4

\* Half a document that its goroutine can vouch for has cardano-cli's type.
HalfFits ==
    \A g \in Goroutines :
        doing[g] = "printing" /\ g \in descs[kind[g]] => half[g] = CliFormat[g]

Fits == HalfFits /\ FitsCli

\* Every step keeps what has been handed over fitting.
LEMMA FitsStep ==
    ASSUME OneCli, Shape, Fits, [SubmissionNext]_submissionVars
    PROVE  Fits'
<1> USE SubmissionAssumption DEF Fits, HalfFits, FitsCli, Shape, EnvelopeTypeOK
<1>1. ASSUME NEW c \in Callers, NEW k \in Kinds, ParseType(c, k) PROVE Fits'
  BY <1>1 DEF ParseType
<1>2. ASSUME NEW c \in Callers, ParseDesc(c) PROVE Fits'
  <2>1. /\ UNCHANGED <<half, kind, handed>> /\ doing' = [doing EXCEPT ![c] = "idle"]
        /\ \A k \in Kinds : descs'[k] \subseteq descs[k] \cup {c}
    BY <1>2 DEF ParseDesc
  <2> QED BY <2>1
<1>3. ASSUME NEW c \in Callers, NEW k \in Kinds, PrintType(c, k) PROVE Fits'
  <2>1. c \in descs[k] => Readable(c, types[k]) = {CliFormat[c]}
    BY ReadsOwn
  <2>2. c \in descs[k] => half'[c] = CliFormat[c]
    BY <1>3, <2>1 DEF PrintType
  <2> QED BY <1>3, <2>2 DEF PrintType
<1>4. ASSUME NEW c \in Callers, PrintDesc(c) PROVE Fits'
  <2> DEFINE mine == c \in descs[kind[c]]
  <2>1. PICK d \in Readable(c, descs[kind[c]]) :
            handed' = [handed EXCEPT ![c] = {[type |-> half[c], desc |-> d, parsed |-> mine]}]
    BY <1>4 DEF PrintDesc
  <2>2. mine => half[c] = CliFormat[c] /\ d = CliFormat[c]
    BY <1>4, ReadsOwn DEF PrintDesc
  <2>3. \A doc \in handed'[c] : doc.type = half[c] /\ doc.desc = d /\ doc.parsed = mine
    BY <2>1
  <2>4. \A g \in Goroutines \ {c} : handed'[g] = handed[g]
    BY <2>1
  <2> HIDE DEF mine
  <2>5. FitsCli'
    BY <2>2, <2>3, <2>4
  <2>6. HalfFits'
    BY <1>4 DEF PrintDesc
  <2> QED BY <2>5, <2>6
<1>5. CASE UNCHANGED envelopeVars
  BY <1>5 DEF envelopeVars
<1>6. \A c \in Callers : Send(c) => UNCHANGED envelopeVars
  BY DEF Send
<1>7. \A p \in Providers : Discard(p) => UNCHANGED envelopeVars
  BY DEF Discard
<1>8. UNCHANGED submissionVars => UNCHANGED envelopeVars
  BY DEF submissionVars
<1> QED BY <1>1, <1>2, <1>3, <1>4, <1>5, <1>6, <1>7, <1>8
        DEF SubmissionNext, Begin, End, Kinds

\* With one version of cardano-cli, every document has the type and the
\* description that cardano-cli printed, if its goroutine has parsed one of that
\* kind before (rawdata.go:28-37, 53-62).
THEOREM DocumentsFit == OneCli => (SubmissionSpec => []FitsCli)
<1> SUFFICES ASSUME OneCli PROVE SubmissionSpec => []FitsCli
  OBVIOUS
<1>1. SubmissionInit => Fits
  BY SubmissionAssumption DEF SubmissionInit, EnvelopeInit, Fits, HalfFits, FitsCli
<1>2. Shape /\ Fits /\ [SubmissionNext]_submissionVars => Fits'
  BY FitsStep
<1>3. Fits => FitsCli
  BY DEF Fits
<1> QED BY <1>1, <1>2, <1>3, ShapeCorrect, PTL DEF SubmissionSpec
=============================================================================
