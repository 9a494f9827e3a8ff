---------------------------- MODULE TextEnvelope ----------------------------
(* core/rawdata.go: the type and the description of the JSON documents that  *)
(* carry transactions to cardano-cli are package variables.  Build and       *)
(* AssembleTxWitnesses overwrite them with what cardano-cli has printed,     *)
(* ToJSON reads them.  Goroutines are not synchronised: a read that races    *)
(* with writes returns any of their values, or a string torn out of two.     *)
EXTENDS Naturals, FiniteSets

CONSTANTS
    Goroutines,
    Formats,    \* types and descriptions that cardano-cli versions use
    CliFormat,  \* the format of the cardano-cli of each goroutine
    Default,    \* the format the variables start with, BabbageEra's
    Torn        \* a string that is none of them

ASSUME EnvelopeAssumption ==
    /\ CliFormat \in [Goroutines -> Formats]
    /\ Default \in Formats /\ Torn \notin Formats

Kinds == {"unwitnessed", "witnessed"}

VARIABLES
    types, descs,   \* the variables of each kind: the goroutines that have
                    \* written them
    doing,          \* "idle", "parsing" or "printing"
    kind,           \* the kind of document a goroutine is at
    half,           \* the type that ToJSON has read
    handed          \* the last document each goroutine gave to cardano-cli,
                    \* and whether it had parsed one of that kind before

envelopeVars == <<types, descs, doing, kind, half, handed>>

EnvelopeInit ==
    /\ types = [k \in Kinds |-> {}]
    /\ descs = [k \in Kinds |-> {}]
    /\ doing = [g \in Goroutines |-> "idle"]
    /\ kind = [g \in Goroutines |-> "unwitnessed"]
    /\ half = [g \in Goroutines |-> Default]
    /\ handed = [g \in Goroutines |-> {}]

\* What g may read of a variable with these writers.
Readable(g, writers) ==
    LET values == {CliFormat[h] : h \in writers}
                    \cup (IF g \in writers THEN {} ELSE {Default})
    IN  values \cup (IF Cardinality(values) > 1 THEN {Torn} ELSE {})

\* Mutant: the type of unwitnessed transactions is written for both kinds.
ParseTypeCopied(g, k) ==
    /\ doing[g] = "idle"
    /\ types' = [types EXCEPT !["unwitnessed"] = @ \cup {g}]
    /\ kind' = [kind EXCEPT ![g] = k]
    /\ doing' = [doing EXCEPT ![g] = "parsing"]
    /\ UNCHANGED <<descs, half, handed>>

\* NewTransactionUnwitnessedRawFromJSON, NewTransactionWitnessedRawFromJSON: the
\* document is one that the goroutine's cardano-cli has just printed.
ParseType(g, k) ==
    /\ doing[g] = "idle"
    /\ types' = [types EXCEPT ![k] = @ \cup {g}]
    /\ kind' = [kind EXCEPT ![g] = k]
    /\ doing' = [doing EXCEPT ![g] = "parsing"]
    /\ UNCHANGED <<descs, half, handed>>

ParseDesc(g) ==
    /\ doing[g] = "parsing"
    /\ descs' = [descs EXCEPT ![kind[g]] = @ \cup {g}]
    /\ doing' = [doing EXCEPT ![g] = "idle"]
    /\ UNCHANGED <<types, kind, half, handed>>

\* ToJSON of a transaction, called by AssembleTxWitnesses and SubmitTx.
PrintType(g, k) ==
    /\ doing[g] = "idle"
    /\ \E t \in Readable(g, types[k]) : half' = [half EXCEPT ![g] = t]
    /\ kind' = [kind EXCEPT ![g] = k]
    /\ doing' = [doing EXCEPT ![g] = "printing"]
    /\ UNCHANGED <<types, descs, handed>>

PrintDesc(g) ==
    /\ doing[g] = "printing"
    /\ \E d \in Readable(g, descs[kind[g]]) :
        handed' = [handed EXCEPT ![g] =
            {[type |-> half[g], desc |-> d, parsed |-> g \in descs[kind[g]]]}]
    /\ half' = [half EXCEPT ![g] = Default]
    /\ doing' = [doing EXCEPT ![g] = "idle"]
    /\ UNCHANGED <<types, descs, kind>>

(* ------------------------------ properties ------------------------------- *)

Documents ==
    [type : Formats \cup {Torn}, desc : Formats \cup {Torn}, parsed : BOOLEAN]

\* Types of the package variables and of the goroutines; no goroutine writes a
\* description without having written the type.
EnvelopeTypeOK ==
    /\ types \in [Kinds -> SUBSET Goroutines]
    /\ descs \in [Kinds -> SUBSET Goroutines]
    /\ \A k \in Kinds : descs[k] \subseteq types[k]
    /\ doing \in [Goroutines -> {"idle", "parsing", "printing"}]
    /\ kind \in [Goroutines -> Kinds]
    /\ half \in [Goroutines -> Formats \cup {Torn}]
    /\ handed \in [Goroutines -> SUBSET Documents]

\* "so we have always correct witness key and description for json (cardano-cli
\* can return error otherwise)" (rawdata.go:28-29): every document carries the
\* type and the description of the cardano-cli that it is given to, if the
\* goroutine has parsed one of that kind before, and whatever the others do
\* meanwhile.  Holds where all goroutines use one cardano-cli.
FitsCli ==
    \A g \in Goroutines : \A doc \in handed[g] :
        doc.parsed => doc.type = CliFormat[g] /\ doc.desc = CliFormat[g]
=============================================================================
