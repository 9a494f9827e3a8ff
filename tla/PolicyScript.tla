---------------------------- MODULE PolicyScript ----------------------------
(* core/policy_script.go: scripts that ask for a number of signatures.  A    *)
(* key hash is a number, compared as its hexadecimal text is.                *)
EXTENDS Naturals, Sequences, FiniteSets, SequencesExt

SigScript(keyHash) == [type |-> "sig", keyHash |-> keyHash]

\* sort.Slice by key hash; equal ones are the same script.
Sorted(s) ==
    LET order == CHOOSE p \in Bijection(DOMAIN s, DOMAIN s) :
                    \A i, j \in DOMAIN s : i < j => s[p[i]] <= s[p[j]]
    IN  [i \in DOMAIN s |-> s[order[i]]]

NewPolicyScript(keyHashes, atLeastSignersCount) ==
    LET sorted == Sorted(keyHashes)
    IN  [type |-> "atLeast", required |-> atLeastSignersCount,
         scripts |-> [i \in DOMAIN sorted |-> SigScript(sorted[i])]]

\* The direct children that are keys.
GetCount(ps) == Cardinality({i \in DOMAIN ps.scripts : ps.scripts[i].type = "sig"})

\* The ledger runs the script against the keys that have signed.
Satisfied(ps, keyHashes) ==
    Cardinality({i \in DOMAIN ps.scripts : ps.scripts[i].keyHash \in keyHashes})
        >= ps.required
=============================================================================
