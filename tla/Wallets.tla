------------------------------ MODULE Wallets -------------------------------
(* core/wallet.go, core/wallet_utils.go: keys of any length are padded or    *)
(* cut to KeySize bytes, a wallet is a pair of them, and what it signs is    *)
(* verified with the key that the witness carries.  Keys and messages are    *)
(* sequences of bytes; a signature is the record of what it was made of.     *)
EXTENDS Naturals, Sequences, SequencesExt

CONSTANT
    KeySize     \* bytes of a key, 32

ASSUME KeySizeAssumption == KeySize \in Nat \ {0}

PadKeyToSize(key) ==
    IF Len(key) > KeySize THEN SubSeq(key, 1, KeySize)
    ELSE [i \in 1..(KeySize - Len(key)) |-> 0] \o key

\* cborHex of a key file or of a literal in main: a CBOR byte string.
GetKeyBytes(text) == PadKeyToSize(text.bytes)

NewWallet(verificationKey, signingKey) ==
    [vkey |-> PadKeyToSize(verificationKey), skey |-> PadKeyToSize(signingKey)]

\* ed25519: the public key of a seed.
Public(seed) == [i \in DOMAIN seed |-> seed[i] + 256]

\* blake2b: different keys have different hashes.
GetKeyHash(key) == FoldLeft(LAMBDA acc, byte : acc * 512 + byte, 0, key)

\* The private key is seed and public key, one behind the other; the signature
\* depends on both.
SignMessage(signingKey, verificationKey, message) ==
    [seed |-> signingKey, pub |-> verificationKey, message |-> message]

VerifyMessage(message, verificationKey, signature) ==
    /\ verificationKey = Public(signature.seed)
    /\ signature.pub = verificationKey
    /\ signature.message = message

CreateTxWitness(txHash, w) ==
    [vkey |-> w.vkey, signature |-> SignMessage(w.skey, w.vkey, txHash)]

VerifyWitness(txHash, witness) ==
    VerifyMessage(txHash, witness.vkey, witness.signature)
=============================================================================
