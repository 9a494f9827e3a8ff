--------------------------- MODULE MCAddressCodec ---------------------------
(* Hashes of one byte, words of ten bits: a pointer's numbers take one or    *)
(* two varint bytes, and longer varints wrap around.                         *)
EXTENDS AddressCodec

CONSTANTS MCHeaderTypes, MCHeaderNets, MCBytes, MCMaxBody

MCHashes == {<<0>>, <<255>>}

MCRests == UNION {[1..n -> {0, 1, 16}] : n \in 0..4}

MCData ==
    {<<Header(type, net)>> \o body :
        type \in MCHeaderTypes, net \in MCHeaderNets,
        body \in UNION {[1..n -> MCBytes] : n \in 0..MCMaxBody}}

\* Bytes behind three prefixes, one of which fits no network; and groups of five
\* bits that no bytes are: bits left over that are not zero, a group too many.
MCTexts ==
    {EncodeFromBase256(hrp, data) : hrp \in {Addr \o <<115>>, Vector \o test}, data \in MCData}
    \cup {Encode(Addr, <<14, v>> \o rest) : v \in Fives, rest \in MCRests}
    \cup {EncodeFromBase256(Stake \o test, <<>>), EncodeFromBase256(<<97>>, <<97, 0>>)}
=============================================================================
