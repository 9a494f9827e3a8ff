---------------------------- MODULE AddressCodec ----------------------------
(* core/address.go, core/address_types.go, core/network_type.go: Cardano     *)
(* addresses, their bytes and their text, a bech32 string.  Bytes are        *)
(* 0..255.                                                                   *)
EXTENDS Bech32, FiniteSetsExt

CONSTANTS
    KeyHashSize,    \* bytes of a hash
    Word,           \* the numbers of a pointer are below it; 2^64
    Groups,         \* groups of seven bits in a word; 10
    Hashes,         \* key and script hashes
    Texts           \* texts that a program may be given

ASSUME CodecAssumption ==
    /\ KeyHashSize \in Nat \ {0} /\ Groups \in Nat \ {0}
    /\ Word \in 128..(128^Groups) /\ Word % 128 = 0
    /\ Hashes \subseteq [1..KeyHashSize -> 0..255]

VARIABLES
    text,   \* the text at hand
    addr,   \* the address at hand
    step    \* "given", "parsed", "printed", "mistyped" or "rejected"

vars == <<text, addr, step>>

(* -------------------------------- networks ------------------------------- *)

VectorMainNetNetwork == 3
VectorTestNetNetwork == 2
MainNetNetwork       == 1
TestNetNetwork       == 0

Networks == {TestNetNetwork, MainNetNetwork, VectorTestNetNetwork, VectorMainNetNetwork}

\* The characters of "addr", "vector", "stake" and "_test".
Addr   == <<97, 100, 100, 114>>
Vector == <<118, 101, 99, 116, 111, 114>>
Stake  == <<115, 116, 97, 107, 101>>
test   == <<95, 116, 101, 115, 116>>

GetPrefix(net) ==
    CASE net = VectorTestNetNetwork -> Vector \o test
      [] net = VectorMainNetNetwork -> Vector
      [] net = MainNetNetwork       -> Addr
      [] net = TestNetNetwork       -> Addr \o test
      [] OTHER                      -> <<>>

GetStakePrefix(net) ==
    CASE net \in {MainNetNetwork, VectorMainNetNetwork} -> Stake
      [] net \in {TestNetNetwork, VectorTestNetNetwork} -> Stake \o test
      [] OTHER                                          -> <<>>

\* Only the beginning of the text is looked at, never whether it fits the
\* network of the data; capitals do not match.
IsAddressWithValidPrefix(t) ==
    t.case # "upper" /\ \E prefix \in {Addr, Vector, Stake} : IsPrefix(prefix, t.hrp)

(* ------------------------------ stake pointers --------------------------- *)

\* GetStakePointer's readOne: value and length of the leading varint, length 0
\* when it does not end.
ReadOne(raw) ==
    LET ends == {i \in DOMAIN raw : raw[i] < 128}
        n    == IF ends = {} THEN 0 ELSE Min(ends)
    IN  [len |-> n,
         val |-> FoldLeft(LAMBDA r, x : (128 * r + (x % 128)) % Word, 0, SubSeq(raw, 1, n))]

Behind(raw, n) == SubSeq(raw, n + 1, Len(raw))

GetStakePointer(raw) ==
    LET slot == ReadOne(raw)
        tx   == ReadOne(Behind(raw, slot.len))
        cert == ReadOne(Behind(raw, slot.len + tx.len))
    IN  [ok    |-> /\ slot.len > 0 /\ tx.len > 0 /\ cert.len > 0
                   /\ slot.len + tx.len + cert.len = Len(raw),
         value |-> <<slot.val, tx.val, cert.val>>]

\* Mutant: the groups are not put in order.
VariableEncodeReversed(num) ==
    LET n == Min({k \in 1..Groups : num < 128^k})
    IN  [i \in 1..n |-> ((num \div 128^(i - 1)) % 128) + (IF i < n THEN 128 ELSE 0)]

\* PointerAddress.Bytes' variableEncode: the most significant group first, all
\* but the last with the high bit.
VariableEncode(num) ==
    LET n == Min({k \in 1..Groups : num < 128^k})
    IN  [i \in 1..n |-> ((num \div 128^(n - i)) % 128) + (IF i < n THEN 128 ELSE 0)]

(* -------------------------------- addresses ------------------------------ *)

Key == 0
Scr == 1

\* NewStakeCredential.
Credential(data, isScript) ==
    [kind |-> IF isScript THEN Scr ELSE Key, payload |-> SubSeq(data, 1, KeyHashSize)]

Base(net, payment, stake, extra) ==
    [class |-> "base", net |-> net, payment |-> payment, stake |-> stake, extra |-> extra]
Enterprise(net, payment) == [class |-> "enterprise", net |-> net, payment |-> payment]
Reward(net, stake)       == [class |-> "reward", net |-> net, stake |-> stake]
Pointer(net, payment, p) ==
    [class |-> "pointer", net |-> net, payment |-> payment, pointer |-> p]
Invalid == [class |-> "invalid"]

\* The high four bits of the header.
Type(data) == data[1] \div 16
Bit4(data) == Type(data) % 2 = 1
\* Mutant: the wrong bit of the header.
Bit6(data) == (Type(data) \div 4) % 2 = 1

Bit5(data) == (Type(data) \div 2) % 2 = 1

NewAddressFromBytes(data) ==
    LET net     == data[1] % 16
        first   == Credential(Behind(data, 1), Bit4(data))
        second  == Credential(Behind(data, 1 + KeyHashSize), Bit5(data))
        pointer == GetStakePointer(Behind(data, 1 + KeyHashSize))
    IN  CASE data = <<>> -> Invalid
          [] data # <<>> /\ Type(data) \in 0..3 /\ Len(data) >= 1 + 2 * KeyHashSize ->
                Base(net, first, second, Behind(data, 1 + 2 * KeyHashSize))
          [] data # <<>> /\ Type(data) \in 4..5 /\ Len(data) >= 1 + KeyHashSize + 3 ->
                IF pointer.ok THEN Pointer(net, first, pointer.value) ELSE Invalid
          [] data # <<>> /\ Type(data) \in 6..7 /\ Len(data) = 1 + KeyHashSize ->
                Enterprise(net, first)
          [] data # <<>> /\ Type(data) \in 14..15 /\ Len(data) = 1 + KeyHashSize ->
                Reward(net, first)
          [] OTHER -> Invalid

NewAddress(t) ==
    IF IsAddressWithValidPrefix(t) /\ DecodeToBase256(t).ok
    THEN NewAddressFromBytes(DecodeToBase256(t).data) ELSE Invalid

Header(type, net) == 16 * type + (net % 16)

Bytes(a) ==
    CASE a.class = "base" ->
            <<Header(a.payment.kind + 2 * a.stake.kind, a.net)>>
                \o a.payment.payload \o a.stake.payload \o a.extra
      [] a.class = "enterprise" ->
            <<Header(6 + a.payment.kind, a.net)>> \o a.payment.payload
      [] a.class = "reward" ->
            <<Header(14 + a.stake.kind, a.net)>> \o a.stake.payload
      [] a.class = "pointer" ->
            <<Header(4 + a.payment.kind, a.net)>> \o a.payment.payload
                \o FlattenSeq([i \in 1..3 |-> VariableEncode(a.pointer[i])])

String(a) ==
    EncodeFromBase256(IF a.class = "reward" THEN GetStakePrefix(a.net) ELSE GetPrefix(a.net), Bytes(a))

\* What NewBaseAddress, NewEnterpriseAddress, NewRewardAddress and
\* NewPolicyScriptAddress make of hashes.
Constructed ==
    {Base(net, Credential(h, s), Credential(i, s), <<>>) :
        net \in Networks, h \in Hashes, i \in Hashes, s \in BOOLEAN}
    \cup {Enterprise(net, Credential(h, s)) : net \in Networks, h \in Hashes, s \in BOOLEAN}
    \cup {Reward(net, Credential(h, FALSE)) : net \in Networks, h \in Hashes}

(* ------------------------- parsing and printing -------------------------- *)

NoText == [hrp |-> <<>>, five |-> <<>>, case |-> "lower"]

Init ==
    \/ text \in Texts /\ addr = Invalid /\ step = "given"
    \/ text = NoText /\ addr \in Constructed /\ step = "parsed"

Parse ==
    /\ step \in {"given", "printed", "mistyped"}
    /\ addr' = NewAddress(text)
    /\ step' = IF addr' = Invalid THEN "rejected" ELSE "parsed"
    /\ UNCHANGED text

Show ==
    /\ step = "parsed"
    /\ text' = String(addr)
    /\ step' = "printed"
    /\ UNCHANGED addr

\* Slips of the one who copies a text: a character for another one, before or
\* behind the separator, two neighbours swapped, a character too few or too many,
\* capitals.
Slips(t) ==
    {[t EXCEPT !.five[i] = v] : i \in DOMAIN t.five, v \in Fives \cup {NoChar}}
    \cup {[t EXCEPT !.hrp[i] = v] : i \in DOMAIN t.hrp, v \in {97, 98, 115}}
    \cup {[t EXCEPT !.five[i] = t.five[i + 1], !.five[i + 1] = t.five[i]] :
            i \in 1..(Len(t.five) - 1)}
    \cup {[t EXCEPT !.five = RemoveAt(t.five, i)] : i \in DOMAIN t.five}
    \cup {[t EXCEPT !.five = InsertAt(t.five, i, v)] :
            i \in 1..(Len(t.five) + 1), v \in Fives}
    \cup {[t EXCEPT !.case = c] : c \in {"mixed", "upper"}}

Mistype ==
    /\ step = "printed" /\ addr \in Constructed
    /\ text' \in Slips(text) \ {text}
    /\ step' = "mistyped"
    /\ UNCHANGED addr

Next == Parse \/ Show \/ Mistype

Spec == Init /\ [][Next]_vars

(* ------------------------------ properties ------------------------------- *)

\* A text that fits the limit and a network that has a prefix.
Printable(a) == a.net \in Networks /\ TextLength(String(a)) <= MaxTextLength

\* Parsing what String has printed gives the same address again: class, network,
\* credentials, kinds, pointer and extra bytes, whether the address was made of
\* hashes or parsed from a text with another prefix, with superfluous bytes in
\* its varints, or with numbers that wrap around (address.go:16-127,
\* address_types.go:84-98, 121-137, 164-176, 208-282).
SameAddressAgain ==
    [][step = "printed" /\ step' # "mistyped" /\ Printable(addr) => addr' = addr]_vars

\* The number in a varint, however many bits it has.
Number(raw, n) == FoldLeft(LAMBDA r, x : 128 * r + (x % 128), 0, SubSeq(raw, 1, n))

\* No varint has leading zeroes or more bits than a word.
Minimal(raw) ==
    \A i \in DOMAIN raw : (i = 1 \/ raw[i - 1] < 128) =>
        LET rest == Behind(raw, i - 1)
        IN  rest[1] # 128 /\ Number(rest, ReadOne(rest).len) < Word

\* Printing what was parsed gives the same characters behind the separator again
\* and, with the prefix of the network, the same text: no byte is dropped or
\* read twice and no two texts of one prefix are the same address, unless they
\* are pointer addresses whose varints are longer than they have to be
\* (address.go:48-122, bech32.go:297-368).
SameTextAgain ==
    [][step = "parsed" /\ text # NoText /\ (addr.class = "pointer" =>
            Minimal(Behind(DecodeToBase256(text).data, 1 + KeyHashSize)))
        => /\ DecodeToBase256(text).data = Bytes(addr)
           /\ text'.hrp = text.hrp => text' = text]_vars

=============================================================================
