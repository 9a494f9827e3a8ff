------------------------------- MODULE Bech32 -------------------------------
(* core/bech32/bech32.go: strings of a human-readable part, the separator    *)
(* and data in groups of five bits that end in a BCH checksum.  A text is    *)
(* the record of its character codes before the last "1", of the values of   *)
(* the characters behind it, NoChar for one that is not in the charset, and  *)
(* of the case of its letters.  Errors are not told apart.                   *)
EXTENDS Integers, Sequences, SequencesExt

CONSTANT MaxTextLength      \* maxBechStrLength

ASSUME LengthAssumption == MaxTextLength \in Nat

Fives  == 0..31
NoChar == 32

(* ------------------------------ the checksum ----------------------------- *)

Bit(x, i) == (x \div 2^i) % 2

Xor5 == [x \in Fives |-> [y \in Fives |->
    LET b(i) == ((Bit(x, i) + Bit(y, i)) % 2) * 2^i
    IN  b(0) + b(1) + b(2) + b(3) + b(4)]]

\* chk's thirty bits are six groups of five, the highest first.
ChkGroups(n) == [k \in 1..6 |-> (n \div 32^(6 - k)) % 32]
ChkXor(x, y) ==
    <<Xor5[x[1]][y[1]], Xor5[x[2]][y[2]], Xor5[x[3]][y[3]],
      Xor5[x[4]][y[4]], Xor5[x[5]][y[5]], Xor5[x[6]][y[6]]>>

gen == <<996825010, 642813549, 513874426, 1027748829, 705979059>>

\* The generators that the five bits shifted out of chk select.
Feedback ==
    LET pick(b, i) == IF Bit(b, i) = 1 THEN ChkGroups(gen[i + 1]) ELSE ChkGroups(0)
    IN  [b \in Fives |-> ChkXor(pick(b, 0), ChkXor(pick(b, 1),
                            ChkXor(pick(b, 2), ChkXor(pick(b, 3), pick(b, 4)))))]

Round(chk, v) == ChkXor(Append(Tail(chk), v), Feedback[Head(chk)])


\* bech32Polymod; the checksum, or six zeroes for it, is part of the values.
Polymod(hrp, values) ==
    LET all      == [i \in DOMAIN hrp |-> hrp[i] \div 32] \o <<0>>
                        \o [i \in DOMAIN hrp |-> hrp[i] % 32] \o values
        chk[n \in 0..Len(all)] ==
            IF n = 0 THEN ChkGroups(1) ELSE Round(chk[n - 1], all[n])
    IN  chk[Len(all)]

\* writeBech32Checksum.
Checksum(hrp, values) ==
    ChkXor(Polymod(hrp, values \o <<0, 0, 0, 0, 0, 0>>), ChkGroups(1))

\* bech32VerifyChecksum.
VerifyChecksum(hrp, values) == Polymod(hrp, values) = ChkGroups(1)

(* ----------------------------- regrouping bits --------------------------- *)

Bits(data, width) ==
    [i \in 1..(width * Len(data)) |->
        Bit(data[((i - 1) \div width) + 1], width - 1 - ((i - 1) % width))]

\* The number that bits i to j are, followed by zeroes up to the given width.
Field(bits, i, j, width) ==
    LET acc[k \in (i - 1)..j] == IF k < i THEN 0 ELSE 2 * acc[k - 1] + bits[k]
    IN  acc[j] * 2^(width - (j - i + 1))

\* Mutant: left-over bits are dropped.
ConvertBitsLoose(data, from, to, pad) ==
    LET bits  == Bits(data, from)
        whole == Len(bits) \div to
        rest  == Len(bits) % to
        last  == Field(bits, to * whole + 1, Len(bits), to)
    IN  [ok   |-> TRUE,
         data |-> [k \in 1..whole |-> Field(bits, to * (k - 1) + 1, to * k, to)]
                    \o (IF pad /\ rest > 0 THEN <<last>> ELSE <<>>)]

\* Without padding, at most four bits may be left over, all of them zeroes.
ConvertBits(data, from, to, pad) ==
    LET bits  == Bits(data, from)
        whole == Len(bits) \div to
        rest  == Len(bits) % to
        last  == Field(bits, to * whole + 1, Len(bits), to)
    IN  [ok   |-> pad \/ rest = 0 \/ (rest <= 4 /\ last = 0),
         data |-> [k \in 1..whole |-> Field(bits, to * (k - 1) + 1, to * k, to)]
                    \o (IF pad /\ rest > 0 THEN <<last>> ELSE <<>>)]

(* ---------------------------------- texts -------------------------------- *)

Encode(hrp, values) ==
    [hrp |-> hrp, five |-> values \o Checksum(hrp, values), case |-> "lower"]

EncodeFromBase256(hrp, data) == Encode(hrp, ConvertBits(data, 8, 5, TRUE).data)

TextLength(t) == Len(t.hrp) + 1 + Len(t.five)

\* What Decode accepts.
Decodes(t) ==
    /\ TextLength(t) \in 8..MaxTextLength
    /\ t.case # "mixed"
    /\ Len(t.hrp) >= 1 /\ Len(t.five) >= 6
    /\ NoChar \notin ToSet(t.five)
    /\ VerifyChecksum(t.hrp, t.five)

DecodeToBase256(t) ==
    IF Decodes(t) THEN ConvertBits(SubSeq(t.five, 1, Len(t.five) - 6), 5, 8, FALSE)
    ELSE [ok |-> FALSE, data |-> <<>>]
=============================================================================
