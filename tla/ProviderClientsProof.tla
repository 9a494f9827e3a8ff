------------------------ MODULE ProviderClientsProof ------------------------
(* Theorems about ProviderClients for every ledger, page, number of polls,   *)
(* blocks and rollbacks: what a client makes of an answer was true of the    *)
(* ledger at a moment of the call.  What a request brought back is tied to   *)
(* the moments of its call, what a method returned to that, and what the     *)
(* client keeps to what the method returned; what the selection adds up is   *)
(* tied to the list it was given, for lists of every length.                 *)
EXTENDS ProviderClients, AmountsProof

(* -------------------------------- moments -------------------------------- *)

Hashes == Nat

Held == [tx : Hashes, index : Nat, lovelace : Nat, token : Nat]

\* An output that is held is of a transaction that was included.
Moments ==
    {m \in [held : Seq(Held), txs : SUBSET Hashes, epoch : 1..Epochs,
            height : Nat, slot : Nat, hash : Nat] :
        \A k \in DOMAIN m.held : m.held[k].tx \in m.txs}

\* The last moment that a running call has seen is the present one.
ChainOK ==
    /\ provider \in Kinds /\ op \in Operations
    /\ events \in Nat /\ whole \in BOOLEAN
    /\ chain \in Seq(Moments) /\ chain # <<>>
    /\ seen \in Seq(Moments) /\ seen # <<>>
    /\ method # "none" => seen[Len(seen)] = Now

\* A step that begins no call only adds moments, and doubts.
Grows ==
    /\ provider' = provider /\ op' = op
    /\ whole' => whole
    /\ \A i \in DOMAIN seen : i \in DOMAIN seen' /\ seen'[i] = seen[i]

Begins ==
    /\ method = "none" /\ method' # "none"
    /\ response' = None /\ got' = None
    /\ seen' = <<Now>> /\ whole' = TRUE
    /\ UNCHANGED <<provider, op, chainVars, height>>

(* --------------------------- what was answered --------------------------- *)

\* The definitions of Providers that look at the provider, with it as an argument.
ListedBy(p, held) == IF p = "blockfrost" THEN Page(held) ELSE held

OrdersBy(p, held) ==
    IF p = "blockfrost" THEN {Page(held)} ELSE {held, Reverse(held)}

BodyBy(p, held) ==
    CASE p = "blockfrost" -> [k \in DOMAIN held |-> BlockfrostItem(held[k])]
      [] p = "ogmios"     -> [k \in DOMAIN held |-> OgmiosItem(held[k])]
      [] OTHER            -> Table(held)

\* A body that lists the UTxOs, one entry of it incomplete at most.
Sent(body, held) ==
    \/ body = BodyBy(provider, held)
    \/ /\ ~whole
       /\ \E k \in DOMAIN held, fault \in Faults :
            body = BodyBy(provider, [held EXCEPT ![k] = Garbled(held[k], fault)])

\* A list that shows what an address held.
Shows(list) ==
    \E i \in DOMAIN seen : \E h \in OrdersBy(provider, seen[i].held) :
        \/ list = <<>> /\ ~whole
        \/ /\ Len(list) = Len(h) /\ DOMAIN list = DOMAIN h
           /\ \A k \in DOMAIN h : Stands(list[k], h[k])

TipAt(i) == [block |-> seen[i].height, slot |-> seen[i].slot, hash |-> seen[i].hash]

\* Ogmios's height came first.
IsTip(tip) ==
    whole =>
        \E i, j \in DOMAIN seen :
            /\ i <= j /\ (provider # "ogmios" => i = j)
            /\ tip = [TipAt(j) EXCEPT !.block = seen[i].height]

\* The parameters of a moment, or of an error.
IsDocument(ps, m) ==
    \/ /\ ps.numbers = m.epoch
       /\ ps.texts \in {m.epoch} \cup (IF provider = "cli" THEN {} ELSE {0})
       /\ ps.costModels = IF provider = "cli" THEN m.epoch ELSE 0
    \/ provider = "ogmios" /\ ps = [numbers |-> 0, texts |-> 0, costModels |-> 0]

Included == \E i \in DOMAIN seen : Target \in seen[i].txs
Missing  == whole => \E i \in DOMAIN seen : Target \notin seen[i].txs

\* What has come back, method by method.
ResponseOK ==
    /\ method = "GetUtxos" /\ response.status = "ok" =>
        \/ provider = "cli" /\ Len(response.body) < 2
        \/ provider = "ogmios" /\ response.body = <<>> /\ ~whole
        \/ \E i \in DOMAIN seen : \E h \in OrdersBy(provider, seen[i].held) :
                Sent(response.body, h)
    /\ method = "GetUtxos" /\ response.status = "notFound" /\ whole =>
        \E i \in DOMAIN seen : seen[i].held = <<>>
    /\ method = "GetHeight" => provider = "ogmios"
    /\ method = "GetHeight" /\ response.status = "ok" /\ whole =>
        \E i \in DOMAIN seen : response.body = seen[i].height
    /\ method = "GetTip" /\ provider = "ogmios" /\ whole =>
        \E i \in DOMAIN seen : height = seen[i].height
    /\ method = "GetTip" /\ response.status = "ok" /\ whole =>
        \E i, j \in DOMAIN seen :
            /\ i <= j /\ (provider = "ogmios" => height = seen[i].height)
            /\ response.body = TipAt(j)
    /\ method = "GetProtocolParameters" /\ response.status = "ok" =>
        \/ \E i \in DOMAIN seen, plain \in BOOLEAN :
                response.body = Document(seen[i].epoch, plain)
        \/ provider = "ogmios" /\ response.body = Document(0, TRUE)
    /\ method = "GetTxByHash" /\ response.status = "ok" =>
        response.body = Target /\ Included
    /\ method = "GetTxByHash" /\ response.status = "notFound" => Missing
    /\ method = "SubmitTx" /\ response.status = "ok" => response.body = "error" \/ taken

(* -------------------------- what was made of it -------------------------- *)

\* The operation that runs decides which method does.
MethodOK ==
    /\ method # "none" => got = None
    /\ op \in {"select", "waitHash"} => method \in {"none", "GetUtxos"}
    /\ op = "submit" => method \in {"none", "SubmitTx"}
    /\ op = "waitTx" => method \in {"none", "GetTxByHash"}
    /\ op = "configure" /\ params = {} => method \in {"none", "GetProtocolParameters"}
    /\ op = "configure" /\ params # {} => method \in {"none", "GetHeight", "GetTip"}

Means(value) ==
    /\ op \in {"select", "waitHash"} => Shows(value)
    /\ op = "configure" /\ params = {} => \E i \in DOMAIN seen : IsDocument(value, seen[i])
    /\ op = "configure" /\ params # {} => IsTip(value)
    /\ op = "submit" => taken
    /\ op = "waitTx" => \/ value = {} /\ Missing
                        \/ value # {} /\ Included

GotOK == got.status = "nil" => Means(got.value)

(* ---------------------------- what is kept of it ------------------------- *)

Waits == {"waitHash", "waitTx"}

\* What the last poll's answer says.
Shown ==
    \E i \in DOMAIN seen :
        /\ Target \in seen[i].txs
        /\ op = "waitHash" => \E o \in ToSet(seen[i].held) : o.tx = Target

Unshown ==
    whole =>
        \E i \in DOMAIN seen :
            \/ Target \notin seen[i].txs
            \/ /\ op = "waitHash"
               /\ Target \notin {o.tx : o \in ToSet(ListedBy(provider, seen[i].held))}

\* The selection.
KeptOK ==
    /\ stage = "start" /\ op = "select" => outcome = "query"
    /\ op = "select" /\ outcome \notin {"query", "err"} => Shows(utxos)

\* The configuration.
ConfiguredOK ==
    /\ stage = "start" => params = {}
    /\ \E i \in DOMAIN asked : \A ps \in params : IsDocument(ps, asked[i])
    /\ ttl # {} =>
        /\ stage = "done" /\ op = "configure"
        /\ whole => \E j \in DOMAIN seen : ttl = {seen[j].slot + TTLInc}

\* The loop: its last reply is what the last poll showed.
WaitOK ==
    /\ op \notin Waits => pc = "idle" /\ result = "none" /\ reply = "none"
    /\ stage = "start" => pc = "idle" /\ reply = "none" /\ result = "none"
    /\ pc \in {"idle", "head", "call", "select"}
    /\ pc \in {"head", "select"} => reply # "stop"
    /\ reply = "stop" => Shown
    /\ reply = "again" => Unshown
    /\ result # "none" => pc = "idle" /\ (result = "nil" <=> reply = "stop")
    /\ answers \in Seq({"stop", "again", "soft", "hard"})
    /\ answers # <<>> /\ ~(pc = "call" /\ reply = "none") => reply = answers[Len(answers)]
    /\ op = "waitTx" => (res # {} <=> reply = "stop")

Inv == ChainOK /\ ResponseOK /\ MethodOK /\ GotOK /\ KeptOK /\ ConfiguredOK /\ WaitOK

(* -------------------------- sequences and lists -------------------------- *)

\* The last element of a sequence.
LEMMA LastElement ==
    ASSUME NEW S, NEW s \in Seq(S), s # <<>>
    PROVE  Len(s) \in Nat /\ Len(s) \in DOMAIN s /\ Last(s) = s[Len(s)] /\ Last(s) \in S
BY DEF Last

\* What comes of appending.
LEMMA Appended ==
    ASSUME NEW S, NEW s \in Seq(S), NEW x \in S
    PROVE  /\ Append(s, x) \in Seq(S) /\ Append(s, x) # <<>>
           /\ Last(Append(s, x)) = x
           /\ Append(s, x)[Len(Append(s, x))] = x
           /\ \A i \in DOMAIN s : i \in DOMAIN Append(s, x) /\ Append(s, x)[i] = s[i]
BY DEF Last

\* The other order of a list has the same elements.
LEMMA Reversed ==
    ASSUME NEW S, NEW s \in Seq(S)
    PROVE  /\ Reverse(s) \in Seq(S)
           /\ Len(Reverse(s)) = Len(s)
           /\ ToSet(Reverse(s)) = ToSet(s)
<1>1. Len(s) \in Nat /\ DOMAIN s = 1..Len(s) /\ \A i \in 1..Len(s) : s[i] \in S
  OBVIOUS
<1>2. Reverse(s) = [i \in 1..Len(s) |-> s[(Len(s) - i) + 1]]
  BY DEF Reverse
<1>3. Reverse(s) \in Seq(S) /\ Len(Reverse(s)) = Len(s)
  <2>1. \A i \in 1..Len(s) : (Len(s) - i) + 1 \in 1..Len(s)
    BY <1>1
  <2>2. \A i \in 1..Len(s) : s[(Len(s) - i) + 1] \in S
    BY <1>1, <2>1
  <2> QED BY <1>1, <1>2, <2>2
<1>4. DOMAIN Reverse(s) = 1..Len(s)
  BY <1>2
<1>5. ASSUME NEW x \in ToSet(Reverse(s)) PROVE x \in ToSet(s)
  <2>1. PICK i \in 1..Len(s) : x = s[(Len(s) - i) + 1]
    BY <1>2, <1>4 DEF ToSet
  <2>2. (Len(s) - i) + 1 \in 1..Len(s)
    BY <1>1
  <2> QED BY <1>1, <2>1, <2>2 DEF ToSet
<1>6. ASSUME NEW x \in ToSet(s) PROVE x \in ToSet(Reverse(s))
  <2>1. PICK i \in 1..Len(s) : x = s[i]
    BY <1>1 DEF ToSet
  <2> DEFINE j == (Len(s) - i) + 1
  <2>2. j \in 1..Len(s) /\ (Len(s) - j) + 1 = i
    BY <1>1
  <2>3. Reverse(s)[j] = x
    BY <1>2, <2>1, <2>2
  <2> QED BY <1>4, <2>2, <2>3 DEF ToSet
<1> QED BY <1>3, <1>5, <1>6

\* A page is a prefix.
LEMMA Paged ==
    ASSUME NEW S, NEW s \in Seq(S)
    PROVE  Page(s) \in Seq(S) /\ ToSet(Page(s)) \subseteq ToSet(s) /\ (s = <<>> => Page(s) = <<>>)
<1> DEFINE n == IF Len(s) < PageSize THEN Len(s) ELSE PageSize
<1>1. n \in 0..Len(s) /\ Len(s) \in Nat
  BY ProvidersAssumption
<1>2. Page(s) = SubSeq(s, 1, n)
  BY DEF Page
<1>3. /\ SubSeq(s, 1, n) \in Seq(S) /\ Len(SubSeq(s, 1, n)) = n
      /\ \A i \in 1..n : SubSeq(s, 1, n)[i] = s[i]
  BY <1>1
<1>4. ToSet(Page(s)) \subseteq ToSet(s)
  BY <1>1, <1>2, <1>3 DEF ToSet
<1>5. s = <<>> => Page(s) = <<>>
  BY <1>1, <1>2, <1>3
<1> QED BY <1>2, <1>3, <1>4, <1>5

\* A list is the whole of what is held or the oldest page of it, in some order.
LEMMA ListedIsHeld ==
    ASSUME NEW S, NEW held \in Seq(S), NEW p, NEW h \in OrdersBy(p, held)
    PROVE  /\ h \in Seq(S) /\ ListedBy(p, held) \in Seq(S)
           /\ Len(h) = Len(ListedBy(p, held))
           /\ ToSet(h) = ToSet(ListedBy(p, held))
           /\ ToSet(h) \subseteq ToSet(held)
           /\ held = <<>> => ListedBy(p, held) = <<>>
BY Reversed, Paged DEF OrdersBy, ListedBy

\* What is left of a sequence without its first two elements.
LEMMA BehindTwo ==
    ASSUME NEW T, NEW head \in Seq(T), NEW rows \in Seq(T), Len(head) = 2
    PROVE  /\ Len(head \o rows) = 2 + Len(rows)
           /\ SubSeq(head \o rows, 3, Len(head \o rows)) = rows
<1> DEFINE t == head \o rows
<1>1. /\ t \in Seq(T) /\ Len(t) = 2 + Len(rows)
      /\ \A k \in 1..Len(rows) : t[k + 2] = rows[k]
  <2>1. /\ t \in Seq(T) /\ Len(t) = Len(head) + Len(rows)
        /\ \A i \in 1..(Len(head) + Len(rows)) :
                t[i] = IF i <= Len(head) THEN head[i] ELSE rows[i - Len(head)]
    BY ConcatProperties
  <2> HIDE DEF t
  <2> QED BY <2>1
<1> HIDE DEF t
<1>2. SubSeq(t, 3, Len(t)) \in Seq(T) /\ Len(SubSeq(t, 3, Len(t))) = Len(rows)
  BY <1>1
<1>3. \A k \in 1..Len(rows) : SubSeq(t, 3, Len(t))[k] = rows[k]
  BY <1>1
<1>4. SubSeq(t, 3, Len(t)) = rows
  BY <1>2, <1>3, SeqEqual
<1> QED BY <1>1, <1>4 DEF t

\* An entry as it may be sent.
Entries == Held \cup {Garbled(o, fault) : o \in Held, fault \in Faults}

\* What the program takes an entry for.
Read(o) == Utxo(o.tx, Decoded(o.index), Decoded(o.lovelace))

\* The rows of a table are those that were printed.
LEMMA RowsOfTable ==
    ASSUME NEW h \in Seq(Entries)
    PROVE  /\ Len(Table(h)) >= 2
           /\ Rows(Table(h)) = [k \in DOMAIN h |-> Row(h[k])]
<1> DEFINE rows == [k \in DOMAIN h |-> Row(h[k])]
           head == <<Heading, Heading>>
           T    == {Heading} \cup {Row(h[k]) : k \in DOMAIN h}
<1>1. DOMAIN h = 1..Len(h) /\ Len(h) \in Nat
  OBVIOUS
<1>2. rows \in Seq(T)
  <2>1. \A k \in 1..Len(h) : Row(h[k]) \in T
    BY <1>1
  <2> HIDE DEF T
  <2> QED BY <1>1, <2>1
<1>3. head \in Seq(T) /\ Len(head) = 2
  OBVIOUS
<1>4. Table(h) = head \o rows
  BY DEF Table
<1> HIDE DEF rows, head, T
<1>5. Len(head \o rows) >= 2 /\ SubSeq(head \o rows, 3, Len(head \o rows)) = rows
  BY <1>2, <1>3, BehindTwo
<1> QED BY <1>4, <1>5 DEF Rows, rows

\* What is left of an entry that is incomplete.
LEMMA GarbledFields ==
    ASSUME NEW o \in Held, NEW fault \in Faults
    PROVE  LET g == Garbled(o, fault)
           IN  \/ g.tx = Absent /\ g.index = Absent /\ g.lovelace = Absent
               \/ g.tx = o.tx /\ g.index = o.index /\ g.lovelace \in {Absent, NotNumber}
<1>0. o = [o EXCEPT !.tx = o.tx] /\ o \in [tx : Nat, index : Nat, lovelace : Nat, token : Nat]
  BY DEF Held, Hashes
<1>1. CASE fault = "empty"
  <2>1. Garbled(o, fault) = [o EXCEPT !.tx = Absent, !.index = Absent, !.lovelace = Absent]
    BY <1>1 DEF Garbled
  <2> QED BY <1>0, <2>1
<1>2. CASE fault = "bare"
  <2>1. Garbled(o, fault) = [o EXCEPT !.lovelace = Absent]
    BY <1>2 DEF Garbled
  <2> QED BY <1>0, <2>1
<1>3. CASE fault = "noNumber"
  <2>1. Garbled(o, fault) = [o EXCEPT !.lovelace = NotNumber]
    BY <1>3 DEF Garbled
  <2> QED BY <1>0, <2>1
<1> QED BY <1>1, <1>2, <1>3 DEF Faults

\* An entry is a UTxO, or has lost all its fields, its amount or its number.
LEMMA EntryKinds ==
    ASSUME NEW o \in Entries
    PROVE  \/ o \in Held
           \/ o.tx = Absent /\ o.index = Absent /\ o.lovelace = Absent
           \/ o.tx \in Nat /\ o.index \in Nat /\ o.lovelace \in {Absent, NotNumber}
<1>1. \A x \in Held : x.tx \in Nat /\ x.index \in Nat
  BY DEF Held, Hashes
<1>2. CASE \E x \in Held, fault \in Faults : o = Garbled(x, fault)
  <2>1. PICK x \in Held, fault \in Faults : o = Garbled(x, fault)
    BY <1>2
  <2> QED BY <1>1, <2>1, GarbledFields
<1> QED BY <1>2 DEF Entries

\* Short sequences.
LEMMA Pairs ==
    /\ \A x, y : <<x>> \o <<y>> = <<x, y>>
    /\ \A x : <<x>> \o <<>> = <<x>> /\ <<>> \o <<x>> = <<x>>
    /\ <<>> \o <<>> = <<>>
<1>1. ASSUME NEW x, NEW y PROVE <<x>> \o <<y>> = <<x, y>>
  <2> DEFINE T == {x, y}
             s == <<x>>
             t == <<y>>
             u == <<x, y>>
  <2>1. /\ s \in Seq(T) /\ Len(s) = 1 /\ s[1] = x
        /\ t \in Seq(T) /\ Len(t) = 1 /\ t[1] = y
        /\ u \in Seq(T) /\ Len(u) = 2 /\ u[1] = x /\ u[2] = y
    OBVIOUS
  <2> HIDE DEF T, s, t, u
  <2>2. /\ s \o t \in Seq(T) /\ Len(s \o t) = Len(s) + Len(t)
        /\ \A i \in 1..(Len(s) + Len(t)) :
                (s \o t)[i] = IF i <= Len(s) THEN s[i] ELSE t[i - Len(s)]
    BY <2>1, ConcatProperties
  <2>3. /\ Len(s \o t) = Len(u)
        /\ \A i \in 1..Len(u) : (s \o t)[i] = u[i]
    BY <2>1, <2>2
  <2>4. s \o t = u
    BY <2>1, <2>2, <2>3, SeqEqual
  <2> QED BY <2>4 DEF s, t, u
<1>2. ASSUME NEW x PROVE <<x>> \o <<>> = <<x>> /\ <<>> \o <<x>> = <<x>>
  OBVIOUS
<1>3. <<>> \o <<>> = <<>>
  OBVIOUS
<1> QED BY <1>1, <1>2, <1>3

\* The first amount in lovelace.
LEMMA LovelaceOf ==
    ASSUME NEW q, NEW t
    PROVE  Lovelace(Amount("lovelace", q) \o Amount("token", t)) = Decoded(q)
<1> DEFINE a == Amount("lovelace", q) \o Amount("token", t)
           first == {i \in DOMAIN a : a[i].unit = "lovelace"
                        /\ \A j \in 1..(i - 1) : a[j].unit # "lovelace"}
<1>1. CASE q # Absent
  <2> DEFINE l == [unit |-> "lovelace", quantity |-> q]
  <2>1. a = <<l>> \/ \E m : m.unit = "token" /\ a = <<l, m>>
    <3>0. Amount("lovelace", q) = <<l>>
      BY <1>1 DEF Amount
    <3>1. CASE t = Absent
      <4>1. Amount("token", t) = <<>>
        BY <3>1 DEF Amount
      <4> QED BY <3>0, <4>1, Pairs
    <3>2. CASE t # Absent
      <4> DEFINE m == [unit |-> "token", quantity |-> t]
      <4>1. Amount("token", t) = <<m>> /\ m.unit = "token"
        BY <3>2 DEF Amount
      <4> HIDE DEF l, m
      <4>2. a = <<l, m>>
        BY <3>0, <4>1, Pairs
      <4> QED BY <4>1, <4>2
    <3> QED BY <3>1, <3>2
  <2>2. first = {1} /\ a[1] = l
    <3> HIDE DEF a
    <3> QED BY <2>1
  <2> HIDE DEF a, first
  <2>3. (CHOOSE i \in first : TRUE) = 1
    BY <2>2
  <2> QED BY <1>1, <2>2, <2>3 DEF Lovelace, Decoded, a, first
<1>2. CASE q = Absent
  <2>1. first = {}
    <3>1. a = <<>> \/ \E m : m.unit = "token" /\ a = <<m>>
      <4>0. Amount("lovelace", q) = <<>>
        BY <1>2 DEF Amount
      <4>1. CASE t = Absent
        <5>1. Amount("token", t) = <<>>
          BY <4>1 DEF Amount
        <5> QED BY <4>0, <5>1, Pairs
      <4>2. CASE t # Absent
        <5> DEFINE m == [unit |-> "token", quantity |-> t]
        <5>1. Amount("token", t) = <<m>> /\ m.unit = "token"
          BY <4>2 DEF Amount
        <5> HIDE DEF m
        <5>2. a = <<m>>
          BY <4>0, <5>1, Pairs
        <5> QED BY <5>1, <5>2
      <4> QED BY <4>1, <4>2
    <3> HIDE DEF a
    <3> QED BY <3>1
  <2> HIDE DEF a, first
  <2> QED BY <1>2, <2>1 DEF Lovelace, Decoded, a, first
<1> QED BY <1>1, <1>2

\* Whatever the provider, the conversion reads the entries that were sent.
LEMMA Converted ==
    ASSUME NEW g \in Seq(Entries), provider \in Kinds, Asserts(BodyBy(provider, g))
    PROVE  Utxos(BodyBy(provider, g)) = [k \in DOMAIN g |-> Read(g[k])]
<1>0. \A k \in DOMAIN g : g[k] \in Entries
  OBVIOUS
<1>1. CASE provider = "blockfrost"
  <2> DEFINE body == [k \in DOMAIN g |-> BlockfrostItem(g[k])]
  <2>1. BodyBy(provider, g) = body
    BY <1>1 DEF BodyBy
  <2>2. ASSUME NEW k \in DOMAIN g PROVE FromBlockfrost(body[k]) = Read(g[k])
    <3>1. body[k].tx_hash = g[k].tx /\ body[k].output_index = g[k].index
      BY DEF BlockfrostItem
    <3>2. g[k].tx # Absent
      BY <1>1, <2>1, <3>1 DEF Asserts
    <3>3. g[k].index # Absent
      BY <1>0, <3>2, EntryKinds DEF Held, Absent
    <3>4. Lovelace(body[k].amount) = Decoded(g[k].lovelace)
      BY LovelaceOf DEF BlockfrostItem
    <3> QED BY <3>1, <3>3, <3>4 DEF FromBlockfrost, Read, Decoded
  <2> QED BY <1>1, <2>1, <2>2 DEF Utxos
<1>2. CASE provider = "ogmios"
  BY <1>2 DEF BodyBy, Utxos, FromOgmios, OgmiosItem, Read
<1>3. CASE provider = "cli"
  <2>1. BodyBy(provider, g) = Table(g)
    BY <1>3 DEF BodyBy
  <2>2. Utxos(Table(g)) = [i \in DOMAIN Rows(Table(g)) |-> FromRow(Rows(Table(g))[i])]
    BY <1>3 DEF Utxos
  <2>3. ASSUME NEW o \in Entries PROVE FromRow(Row(o)) = Read(o)
    <3>1. CASE o.tx = Absent
      <4>1. o.index = Absent /\ o.lovelace = Absent
        BY <3>1, EntryKinds DEF Held, Hashes, Absent
      <4>2. Row(o) = <<>>
        BY <3>1 DEF Row
      <4> QED BY <3>1, <4>1, <4>2 DEF FromRow, WordAt, Read, Decoded
    <3>2. CASE o.tx # Absent
      <4>1. o.index # Absent
        BY <3>2, EntryKinds DEF Held, Absent
      <4>2. CASE o.lovelace = Absent
        <5>1. Row(o) = <<o.tx, o.index>>
          BY <3>2, <4>2 DEF Row
        <5> QED BY <4>1, <4>2, <5>1 DEF FromRow, WordAt, Read, Decoded
      <4>3. CASE o.lovelace # Absent
        <5>1. Row(o) = <<o.tx, o.index, o.lovelace, o.token>>
          BY <3>2, <4>3 DEF Row
        <5> QED BY <4>1, <4>3, <5>1 DEF FromRow, WordAt, Read, Decoded
      <4> QED BY <4>2, <4>3
    <3> QED BY <3>1, <3>2
  <2> QED BY <1>0, <2>1, <2>2, <2>3, RowsOfTable
<1> QED BY <1>1, <1>2, <1>3 DEF Kinds

\* A list that was read stands for the UTxOs that were to be sent.
LEMMA ReadStands ==
    ASSUME NEW h \in Seq(Held), provider \in Kinds, NEW body, Sent(body, h),
           Asserts(body), ~Unreadable(body)
    PROVE  /\ Len(Utxos(body)) = Len(h) /\ DOMAIN Utxos(body) = DOMAIN h
           /\ \A k \in DOMAIN h : Stands(Utxos(body)[k], h[k])
<1>0. DOMAIN h = 1..Len(h) /\ Len(h) \in Nat /\ \A k \in DOMAIN h : h[k] \in Held
  OBVIOUS
<1>1. ASSUME NEW g \in Seq(Entries), DOMAIN g = DOMAIN h, body = BodyBy(provider, g)
      PROVE  /\ Len(Utxos(body)) = Len(h) /\ DOMAIN Utxos(body) = DOMAIN h
             /\ \A k \in DOMAIN h : Utxos(body)[k] = Read(g[k]) /\ g[k].lovelace # NotNumber
  <2>1. Utxos(body) = [k \in DOMAIN h |-> Read(g[k])]
    BY <1>1, Converted
  <2>2. Len(Utxos(body)) = Len(h) /\ DOMAIN Utxos(body) = DOMAIN h
    BY <1>0, <2>1
  <2>3. ASSUME NEW k \in DOMAIN h PROVE g[k].lovelace # NotNumber
    <3>1. Utxos(body)[k].amount # NotNumber
      BY <2>2 DEF Unreadable
    <3> QED BY <2>1, <3>1 DEF Read, Utxo, Decoded, NotNumber, Absent
  <2> QED BY <2>1, <2>2, <2>3
<1>2. \A o \in Held : Read(o) = Utxo(o.tx, o.index, o.lovelace)
  BY DEF Read, Decoded, Held, Absent
<1>3. CASE body = BodyBy(provider, h)
  <2>1. h \in Seq(Entries)
    BY <1>0 DEF Entries
  <2> QED BY <1>0, <1>1, <1>2, <1>3, <2>1 DEF Stands
<1>4. CASE /\ ~whole
           /\ \E k \in DOMAIN h, fault \in Faults :
                body = BodyBy(provider, [h EXCEPT ![k] = Garbled(h[k], fault)])
  <2>1. PICK n \in DOMAIN h, fault \in Faults :
            body = BodyBy(provider, [h EXCEPT ![n] = Garbled(h[n], fault)])
    BY <1>4
  <2> DEFINE g == [h EXCEPT ![n] = Garbled(h[n], fault)]
  <2>2. /\ DOMAIN g = DOMAIN h /\ g[n] = Garbled(h[n], fault)
        /\ \A k \in DOMAIN h : k # n => g[k] = h[k]
    BY <1>0
  <2>3. g \in Seq(Entries)
    <3>1. \A k \in DOMAIN h : g[k] \in Entries
      BY <1>0, <2>2 DEF Entries
    <3>2. g \in [1..Len(h) -> Entries]
      BY <1>0, <3>1
    <3> HIDE DEF g
    <3> QED BY <1>0, <3>2
  <2> HIDE DEF g
  <2>4. /\ Len(Utxos(body)) = Len(h) /\ DOMAIN Utxos(body) = DOMAIN h
        /\ \A k \in DOMAIN h : Utxos(body)[k] = Read(g[k]) /\ g[k].lovelace # NotNumber
    BY <1>1, <2>1, <2>2, <2>3 DEF g
  <2>5. ASSUME NEW k \in DOMAIN h PROVE Stands(Utxos(body)[k], h[k])
    <3>1. CASE k # n
      BY <1>0, <1>2, <2>2, <2>4, <3>1 DEF Stands
    <3>2. CASE k = n
      <4>1. g[n].lovelace # NotNumber
        BY <2>4
      <4>2. \/ g[n].tx = Absent /\ g[n].index = Absent /\ g[n].lovelace = Absent
            \/ g[n].tx = h[n].tx /\ g[n].index = h[n].index /\ g[n].lovelace = Absent
        BY <1>0, <2>2, <4>1, GarbledFields
      <4>3. h[n].index # Absent
        BY <1>0 DEF Held, Absent
      <4>4. Read(g[n]) \in {Utxo(h[n].tx, h[n].index, 0), Utxo(Absent, 0, 0)}
        BY <4>2, <4>3 DEF Read, Decoded
      <4> QED BY <1>4, <2>4, <3>2, <4>4 DEF Stands
    <3> QED BY <3>1, <3>2
  <2> QED BY <2>4, <2>5
<1> QED BY <1>3, <1>4 DEF Sent

(* --------------------------- what a step can be -------------------------- *)

\* The chain moves, and a running call sees it.
Moves ==
    /\ UNCHANGED <<provider, op, taken, callVars, whole, selectVars, clientVars, loopVars>>
    /\ events' \in Nat
    /\ chain' \in Seq(Moments) /\ chain' # <<>>
    /\ seen' = IF method = "none" THEN seen ELSE Append(seen, Now')

\* The chain does not, and no call begins.
Stays ==
    /\ UNCHANGED <<provider, op, chain, events, seen>>
    /\ whole' \in BOOLEAN /\ (whole' => whole)
    /\ method' # "none" => method # "none"

\* The present moment.
LEMMA Present ==
    ASSUME ChainOK
    PROVE  /\ Now \in Moments /\ Now = chain[Len(chain)]
           /\ Len(seen) \in DOMAIN seen /\ seen[Len(seen)] \in Moments
           /\ \A i \in DOMAIN seen : seen[i] \in Moments
BY LastElement DEF ChainOK, Now

\* A block is a moment, whatever it includes and spends.
LEMMA BlockMoves ==
    ASSUME ChainOK, NEW held \in Seq(Held), NEW txs \in SUBSET Hashes, NEW e \in 1..Epochs,
           \A k \in DOMAIN held : held[k].tx \in txs,
           Block(held, txs, e), UNCHANGED <<op, selectVars, clientVars, loopVars>>
    PROVE  Moves
<1> DEFINE m == [held |-> held, txs |-> txs, epoch |-> e, height |-> Now.height + 1,
                 slot |-> Now.slot + 2, hash |-> events + 1]
<1>1. m \in Moments
  <2>1. Now.height + 1 \in Nat /\ Now.slot + 2 \in Nat /\ events + 1 \in Nat
    <3>1. Now.height \in Nat /\ Now.slot \in Nat
      BY Present DEF Moments
    <3>2. events \in Nat
      BY DEF ChainOK
    <3> QED BY <3>1, <3>2
  <2> QED BY <2>1 DEF Moments
<1>2. chain' = Append(chain, m)
  BY DEF Block, Happens
<1>3. Now' = m /\ chain' \in Seq(Moments) /\ chain' # <<>>
  BY <1>1, <1>2, Appended DEF Now, ChainOK
<1>4. /\ seen' = IF method = "none" THEN seen ELSE Append(seen, Now')
      /\ events' = events + 1 /\ UNCHANGED <<provider, taken, callVars, whole>>
  BY DEF Block, Happens, Now
<1> QED BY <1>3, <1>4 DEF Moves, ChainOK

\* So is the moment before it, to which a rollback returns.
LEMMA ChainMoves ==
    ASSUME ChainOK, ChainStep, UNCHANGED <<op, selectVars, clientVars, loopVars>>
    PROVE  Moves
<1>0. /\ Now \in Moments /\ Now.held \in Seq(Held) /\ Now.txs \in SUBSET Hashes
      /\ Now.epoch \in 1..Epochs
      /\ \A k \in DOMAIN Now.held : Now.held[k].tx \in Now.txs
  BY Present DEF Moments
<1>1. CASE IncludeTarget
  <2> DEFINE o == [tx |-> Target, index |-> 1, lovelace |-> 10, token |-> 0]
  <2>1. o \in Held /\ o.tx = Target
    BY ProvidersAssumption DEF Held, Hashes
  <2> HIDE DEF o
  <2>2. Append(Now.held, o) \in Seq(Held)
    BY <1>0, <2>1
  <2>3. \A k \in DOMAIN Append(Now.held, o) :
            Append(Now.held, o)[k].tx \in Now.txs \cup {Target}
    BY <1>0, <2>1
  <2>4. Now.txs \cup {Target} \in SUBSET Hashes
    BY <1>0, ProvidersAssumption DEF Hashes
  <2>5. Block(Append(Now.held, o), Now.txs \cup {Target}, Now.epoch)
    BY <1>1 DEF IncludeTarget, o
  <2> QED BY <1>0, <2>2, <2>3, <2>4, <2>5, BlockMoves
<1>2. CASE SpendOldest
  <2>1. Now.held # <<>> /\ Block(Tail(Now.held), Now.txs, Now.epoch)
    BY <1>2 DEF SpendOldest
  <2>2. /\ Tail(Now.held) \in Seq(Held)
        /\ \A k \in DOMAIN Tail(Now.held) : Tail(Now.held)[k].tx \in Now.txs
    BY <1>0, <2>1
  <2> QED BY <1>0, <2>1, <2>2, BlockMoves
<1>3. CASE NewEpoch
  <2>1. Now.epoch + 1 \in 1..Epochs
    BY <1>0, <1>3, ProvidersAssumption DEF NewEpoch
  <2> QED BY <1>0, <1>3, <2>1, BlockMoves DEF NewEpoch
<1>4. CASE Rollback
  <2>1. chain \in Seq(Moments) /\ Len(chain) > 1 /\ chain' = Front(chain)
    BY <1>4 DEF Rollback, Happens, ChainOK
  <2>2. chain' = SubSeq(chain, 1, Len(chain) - 1)
    BY <2>1 DEF Front
  <2>3. chain' \in Seq(Moments) /\ Len(chain') = Len(chain) - 1
    BY <2>1, <2>2
  <2>4. chain' # <<>>
    BY <2>1, <2>3
  <2> QED BY <1>4, <2>3, <2>4 DEF Rollback, Happens, Moves, ChainOK, Now
<1> QED BY <1>1, <1>2, <1>3, <1>4 DEF ChainStep

\* A call begins, the chain moves, or neither.
LEMMA StepKinds ==
    ASSUME ChainOK, [Next]_vars
    PROVE  Begins \/ (ChainStep /\ Moves) \/ Stays
<1> USE DEF providerVars, chainVars, callVars, clientVars, loopVars
<1>0. whole \in BOOLEAN
  BY DEF ChainOK
<1>1. CASE Start
  BY <1>1 DEF Start, Call, Begins, Operations, ChainOK
<1>2. CASE HaveParams
  BY <1>2 DEF HaveParams, Back, Call, Begins
<1>3. CASE Poll
  BY <1>3 DEF Poll, Call, Begins
<1>4. CASE Selecting \/ HaveTip \/ Submitted \/ GivesUp \/ Invoke \/ LoopStep \/ CancelCtx
  BY <1>0, <1>4 DEF Selecting, HaveTip, Submitted, GivesUp, Invoke, LoopStep, CancelCtx, Stays
<1>5. CASE PollFails \/ PollUtxos \/ PollTx
  BY <1>0, <1>5 DEF PollFails, PollUtxos, PollTx, PollBack, Stays
<1>6. CASE (MethodStep \/ Answer) /\ UNCHANGED <<selectVars, clientVars, loopVars>>
  <2>1. CASE Answer
    BY <1>0, <1>6, <2>1 DEF Answer, AnswerUtxos, AnswerNotFound, AnswerError, AnswerShort, AnswerTip,
       AnswerHeight, AnswerParams,
       AnswerTx, AnswerSubmit, AnswerFails, Answered, Stays
  <2>2. CASE MethodStep
    BY <1>0, <1>6, <2>2 DEF MethodStep, ReturnError, ReturnNotFound, ReturnUtxos, UtxosPanic, AskTip,
       ReturnTip, ReturnParams, ReturnTx, ReturnSubmitted, NotImplemented, Return, Received,
       Waiting, Stays
  <2> QED BY <1>6, <2>1, <2>2
<1>7. CASE ChainStep /\ UNCHANGED <<selectVars, clientVars, loopVars>>
  BY <1>7, ChainMoves
<1>8. CASE UNCHANGED vars
  BY <1>0, <1>8 DEF vars, Stays
<1> QED BY <1>1, <1>2, <1>3, <1>4, <1>5, <1>6, <1>7, <1>8 DEF Next, Client

\* No answer, and nothing made of one, begins a call.
LEMMA OnlyClientsBegin == MethodStep \/ Answer \/ ChainStep => ~Begins
<1> USE DEF Begins, chainVars, callVars
<1>1. Answer => ~Begins
  BY DEF Answer, AnswerUtxos, AnswerNotFound, AnswerShort, AnswerTip, AnswerHeight, AnswerParams,
     AnswerTx, AnswerSubmit, AnswerError, AnswerFails, Answered, Waiting
<1>2. MethodStep => ~Begins
  BY DEF MethodStep, ReturnError, ReturnNotFound, ReturnUtxos, UtxosPanic, AskTip, Received,
     ReturnTip, ReturnParams, ReturnTx, ReturnSubmitted, NotImplemented, Return
<1>3. ChainStep => ~Begins
  BY DEF ChainStep, IncludeTarget, SpendOldest, NewEpoch, Rollback, Block, Happens
<1> QED BY <1>1, <1>2, <1>3

\* Every step keeps the moments' types, and the last one of a call present.
LEMMA ChainOKNext ==
    ASSUME ChainOK, [Next]_vars
    PROVE  ChainOK' /\ (Begins \/ Grows)
<1> USE DEF ChainOK
<1>1. CASE Begins
  <2>1. Now' = Now /\ seen' = <<Now>> /\ Now \in Moments
    BY <1>1, Present DEF Begins, chainVars, Now
  <2> QED BY <1>1, <2>1 DEF Begins, chainVars
<1>2. CASE Moves
  <2>1. Now' \in Moments
    BY <1>2, LastElement DEF Moves, Now
  <2>2. CASE method = "none"
    BY <1>2, <2>2 DEF Moves, callVars, Grows
  <2>3. CASE method # "none"
    <3>1. seen' = Append(seen, Now')
      BY <1>2, <2>3 DEF Moves
    <3>2. /\ seen' \in Seq(Moments) /\ seen' # <<>> /\ seen'[Len(seen')] = Now'
          /\ \A i \in DOMAIN seen : i \in DOMAIN seen' /\ seen'[i] = seen[i]
      BY <2>1, <3>1, Appended
    <3> QED BY <1>2, <3>2 DEF Moves, Grows
  <2> QED BY <2>2, <2>3
<1>3. CASE Stays
  BY <1>3 DEF Stays, Grows, Now
<1> QED BY <1>1, <1>2, <1>3, StepKinds

(* ----------------------------- what has come back ------------------------ *)

\* What was true of a moment of the call stays true of it.
LEMMA ResponseStays ==
    ASSUME ResponseOK, Grows, taken => taken', UNCHANGED <<method, response, height>>
    PROVE  ResponseOK'
<1> USE DEF Grows
<1>1. method = "GetUtxos" /\ response.status = "ok" =>
        \/ provider = "cli" /\ Len(response.body) < 2
        \/ provider = "ogmios" /\ response.body = <<>> /\ ~whole'
        \/ \E i \in DOMAIN seen' : \E h \in OrdersBy(provider, seen'[i].held) :
                Sent(response.body, h)'
  BY DEF ResponseOK, Sent
<1>2. method = "GetUtxos" /\ response.status = "notFound" /\ whole' =>
        \E i \in DOMAIN seen' : seen'[i].held = <<>>
  BY DEF ResponseOK
<1>3. /\ method = "GetHeight" => provider = "ogmios"
      /\ method = "GetHeight" /\ response.status = "ok" /\ whole' =>
            \E i \in DOMAIN seen' : response.body = seen'[i].height
      /\ method = "GetTip" /\ provider = "ogmios" /\ whole' =>
            \E i \in DOMAIN seen' : height = seen'[i].height
  BY DEF ResponseOK
<1>4. method = "GetTip" /\ response.status = "ok" /\ whole' =>
        \E i, j \in DOMAIN seen' :
            /\ i <= j /\ (provider = "ogmios" => height = seen'[i].height)
            /\ response.body = TipAt(j)'
  <2> SUFFICES ASSUME method = "GetTip", response.status = "ok", whole'
               PROVE  \E i, j \in DOMAIN seen' :
                        /\ i <= j /\ (provider = "ogmios" => height = seen'[i].height)
                        /\ response.body = TipAt(j)'
    OBVIOUS
  <2>1. PICK i, j \in DOMAIN seen :
            /\ i <= j /\ (provider = "ogmios" => height = seen[i].height)
            /\ response.body = TipAt(j)
    BY DEF ResponseOK
  <2>2. /\ i \in DOMAIN seen' /\ j \in DOMAIN seen'
        /\ seen'[i] = seen[i] /\ seen'[j] = seen[j]
    OBVIOUS
  <2>3. TipAt(j)' = TipAt(j)
    BY <2>2 DEF TipAt
  <2> QED BY <2>1, <2>2, <2>3
<1>5. Included => Included'
  BY DEF Included
<1>6. Missing => Missing'
  BY DEF Missing
<1>7. /\ method = "GetProtocolParameters" /\ response.status = "ok" =>
            \/ \E i \in DOMAIN seen', plain \in BOOLEAN :
                    response.body = Document(seen'[i].epoch, plain)
            \/ provider = "ogmios" /\ response.body = Document(0, TRUE)
      /\ method = "GetTxByHash" /\ response.status = "ok" =>
            response.body = Target /\ Included'
      /\ method = "GetTxByHash" /\ response.status = "notFound" => Missing'
      /\ method = "SubmitTx" /\ response.status = "ok" => response.body = "error" \/ taken'
  BY <1>5, <1>6 DEF ResponseOK
<1>8. UNCHANGED <<provider, method, response, height>>
  OBVIOUS
<1> HIDE DEF Grows
<1>9. (method = "GetUtxos" /\ response.status = "ok" =>
         \/ provider = "cli" /\ Len(response.body) < 2
         \/ provider = "ogmios" /\ response.body = <<>> /\ ~whole
         \/ \E i \in DOMAIN seen : \E h \in OrdersBy(provider, seen[i].held) :
                 Sent(response.body, h))'
  BY <1>8, <1>1
<1>10. (method = "GetUtxos" /\ response.status = "notFound" /\ whole =>
         \E i \in DOMAIN seen : seen[i].held = <<>>)'
  BY <1>8, <1>2
<1>11. (method = "GetHeight" => provider = "ogmios")'
  BY <1>8, <1>3
<1>12. (method = "GetHeight" /\ response.status = "ok" /\ whole =>
         \E i \in DOMAIN seen : response.body = seen[i].height)'
  BY <1>8, <1>3
<1>13. (method = "GetTip" /\ provider = "ogmios" /\ whole =>
         \E i \in DOMAIN seen : height = seen[i].height)'
  BY <1>8, <1>3
<1>14. (method = "GetTip" /\ response.status = "ok" /\ whole =>
         \E i, j \in DOMAIN seen :
             /\ i <= j /\ (provider = "ogmios" => height = seen[i].height)
             /\ response.body = TipAt(j))'
  BY <1>8, <1>4
<1>15. (method = "GetProtocolParameters" /\ response.status = "ok" =>
         \/ \E i \in DOMAIN seen, plain \in BOOLEAN :
                 response.body = Document(seen[i].epoch, plain)
         \/ provider = "ogmios" /\ response.body = Document(0, TRUE))'
  BY <1>8, <1>7
<1>16. (method = "GetTxByHash" /\ response.status = "ok" =>
         response.body = Target /\ Included)'
  BY <1>8, <1>7
<1>17. (method = "GetTxByHash" /\ response.status = "notFound" => Missing)'
  BY <1>8, <1>7
<1>18. (method = "SubmitTx" /\ response.status = "ok" => response.body = "error" \/ taken)'
  BY <1>8, <1>7
<1> QED BY <1>9, <1>10, <1>11, <1>12, <1>13, <1>14, <1>15, <1>16, <1>17, <1>18 DEF ResponseOK

\* A new call has no response yet; only Ogmios is asked for the height.
LEMMA ResponseBegins ==
    ASSUME Begins, method' = "GetHeight" => provider = "ogmios",
           ~(method' = "GetTip" /\ provider = "ogmios")
    PROVE  ResponseOK'
BY DEF Begins, None, ResponseOK

\* The server answers from the present moment, which the call has seen.
LEMMA ResponseAnswered ==
    ASSUME ChainOK, ResponseOK, Answer
    PROVE  ResponseOK'
<1> DEFINE n == Len(seen)
<1>1. n \in DOMAIN seen /\ (method # "none" => seen[n] = Now) /\ Now \in Moments
      /\ DOMAIN seen \in SUBSET Nat
  BY Present DEF ChainOK
<1>2. whole \in BOOLEAN
  BY DEF ChainOK
<1>3. CASE AnswerUtxos
  <2>1. PICK h \in Orders(Listed(Now.held)) :
        \/ Answered("GetUtxos", Ok(UtxosBody(h)), TRUE)
        \/ \E k \in DOMAIN h, fault \in Faults :
                Answered("GetUtxos",
                    Ok(UtxosBody([h EXCEPT ![k] = Garbled(h[k], fault)])), FALSE)
    BY <1>3 DEF AnswerUtxos
  <2>2. h \in OrdersBy(provider, Now.held)
    BY DEF Orders, Listed, OrdersBy
  <2>3. \A g : UtxosBody(g) = BodyBy(provider, g)
    BY DEF UtxosBody, BodyBy
  <2>4. \A b : Ok(b).status = "ok" /\ Ok(b).body = b
    BY DEF Ok
  <2>5. /\ method = "GetUtxos" /\ method' = "GetUtxos" /\ UNCHANGED <<provider, seen>>
        /\ response'.status = "ok" /\ Sent(response.body, h)'
    <3>1. CASE Answered("GetUtxos", Ok(UtxosBody(h)), TRUE)
      BY <2>3, <2>4, <3>1 DEF Sent, Answered, Waiting, chainVars
    <3>2. CASE \E k \in DOMAIN h, fault \in Faults :
                Answered("GetUtxos",
                    Ok(UtxosBody([h EXCEPT ![k] = Garbled(h[k], fault)])), FALSE)
      <4>1. PICK k \in DOMAIN h, fault \in Faults :
                Answered("GetUtxos",
                    Ok(UtxosBody([h EXCEPT ![k] = Garbled(h[k], fault)])), FALSE)
        BY <3>2
      <4> DEFINE g == [h EXCEPT ![k] = Garbled(h[k], fault)]
      <4>2. /\ method = "GetUtxos" /\ method' = "GetUtxos" /\ UNCHANGED <<provider, seen>>
            /\ response' = Ok(BodyBy(provider, g)) /\ ~whole'
        BY <1>2, <2>3, <4>1 DEF Answered, Waiting, chainVars
      <4>3. response'.status = "ok" /\ response'.body = BodyBy(provider, g)
        BY <2>4, <4>2
      <4> QED BY <4>2, <4>3 DEF Sent
    <3> QED BY <2>1, <3>1, <3>2
  <2>6. \E i \in DOMAIN seen' : \E hh \in OrdersBy(provider', seen'[i].held) :
            Sent(response.body, hh)'
    BY <1>1, <2>2, <2>5
  <2> QED BY <2>5, <2>6 DEF ResponseOK
<1>4. CASE AnswerShort
  <2>1. /\ method' = "GetUtxos" /\ response'.status = "ok" /\ response'.body = <<Heading>>
        /\ UNCHANGED provider /\ provider = "cli"
    BY <1>4 DEF AnswerShort, Ok, Answered, Waiting, chainVars
  <2> QED BY <2>1 DEF ResponseOK
<1>11. CASE AnswerNotFound
  <2>1. CASE Answered("GetUtxos", [status |-> "notFound"], Now.held = <<>>)
    <3>1. /\ method = "GetUtxos" /\ method' = "GetUtxos" /\ response'.status = "notFound"
          /\ whole' => Now.held = <<>>
          /\ UNCHANGED seen
      BY <1>2, <2>1 DEF Answered, Waiting, chainVars
    <3> QED BY <1>1, <3>1 DEF ResponseOK
  <2>2. CASE Answered("GetTxByHash", [status |-> "notFound"], Target \notin Now.txs)
    <3>1. /\ method = "GetTxByHash" /\ method' = "GetTxByHash"
          /\ response'.status = "notFound"
          /\ whole' => Target \notin Now.txs
          /\ UNCHANGED seen
      BY <1>2, <2>2 DEF Answered, Waiting, chainVars
    <3> QED BY <1>1, <3>1 DEF ResponseOK, Missing
  <2> QED BY <1>11, <2>1, <2>2 DEF AnswerNotFound
<1>12. CASE AnswerError
  <2>1. /\ method' = method /\ response' = Ok(Zero(method)) /\ ~whole'
        /\ method \notin {"none", "GetTxByHash"} /\ provider = "ogmios"
        /\ UNCHANGED <<provider, seen, height>>
    BY <1>2, <1>12 DEF AnswerError, Answered, Waiting, chainVars
  <2>2. response'.status = "ok" /\ response'.body = Zero(method)
    BY <2>1 DEF Ok
  <2>3. CASE method = "GetUtxos"
    BY <2>1, <2>2, <2>3 DEF Zero, ResponseOK
  <2>4. CASE method = "GetProtocolParameters"
    BY <2>1, <2>2, <2>4 DEF Zero, ResponseOK
  <2>5. CASE method = "SubmitTx"
    BY <2>1, <2>2, <2>5 DEF Zero, ResponseOK
  <2>6. CASE method \notin {"GetUtxos", "GetProtocolParameters", "SubmitTx"}
    BY <2>1, <2>6 DEF ResponseOK
  <2> QED BY <2>3, <2>4, <2>5, <2>6
<1>5. CASE AnswerTip
  <2>1. /\ method = "GetTip" /\ method' = "GetTip" /\ response'.status = "ok"
        /\ response'.body = [block |-> Now.height, slot |-> Now.slot, hash |-> Now.hash]
        /\ whole' => whole
        /\ UNCHANGED <<provider, height, seen>>
    BY <1>2, <1>5 DEF AnswerTip, Ok, Answered, Waiting, chainVars
  <2>2. PICK i \in DOMAIN seen : provider = "ogmios" /\ whole => height = seen[i].height
    BY <1>1, <2>1 DEF ResponseOK
  <2>3. whole => (provider = "ogmios" => height = seen[i].height)
    BY <2>2
  <2>5. i <= n /\ response'.body = TipAt(n)
    BY <1>1, <2>1, <2>2 DEF TipAt, ChainOK
  <2>4. TipAt(n)' = TipAt(n)
    BY <2>1 DEF TipAt
  <2> QED BY <1>1, <2>1, <2>3, <2>4, <2>5 DEF ResponseOK, TipAt
<1>6. CASE AnswerHeight
  <2>1. /\ method = "GetHeight" /\ method' = "GetHeight" /\ response'.status = "ok"
        /\ response'.body = Now.height
        /\ whole' => whole
        /\ UNCHANGED <<provider, seen>> /\ provider = "ogmios"
    BY <1>2, <1>6 DEF AnswerHeight, Ok, Answered, Waiting, chainVars
  <2> QED BY <1>1, <2>1 DEF ResponseOK
<1>7. CASE AnswerParams
  <2>1. PICK plain \in BOOLEAN :
            Answered("GetProtocolParameters", Ok(Document(Now.epoch, plain)), TRUE)
    BY <1>7 DEF AnswerParams
  <2>2. /\ method = "GetProtocolParameters" /\ method' = "GetProtocolParameters"
        /\ response'.status = "ok" /\ response'.body = Document(Now.epoch, plain)
        /\ UNCHANGED seen
    BY <2>1 DEF Ok, Answered, Waiting, chainVars
  <2> QED BY <1>1, <2>2 DEF ResponseOK
<1>8. CASE AnswerTx
  <2>1. /\ method = "GetTxByHash" /\ method' = "GetTxByHash" /\ UNCHANGED seen
        /\ response' = Ok(Target) /\ Target \in Now.txs
    BY <1>8 DEF AnswerTx, Answered, Waiting, chainVars
  <2>2. Included'
    BY <1>1, <2>1 DEF Included
  <2> QED BY <2>1, <2>2 DEF ResponseOK, Ok
<1>9. CASE AnswerSubmit
  BY <1>9 DEF AnswerSubmit, Waiting, ResponseOK
<1>10. CASE AnswerFails
  <2>1. /\ response'.status = "failed" /\ ~whole'
        /\ UNCHANGED <<provider, method, seen, height>>
    BY <1>10 DEF AnswerFails, Failed, Answered, Waiting, chainVars
  <2>2. method = "GetHeight" => provider = "ogmios"
    BY DEF ResponseOK
  <2> QED BY <2>1, <2>2 DEF ResponseOK
<1> QED BY <1>3, <1>4, <1>5, <1>6, <1>7, <1>8, <1>9, <1>10, <1>11, <1>12 DEF Answer

\* Every step keeps what has come back true of a moment of its call.
LEMMA ResponseNext ==
    ASSUME ChainOK, ResponseOK, MethodOK, [Next]_vars
    PROVE  ResponseOK'
<1> USE DEF providerVars, chainVars, callVars, clientVars, loopVars
<1>1. CASE Begins
  <2>1. method = "none" /\ method' # "none"
    BY <1>1 DEF Begins
  <2>2. CASE Start \/ Poll
    BY <1>1, <2>2, ResponseBegins DEF Start, Poll, Call, Operations, ChainOK
  <2>3. CASE HaveParams
    BY <1>1, <2>3, ResponseBegins DEF HaveParams, Call
  <2>4. CASE Selecting \/ HaveTip \/ Submitted \/ GivesUp \/ Invoke \/ LoopStep \/ CancelCtx
    BY <2>1, <2>4 DEF Selecting, HaveTip, Submitted, GivesUp, Invoke, LoopStep, CancelCtx
  <2>5. CASE PollFails \/ PollUtxos \/ PollTx
    BY <2>1, <2>5 DEF PollFails, PollUtxos, PollTx, PollBack
  <2>6. CASE Answer
    BY <2>6, ResponseAnswered
  <2>7. CASE MethodStep
    BY <2>1, <2>7 DEF MethodStep, ReturnError, ReturnNotFound, ReturnUtxos, UtxosPanic, AskTip,
       ReturnTip, ReturnParams, ReturnTx, ReturnSubmitted, NotImplemented, Return, Received,
       Waiting
  <2>8. CASE ChainStep \/ UNCHANGED vars
    BY <2>1, <2>8 DEF ChainStep, IncludeTarget, SpendOldest, NewEpoch, Rollback, Block, Happens,
       vars
  <2> QED BY <2>2, <2>3, <2>4, <2>5, <2>6, <2>7, <2>8 DEF Next, Client
<1>2. CASE UNCHANGED <<method, response, height, taken>> /\ Grows
  BY <1>2, ResponseStays
<1>3. CASE Answer
  BY <1>3, ResponseAnswered
<1>4. CASE MethodStep
  <2>1. CASE AskTip
    <3>1. /\ method = "GetHeight" /\ response.status = "ok" /\ provider = "ogmios"
          /\ height' = response.body /\ method' = "GetTip" /\ response' = None
          /\ UNCHANGED <<provider, seen, whole>>
      BY <2>1 DEF AskTip, Received, ResponseOK
    <3> QED BY <3>1 DEF ResponseOK, None
  <2>2. CASE ~AskTip
    <3>1. method' = "none"
      BY <1>4, <2>2 DEF MethodStep, ReturnError, ReturnNotFound, ReturnUtxos, UtxosPanic,
         ReturnTip, ReturnParams, ReturnTx, ReturnSubmitted, NotImplemented, Return
    <3> QED BY <3>1 DEF ResponseOK
  <2> QED BY <2>1, <2>2
<1>5. ~Begins => Grows
  BY ChainOKNext
<1>6. CASE Client /\ ~Begins
  <2>1. CASE Start \/ HaveParams \/ Poll
    BY <1>6, <2>1 DEF Start, HaveParams, Back, Poll, Call, Begins, Operations, ChainOK
  <2>2. CASE Selecting \/ HaveTip \/ Submitted \/ GivesUp \/ Invoke \/ LoopStep \/ CancelCtx
    BY <1>2, <1>5, <1>6, <2>2 DEF Selecting, HaveTip, Submitted, GivesUp, Invoke, LoopStep,
       CancelCtx
  <2>3. CASE PollFails \/ PollUtxos \/ PollTx
    BY <1>2, <1>5, <1>6, <2>3 DEF PollFails, PollUtxos, PollTx, PollBack
  <2> QED BY <1>6, <2>1, <2>2, <2>3 DEF Client
<1>7. CASE (ChainStep \/ UNCHANGED vars) /\ ~Begins
  BY <1>2, <1>5, <1>7 DEF ChainStep, IncludeTarget, SpendOldest, NewEpoch, Rollback, Block,
     Happens, vars
<1> QED BY <1>1, <1>3, <1>4, <1>6, <1>7 DEF Next

(* ----------------------- what the methods make of it --------------------- *)

\* Nothing of a client changes but what its own steps change.
Idles == UNCHANGED <<op, params, got>> /\ (method' = method \/ method' = "none")

\* Every step runs the method of the operation.
LEMMA MethodNext ==
    ASSUME ChainOK, ResponseOK, MethodOK, ConfiguredOK, WaitOK, [Next]_vars
    PROVE  MethodOK'
<1> USE DEF providerVars, chainVars, callVars, clientVars, loopVars
<1>1. CASE Start
  <2>1. /\ op' = op /\ got' = None /\ params = {} /\ params' = {}
        /\ method' = [select |-> "GetUtxos", configure |-> "GetProtocolParameters",
                      submit |-> "SubmitTx"][op]
        /\ op \in {"select", "configure", "submit"}
    BY <1>1 DEF Start, Call, ConfiguredOK
  <2> QED BY <2>1 DEF MethodOK
<1>2. CASE HaveParams
  <2>1. /\ op = "configure" /\ op' = op /\ got' = None /\ params' # {}
        /\ method' \in {"GetHeight", "GetTip"}
    BY <1>2 DEF HaveParams, Back, Call
  <2> QED BY <2>1 DEF MethodOK
<1>3. CASE Poll
  <2>1. /\ op \in Waits /\ op' = op /\ got' = None
        /\ method' = IF op = "waitHash" THEN "GetUtxos" ELSE "GetTxByHash"
    BY <1>3 DEF Poll, Call, WaitOK
  <2> QED BY <2>1 DEF MethodOK, Waits
<1>4. CASE Idles
  BY <1>4 DEF Idles, MethodOK
<1>5. CASE Selecting \/ HaveTip \/ Submitted \/ GivesUp \/ Invoke \/ LoopStep \/ CancelCtx
  BY <1>4, <1>5 DEF Selecting, HaveTip, Submitted, GivesUp, Invoke, LoopStep, CancelCtx, Idles
<1>6. CASE PollFails \/ PollUtxos \/ PollTx
  <2>1. UNCHANGED <<op, params, method>> /\ got' = None
    BY <1>6 DEF PollFails, PollUtxos, PollTx, PollBack
  <2> QED BY <2>1 DEF MethodOK
<1>7. CASE (MethodStep \/ Answer) /\ UNCHANGED <<selectVars, clientVars, loopVars>>
  <2>1. CASE Answer
    BY <1>4, <1>7, <2>1 DEF Answer, AnswerUtxos, AnswerNotFound, AnswerError, AnswerShort, AnswerTip, AnswerHeight,
       AnswerParams, AnswerTx, AnswerSubmit, AnswerFails, Answered, Idles
  <2>2. CASE AskTip
    <3>1. method = "GetHeight" /\ method' = "GetTip" /\ UNCHANGED <<op, params, got>>
      BY <1>7, <2>2 DEF AskTip, Received
    <3>2. op = "configure" /\ params # {}
      BY <3>1 DEF MethodOK, ChainOK, Operations
    <3> QED BY <3>1, <3>2 DEF MethodOK
  <2>3. CASE MethodStep /\ ~AskTip
    <3>1. method' = "none"
      BY <2>3 DEF MethodStep, ReturnError, ReturnNotFound, ReturnUtxos, UtxosPanic, ReturnTip,
         ReturnParams, ReturnTx, ReturnSubmitted, NotImplemented, Return
    <3> QED BY <3>1 DEF MethodOK
  <2> QED BY <1>7, <2>1, <2>2, <2>3
<1>8. CASE ChainStep /\ UNCHANGED <<selectVars, clientVars, loopVars>>
  BY <1>4, <1>8 DEF ChainStep, IncludeTarget, SpendOldest, NewEpoch, Rollback, Block, Happens,
     Idles
<1>9. CASE UNCHANGED vars
  BY <1>4, <1>9 DEF vars, Idles
<1> QED BY <1>1, <1>2, <1>3, <1>5, <1>6, <1>7, <1>8, <1>9 DEF Next, Client

\* What a value means stays true.
LEMMA MeansStays ==
    ASSUME Grows, Means(got.value), taken => taken', UNCHANGED <<params, got>>
    PROVE  Means(got.value)'
<1> USE DEF Grows
<1>1. Shows(got.value) => Shows(got.value)'
  BY DEF Shows, Stands
<1>2. (\E i \in DOMAIN seen : IsDocument(got.value, seen[i])) =>
            \E i \in DOMAIN seen' : IsDocument(got.value, seen[i])'
  BY DEF IsDocument
<1>3. IsTip(got.value) => IsTip(got.value)'
  BY DEF IsTip, TipAt
<1>4. (Included => Included') /\ (Missing => Missing')
  BY DEF Included, Missing
<1> QED BY <1>1, <1>2, <1>3, <1>4 DEF Means

\* The list of an address is what it held.
LEMMA UtxosMean ==
    ASSUME ChainOK, ResponseOK,
           ReturnUtxos \/ (Received("GetUtxos", "notFound") /\ Return(Returned(<<>>)))
    PROVE  got'.status = "nil" => Shows(got.value)'
<1>1. UNCHANGED <<provider, seen, whole>>
  BY DEF ReturnUtxos, Return
<1>2. \A i \in DOMAIN seen : seen[i].held \in Seq(Held)
  BY Present DEF Moments
<1>3. CASE ReturnUtxos
  <2> DEFINE body == response.body
  <2>1. /\ method = "GetUtxos" /\ response.status = "ok" /\ Slices(body) /\ Asserts(body)
        /\ got' = IF Unreadable(body) THEN [status |-> "err"] ELSE Returned(Utxos(body))
    BY <1>3 DEF ReturnUtxos, Received, Return
  <2> SUFFICES ASSUME ~Unreadable(body) PROVE Shows(got.value)'
    BY <2>1
  <2>2. got'.value = Utxos(body)
    BY <2>1 DEF Returned
  <2>3. ~(provider = "cli" /\ Len(body) < 2)
    BY <2>1, LenProperties DEF Slices
  <2>4. CASE provider = "ogmios" /\ body = <<>> /\ ~whole
    <3>1. Utxos(body) = <<>>
      BY <2>4 DEF Utxos
    <3>2. \E i \in DOMAIN seen : \E h \in OrdersBy(provider, seen[i].held) : TRUE
      BY <2>4, Present DEF OrdersBy
    <3> QED BY <1>1, <2>2, <2>4, <3>1, <3>2 DEF Shows
  <2>5. CASE \E i \in DOMAIN seen : \E h \in OrdersBy(provider, seen[i].held) : Sent(body, h)
    <3>1. PICK i \in DOMAIN seen : \E h \in OrdersBy(provider, seen[i].held) : Sent(body, h)
      BY <2>5
    <3>2. PICK h \in OrdersBy(provider, seen[i].held) : Sent(body, h)
      BY <3>1
    <3>3. h \in Seq(Held)
      BY <1>2, ListedIsHeld
    <3>4. /\ Len(Utxos(body)) = Len(h) /\ DOMAIN Utxos(body) = DOMAIN h
          /\ \A k \in DOMAIN h : Stands(Utxos(body)[k], h[k])
      BY <2>1, <3>2, <3>3, ReadStands DEF ChainOK
    <3> HIDE DEF body
    <3> QED BY <1>1, <2>2, <3>2, <3>4 DEF Shows, Stands
  <2> QED BY <2>1, <2>3, <2>4, <2>5 DEF ResponseOK
<1>4. CASE Received("GetUtxos", "notFound") /\ Return(Returned(<<>>))
  <2>1. got'.value = <<>>
    BY <1>4 DEF Return, Returned
  <2>2. CASE whole
    <3>1. PICK i \in DOMAIN seen : seen[i].held = <<>>
      BY <1>4, <2>2 DEF Received, ResponseOK
    <3>2. <<>> \in OrdersBy(provider, seen[i].held)
      <4>1. Page(<<>>) = <<>>
        BY <1>2, <3>1, Paged
      <4> QED BY <3>1, <4>1 DEF OrdersBy
    <3>3. Len(<<>>) = Len(<<>>) /\ \A k \in DOMAIN <<>> : FALSE
      OBVIOUS
    <3> QED BY <1>1, <2>1, <3>2, <3>3 DEF Shows
  <2>3. CASE ~whole
    <3>1. \E i \in DOMAIN seen : \E h \in OrdersBy(provider, seen[i].held) : TRUE
      BY Present DEF OrdersBy
    <3> QED BY <1>1, <2>1, <2>3, <3>1 DEF Shows
  <2> QED BY <2>2, <2>3
<1> QED BY <1>3, <1>4

\* The tip is the chain's.
LEMMA TipMeans ==
    ASSUME ChainOK, ResponseOK, ReturnTip
    PROVE  IsTip(got.value)'
<1>1. /\ method = "GetTip" /\ response.status = "ok" /\ UNCHANGED <<provider, seen, whole>>
      /\ got'.value = [response.body EXCEPT !.block = IF provider = "ogmios" THEN height ELSE @]
  BY DEF ReturnTip, Received, Return, Returned
<1> SUFFICES ASSUME whole PROVE IsTip(got.value)'
  BY <1>1 DEF IsTip
<1>2. PICK i, j \in DOMAIN seen :
        /\ i <= j /\ (provider = "ogmios" => height = seen[i].height)
        /\ response.body = TipAt(j)
  BY <1>1 DEF ResponseOK
<1>3. i \in Nat /\ j \in Nat /\ j <= j
  BY DEF ChainOK
<1>4. CASE provider = "ogmios"
  <2>1. got'.value = [TipAt(j) EXCEPT !.block = seen[i].height]
    BY <1>1, <1>2, <1>4
  <2> QED BY <1>1, <1>2, <1>4, <2>1 DEF IsTip, TipAt
<1>5. CASE provider # "ogmios"
  <2>1. got'.value = [TipAt(j) EXCEPT !.block = seen[j].height]
    BY <1>1, <1>2, <1>5 DEF TipAt
  <2> QED BY <1>1, <1>3, <1>5, <2>1 DEF IsTip, TipAt
<1> QED BY <1>4, <1>5

\* The parameters are the ledger's.
LEMMA ParamsMean ==
    ASSUME ChainOK, ResponseOK, ReturnParams
    PROVE  \E i \in DOMAIN seen' : IsDocument(got.value, seen[i])'
<1>1. /\ method = "GetProtocolParameters" /\ response.status = "ok" /\ UNCHANGED <<provider, seen>>
      /\ got'.value = ProtocolParameters(response.body)
  BY DEF ReturnParams, Received, Return, Returned
<1>2. CASE \E i \in DOMAIN seen, plain \in BOOLEAN :
                response.body = Document(seen[i].epoch, plain)
  <2>1. PICK i \in DOMAIN seen, plain \in BOOLEAN :
            response.body = Document(seen[i].epoch, plain)
    BY <1>2
  <2>2. IsDocument(ProtocolParameters(response.body), seen[i])
    BY <2>1 DEF IsDocument, ProtocolParameters, Document
  <2> QED BY <1>1, <2>2 DEF IsDocument
<1>3. CASE provider = "ogmios" /\ response.body = Document(0, TRUE)
  <2>1. ProtocolParameters(response.body) = [numbers |-> 0, texts |-> 0, costModels |-> 0]
    BY <1>3 DEF ProtocolParameters, Document
  <2> QED BY <1>1, <1>3, <2>1, Present DEF IsDocument
<1> QED BY <1>1, <1>2, <1>3 DEF ResponseOK

\* What a method returns means what the operation takes it for.
LEMMA ReturnedMeans ==
    ASSUME ChainOK, ResponseOK, MethodOK, MethodStep, ~AskTip, UNCHANGED <<op, params>>
    PROVE  GotOK'
<1>1. CASE ReturnError \/ UtxosPanic \/ NotImplemented
  BY <1>1 DEF ReturnError, UtxosPanic, NotImplemented, Return, GotOK
<1>2. CASE ReturnUtxos \/ (Received("GetUtxos", "notFound") /\ Return(Returned(<<>>)))
  <2>1. method = "GetUtxos"
    BY <1>2 DEF ReturnUtxos, Received
  <2>2. op' \in {"select", "waitHash"}
    BY <2>1 DEF MethodOK, ChainOK, Operations
  <2> QED BY <1>2, <2>2, UtxosMean DEF GotOK, Means
<1>3. CASE Received("GetTxByHash", "notFound") /\ Return(Returned({}))
  <2>1. /\ method = "GetTxByHash" /\ response.status = "notFound" /\ UNCHANGED <<seen, whole>>
        /\ got'.value = {}
    BY <1>3 DEF Received, Return, Returned
  <2>2. op' = "waitTx" /\ Missing'
    BY <2>1 DEF MethodOK, ChainOK, Operations, ResponseOK, Missing
  <2> QED BY <2>1, <2>2 DEF GotOK, Means
<1>4. CASE ReturnTx
  <2>1. /\ method = "GetTxByHash" /\ response.status = "ok" /\ UNCHANGED seen
        /\ got'.value = {response.body}
    BY <1>4 DEF ReturnTx, Received, Return, Returned
  <2>2. op' = "waitTx" /\ Included'
    BY <2>1 DEF MethodOK, ChainOK, Operations, ResponseOK, Included
  <2> QED BY <2>1, <2>2 DEF GotOK, Means
<1>5. CASE ReturnTip
  <2>1. method = "GetTip"
    BY <1>5 DEF ReturnTip, Received
  <2>2. op' = "configure" /\ params' # {}
    BY <2>1 DEF MethodOK, ChainOK, Operations
  <2> QED BY <1>5, <2>2, TipMeans DEF GotOK, Means
<1>6. CASE ReturnParams
  <2>1. method = "GetProtocolParameters"
    BY <1>6 DEF ReturnParams, Received
  <2>2. op' = "configure" /\ params' = {}
    BY <2>1 DEF MethodOK, ChainOK, Operations
  <2> QED BY <1>6, <2>2, ParamsMean DEF GotOK, Means
<1>7. CASE ReturnSubmitted
  <2>1. /\ method = "SubmitTx" /\ response.status = "ok" /\ UNCHANGED taken
        /\ got' = IF response.body = "error" THEN [status |-> "err"] ELSE Returned({})
    BY <1>7 DEF ReturnSubmitted, Received, Return, chainVars
  <2>2. op' = "submit"
    BY <2>1 DEF MethodOK, ChainOK, Operations
  <2>3. got'.status = "nil" => taken'
    BY <2>1 DEF ResponseOK
  <2> QED BY <2>2, <2>3 DEF GotOK, Means
<1> QED BY <1>1, <1>2, <1>3, <1>4, <1>5, <1>6, <1>7 DEF MethodStep, ReturnNotFound

\* Every step keeps the last answer's meaning.
LEMMA GotNext ==
    ASSUME ChainOK, ResponseOK, MethodOK, GotOK, [Next]_vars
    PROVE  GotOK'
<1> USE DEF providerVars, chainVars, callVars, clientVars, loopVars
<1>1. CASE got' = None
  BY <1>1 DEF GotOK, None
<1>2. CASE Grows /\ (taken => taken') /\ UNCHANGED <<params, got>>
  BY <1>2, MeansStays DEF GotOK
<1>3. ~Begins => Grows
  BY ChainOKNext
<1>4. Begins => got' = None
  BY DEF Begins
<1>5. CASE Start \/ HaveParams \/ Poll \/ PollFails \/ PollUtxos \/ PollTx
  BY <1>1, <1>5 DEF Start, HaveParams, Poll, Call, PollFails, PollUtxos, PollTx, PollBack
<1>6. CASE Selecting \/ HaveTip \/ Submitted \/ GivesUp \/ Invoke \/ LoopStep \/ CancelCtx
  BY <1>1, <1>2, <1>3, <1>4, <1>6 DEF Selecting, HaveTip, Submitted, GivesUp, Invoke, LoopStep,
     CancelCtx
<1>7. CASE (MethodStep \/ Answer) /\ UNCHANGED <<selectVars, clientVars, loopVars>>
  <2>1. CASE Answer
    <3>1. UNCHANGED <<params, got>> /\ (taken' = TRUE \/ taken' = taken)
      BY <1>7, <2>1 DEF Answer, AnswerUtxos, AnswerNotFound, AnswerError, AnswerShort, AnswerTip,
       AnswerHeight, AnswerParams,
         AnswerTx, AnswerSubmit, AnswerFails, Answered
    <3>2. taken => taken'
      BY <3>1
    <3> QED BY <1>1, <1>2, <1>3, <1>4, <3>1, <3>2
  <2>2. CASE AskTip
    BY <1>1, <1>2, <1>3, <1>4, <1>7, <2>2 DEF AskTip
  <2>3. CASE MethodStep /\ ~AskTip
    BY <1>7, <2>3, ReturnedMeans
  <2> QED BY <1>7, <2>1, <2>2, <2>3
<1>8. CASE (ChainStep /\ UNCHANGED <<selectVars, clientVars, loopVars>>) \/ UNCHANGED vars
  BY <1>1, <1>2, <1>3, <1>4, <1>8 DEF ChainStep, IncludeTarget, SpendOldest, NewEpoch, Rollback,
     Block, Happens, vars
<1> QED BY <1>5, <1>6, <1>7, <1>8 DEF Next, Client

(* -------------------------- what the client keeps ------------------------ *)

\* Every step keeps the selection's list.
LEMMA KeptNext ==
    ASSUME ChainOK, GotOK, KeptOK, WaitOK, [Next]_vars
    PROVE  KeptOK'
<1> USE DEF providerVars, chainVars, callVars, clientVars, loopVars, selectVars
<1>1. Grows /\ Shows(utxos) /\ utxos' = utxos => Shows(utxos)'
  BY DEF Grows, Shows, Stands
<1>2. Begins \/ Grows
  BY ChainOKNext
<1>3. UNCHANGED <<provider, op>>
  BY <1>2 DEF Begins, Grows
<1>4. CASE UNCHANGED <<utxos, outcome>> /\ stage' \in {stage, "running", "done"} /\ Grows
  BY <1>1, <1>3, <1>4 DEF KeptOK
<1>5. CASE op # "select"
  BY <1>3, <1>5 DEF KeptOK
<1>6. CASE Selecting
  <2>1. op = "select" /\ stage = "running" /\ stage' \in {"running", "done"}
    BY <1>6 DEF Selecting
  <2>2. UNCHANGED <<provider, seen, whole, method>>
    BY <1>6 DEF Selecting
  <2>3. CASE Back("select", "nil") /\ GetUtxos(got.value)
    <3>1. utxos' = got.value /\ Shows(got.value)
      BY <2>1, <2>3 DEF Back, GetUtxos, GotOK, Means
    <3>2. Shows(utxos)'
      BY <2>2, <3>1 DEF Shows, Stands
    <3> QED BY <2>1, <3>2 DEF KeptOK
  <2>4. CASE Back("select", "err") /\ GetUtxosFails
    BY <2>1, <2>4 DEF GetUtxosFails, KeptOK
  <2>5. CASE Take \/ NotEnough
    <3>1. outcome = "loop" /\ utxos' = utxos
      BY <2>5 DEF Take, NotEnough
    <3>2. Shows(utxos)'
      BY <1>3, <2>1, <2>2, <3>1 DEF KeptOK, Shows, Stands
    <3> QED BY <2>1, <3>2 DEF KeptOK
  <2> QED BY <1>6, <2>3, <2>4, <2>5 DEF Selecting
<1>7. CASE Start
  BY <1>3, <1>7 DEF Start, KeptOK
<1>8. CASE HaveParams \/ HaveTip \/ Submitted \/ Invoke \/ Poll \/ PollFails \/ PollUtxos \/ PollTx
           \/ LoopStep \/ CancelCtx
  <2>1. CASE HaveParams \/ HaveTip \/ Submitted \/ Invoke
    BY <1>5, <2>1 DEF HaveParams, HaveTip, Submitted, Back, Invoke
  <2>2. CASE Poll \/ PollFails \/ PollUtxos \/ PollTx
    <3>1. pc = "call"
      BY <2>2 DEF Poll, PollFails, PollUtxos, PollTx, PollBack
    <3> QED BY <1>5, <3>1 DEF WaitOK, Waits
  <2>3. CASE LoopStep \/ CancelCtx
    <3>1. UNCHANGED <<providerVars, selectVars, op>> /\ stage' \in {stage, "running", "done"}
      BY <2>3 DEF LoopStep, CancelCtx
    <3>2. UNCHANGED <<provider, op, seen, whole, utxos, outcome>>
      BY <3>1
    <3> QED BY <1>4, <3>1, <3>2 DEF Grows
  <2> QED BY <1>8, <2>1, <2>2, <2>3
<1>9. CASE GivesUp
  <2>1. UNCHANGED <<utxos, outcome, method>> /\ stage' = "done"
    BY <1>9 DEF GivesUp
  <2>2. Grows
    BY <1>2, <2>1 DEF Begins
  <2> QED BY <1>4, <2>1, <2>2
<1>10. CASE UNCHANGED <<selectVars, clientVars, loopVars>> /\ (MethodStep \/ Answer \/ ChainStep)
  <2>1. ~Begins
    BY <1>10, OnlyClientsBegin
  <2> QED BY <1>2, <1>4, <1>10, <2>1
<1>11. CASE UNCHANGED vars
  <2>1. Grows
    BY <1>2, <1>11 DEF Begins, vars
  <2> QED BY <1>4, <1>11, <2>1 DEF vars
<1> QED BY <1>6, <1>7, <1>8, <1>9, <1>10, <1>11 DEF Next, Client

\* Every step keeps the parameters and the time to live of the calls.
LEMMA ConfiguredNext ==
    ASSUME ChainOK, GotOK, ConfiguredOK, WaitOK, [Next]_vars
    PROVE  ConfiguredOK'
<1> USE DEF providerVars, chainVars, callVars, clientVars, loopVars
<1>1. Begins \/ Grows
  BY ChainOKNext
<1>2. UNCHANGED <<provider, op>>
  BY <1>1 DEF Begins, Grows
<1>3. ASSUME UNCHANGED <<params, asked>>
      PROVE  \E i \in DOMAIN asked' : \A ps \in params' : IsDocument(ps, asked[i])'
  BY <1>2, <1>3 DEF ConfiguredOK, IsDocument
<1>4. CASE UNCHANGED <<params, asked, ttl, stage>> /\ Grows
  <2>1. ttl' # {} => /\ stage' = "done" /\ op' = "configure"
                     /\ whole' => \E j \in DOMAIN seen' : ttl' = {seen'[j].slot + TTLInc}
    BY <1>2, <1>4 DEF ConfiguredOK, Grows
  <2> QED BY <1>3, <1>4, <2>1 DEF ConfiguredOK
<1>5. CASE UNCHANGED <<params, asked, ttl>> /\ stage # "done" /\ stage' \in {stage, "running", "done"}
  <2>1. ttl' = {}
    BY <1>5 DEF ConfiguredOK
  <2>2. stage' = "start" => params' = {}
    BY <1>5 DEF ConfiguredOK
  <2> QED BY <1>3, <1>5, <2>1, <2>2 DEF ConfiguredOK
<1>6. CASE Start \/ Selecting \/ Submitted \/ Invoke \/ LoopStep
  BY <1>5, <1>6 DEF Start, Selecting, Submitted, Back, Invoke, LoopStep
<1>7. CASE HaveParams
  <2>1. /\ op = "configure" /\ params = {} /\ params' = {got.value} /\ got.status = "nil"
        /\ asked' = seen /\ UNCHANGED <<stage, ttl>> /\ stage = "running"
    BY <1>7 DEF HaveParams, Back
  <2>2. PICK i \in DOMAIN seen : IsDocument(got.value, seen[i])
    BY <2>1 DEF GotOK, Means
  <2>3. \E k \in DOMAIN asked' : \A ps \in params' : IsDocument(ps, asked[k])'
    BY <1>2, <2>1, <2>2 DEF IsDocument
  <2> QED BY <2>1, <2>3 DEF ConfiguredOK
<1>8. CASE HaveTip
  <2>1. /\ op = "configure" /\ params # {} /\ got.status = "nil" /\ stage' = "done"
        /\ ttl' = {got.value.slot + TTLInc} /\ UNCHANGED <<params, asked, seen, whole>>
    BY <1>8 DEF HaveTip, Back
  <2>2. IsTip(got.value)
    BY <2>1 DEF GotOK, Means
  <2>3. whole => \E j \in DOMAIN seen : got.value.slot = seen[j].slot
    BY <2>2 DEF IsTip, TipAt
  <2> QED BY <1>2, <1>3, <2>1, <2>3 DEF ConfiguredOK
<1>9. CASE GivesUp
  <2>1. UNCHANGED <<params, asked, ttl>> /\ stage = "running" /\ stage' = "done"
    BY <1>9 DEF GivesUp, Back
  <2> QED BY <1>5, <2>1
<1>10. CASE Poll
  <2>1. op # "configure" /\ UNCHANGED <<params, asked, ttl, stage>>
    BY <1>10 DEF Poll, WaitOK, Waits
  <2> QED BY <1>2, <1>3, <2>1 DEF ConfiguredOK
<1>11. CASE PollFails \/ PollUtxos \/ PollTx \/ CancelCtx
  <2>1. UNCHANGED <<params, asked, ttl, stage, method>>
    BY <1>11 DEF PollFails, PollUtxos, PollTx, PollBack, CancelCtx
  <2>2. Grows
    BY <1>1, <2>1 DEF Begins
  <2> QED BY <1>4, <2>1, <2>2
<1>12. CASE UNCHANGED <<selectVars, clientVars, loopVars>> /\ (MethodStep \/ Answer \/ ChainStep)
  <2>1. ~Begins
    BY <1>12, OnlyClientsBegin
  <2> QED BY <1>1, <1>4, <1>12, <2>1
<1>13. CASE UNCHANGED vars
  <2>1. Grows
    BY <1>1, <1>13 DEF Begins, vars
  <2> QED BY <1>4, <1>13, <2>1 DEF vars
<1> QED BY <1>6, <1>7, <1>8, <1>9, <1>10, <1>11, <1>12, <1>13 DEF Next, Client

(* --------------------------------- waits --------------------------------- *)

\* What a poll has shown stays shown.
LEMMA ShownStays ==
    ASSUME Grows
    PROVE  (Shown => Shown') /\ (Unshown => Unshown')
<1> USE DEF Grows
<1>1. Shown => Shown'
  BY DEF Shown
<1>2. Unshown => Unshown'
  BY DEF Unshown
<1> QED BY <1>1, <1>2

\* A list shows the transaction's output if the address held it.
LEMMA ListShows ==
    ASSUME ChainOK, op = "waitHash", Shows(got.value)
    PROVE  IF HashListed THEN Shown ELSE Unshown
<1> DEFINE list == got.value
<1>1. PICK i \in DOMAIN seen : \E h \in OrdersBy(provider, seen[i].held) :
        \/ list = <<>> /\ ~whole
        \/ /\ Len(list) = Len(h) /\ DOMAIN list = DOMAIN h
           /\ \A k \in DOMAIN h : Stands(list[k], h[k])
  BY DEF Shows
<1>2. PICK h \in OrdersBy(provider, seen[i].held) :
        \/ list = <<>> /\ ~whole
        \/ /\ Len(list) = Len(h) /\ DOMAIN list = DOMAIN h
           /\ \A k \in DOMAIN h : Stands(list[k], h[k])
  BY <1>1
<1> DEFINE held == seen[i].held
<1>3. held \in Seq(Held) /\ \A k \in DOMAIN held : held[k].tx \in seen[i].txs
  BY Present DEF Moments
<1>4. /\ h \in Seq(Held) /\ ToSet(h) = ToSet(ListedBy(provider, held))
      /\ ToSet(h) \subseteq ToSet(held)
  BY <1>2, <1>3, ListedIsHeld
<1>5. ASSUME HashListed PROVE Shown
  <2>1. PICK k \in DOMAIN list : list[k].tx = Target
    BY <1>5 DEF HashListed
  <2>2. list # <<>>
    BY <2>1
  <2>3. k \in DOMAIN h /\ Stands(list[k], h[k])
    BY <1>2, <2>1, <2>2
  <2>4. h[k].tx = Target
    BY <2>1, <2>3, ProvidersAssumption DEF Stands, Utxo, Absent
  <2>5. h[k] \in ToSet(held)
    BY <1>4, <2>3 DEF ToSet
  <2>6. PICK m \in DOMAIN held : held[m] = h[k]
    BY <2>5 DEF ToSet
  <2>7. Target \in seen[i].txs
    BY <1>3, <2>4, <2>6
  <2> QED BY <2>4, <2>5, <2>7 DEF Shown
<1>6. ASSUME ~HashListed PROVE Unshown
  <2> SUFFICES ASSUME whole PROVE Target \notin {o.tx : o \in ToSet(ListedBy(provider, held))}
    BY DEF Unshown
  <2>1. DOMAIN list = DOMAIN h /\ \A k \in DOMAIN h : list[k].tx = h[k].tx
    <3>1. DOMAIN list = DOMAIN h /\ \A k \in DOMAIN h : Stands(list[k], h[k])
      BY <1>2
    <3>2. ASSUME NEW k \in DOMAIN h PROVE list[k].tx = h[k].tx
      <4>1. list[k] = Utxo(h[k].tx, h[k].index, h[k].lovelace)
        BY <3>1 DEF Stands
      <4> QED BY <4>1 DEF Utxo
    <3> QED BY <3>1, <3>2
  <2>2. \A o \in ToSet(h) : o.tx # Target
    BY <1>6, <2>1 DEF HashListed, ToSet
  <2> QED BY <1>4, <2>2
<1> QED BY <1>5, <1>6

\* A poll's answer has been shown.
LEMMA PollShows ==
    ASSUME ChainOK, GotOK, WaitOK, NEW a, PollBack(a),
           a = "stop" => Shown, a = "again" => Unshown,
           a \in {"stop", "again", "soft", "hard"},
           op = "waitTx" => (res' # {} <=> a = "stop")
    PROVE  WaitOK'
<1>1. /\ pc = "call" /\ reply = "none" /\ UNCHANGED <<op, stage, pc, result, provider, seen, whole>>
      /\ reply' = a /\ answers' = Append(answers, a)
  BY DEF PollBack, Wait!Answer
<1>2. op \in Waits /\ stage # "start" /\ result = "none"
  BY <1>1 DEF WaitOK
<1>3. (a = "stop" => Shown') /\ (a = "again" => Unshown')
  BY <1>1 DEF Shown, Unshown
<1>4. /\ answers' \in Seq({"stop", "again", "soft", "hard"})
      /\ answers'[Len(answers')] = a
  BY <1>1 DEF WaitOK
<1> QED BY <1>1, <1>2, <1>3, <1>4 DEF WaitOK

\* Every step keeps the loop's last reply what the last poll has shown.
LEMMA WaitNext ==
    ASSUME ChainOK, MethodOK, GotOK, WaitOK, [Next]_vars
    PROVE  WaitOK'
<1> USE DEF providerVars, chainVars, callVars, clientVars, loopVars, selectVars
<1>1. Begins \/ Grows
  BY ChainOKNext
<1>2. UNCHANGED <<provider, op>>
  BY <1>1 DEF Begins, Grows
<1>3. Grows => (Shown => Shown') /\ (Unshown => Unshown')
  BY ShownStays
<1>4. CASE /\ UNCHANGED <<pc, reply, result, answers, res>>
           /\ stage' = stage \/ stage' # "start"
           /\ reply = "none" \/ Grows
  BY <1>2, <1>3, <1>4 DEF WaitOK
<1>5. CASE Start
  BY <1>4, <1>5 DEF Start, WaitOK, Waits
<1>6. CASE HaveParams
  BY <1>4, <1>6 DEF HaveParams, Back, WaitOK, Waits
<1>7. CASE Poll
  BY <1>4, <1>7 DEF Poll
<1>8. CASE Selecting \/ HaveTip \/ Submitted \/ GivesUp
  <2>1. UNCHANGED <<providerVars, loopVars, res>> /\ stage' \in {stage, "running", "done"}
    BY <1>8 DEF Selecting, HaveTip, Submitted, GivesUp
  <2>2. ~Begins
    BY <2>1 DEF Begins
  <2> QED BY <1>1, <1>4, <2>1, <2>2
<1>9. CASE Invoke
  <2>1. /\ stage = "start" /\ stage' = "running" /\ op \in Waits /\ UNCHANGED res
        /\ pc' = "head" /\ reply' = "none" /\ result' = "none" /\ answers' = <<>>
    BY <1>9 DEF Invoke, Wait!Invoke, Waits
  <2> QED BY <1>2, <2>1 DEF WaitOK
<1>10. CASE PollFails
  <2>1. PICK a \in {"soft", "hard"} : PollBack(a)
    BY <1>10 DEF PollFails
  <2>2. res' = {}
    BY <1>10 DEF PollFails
  <2> QED BY <2>1, <2>2, PollShows
<1>11. CASE PollUtxos
  <2> DEFINE a == IF HashListed THEN "stop" ELSE "again"
  <2>1. op = "waitHash" /\ got.status = "nil" /\ PollBack(a)
    BY <1>11 DEF PollUtxos
  <2>2. IF HashListed THEN Shown ELSE Unshown
    BY <2>1, ListShows DEF GotOK, Means
  <2>3. a \in {"stop", "again", "soft", "hard"} /\ (a = "stop" => Shown) /\ (a = "again" => Unshown)
    BY <2>2
  <2> HIDE DEF a
  <2> QED BY <2>1, <2>3, PollShows
<1>12. CASE PollTx
  <2> DEFINE a == IF got.value = {} THEN "again" ELSE "stop"
  <2>1. op = "waitTx" /\ got.status = "nil" /\ PollBack(a) /\ res' = got.value
    BY <1>12 DEF PollTx
  <2>2. (got.value = {} /\ Missing) \/ (got.value # {} /\ Included)
    BY <2>1 DEF GotOK, Means
  <2>3. /\ a \in {"stop", "again", "soft", "hard"}
        /\ a = "stop" => Shown
        /\ a = "again" => Unshown
        /\ res' # {} <=> a = "stop"
    BY <2>1, <2>2 DEF Included, Missing, Shown, Unshown
  <2> HIDE DEF a
  <2> QED BY <2>1, <2>3, PollShows
<1>13. CASE LoopStep
  <2>1. /\ stage = "running" /\ stage' # "start" /\ UNCHANGED <<provider, op, seen, whole, res>>
        /\ Wait!LoopStep \/ Wait!FireTimer
    BY <1>13 DEF LoopStep
  <2>2. (Shown => Shown') /\ (Unshown => Unshown')
    BY <2>1 DEF Shown, Unshown
  <2>3. CASE Wait!HeadCall
    <3>1. /\ pc = "head" /\ pc' = "call" /\ reply' = "none" /\ UNCHANGED <<result, answers>>
          /\ op \in Waits /\ reply # "stop" /\ result = "none"
      BY <2>3 DEF Wait!HeadCall, WaitOK
    <3> QED BY <2>1, <3>1 DEF WaitOK
  <2>4. CASE Wait!HeadExhausted
    <3>1. /\ pc = "head" /\ pc' = "idle" /\ result' = "timeout" /\ UNCHANGED <<reply, answers>>
          /\ op \in Waits /\ reply # "stop"
      BY <2>4 DEF Wait!HeadExhausted, Wait!Finish, WaitOK
    <3> QED BY <2>1, <2>2, <3>1 DEF WaitOK
  <2>5. CASE Wait!ReturnErr
    <3>1. /\ pc = "call" /\ pc' = "idle" /\ result' = "err" /\ UNCHANGED <<reply, answers>>
          /\ op \in Waits /\ reply \in {"soft", "hard"}
      BY <2>5 DEF Wait!ReturnErr, Wait!Finish, Wait!IsErr, WaitOK
    <3> QED BY <2>1, <2>2, <3>1 DEF WaitOK
  <2>6. CASE Wait!ReturnNil
    <3>1. /\ pc = "call" /\ pc' = "idle" /\ result' = "nil" /\ UNCHANGED <<reply, answers>>
          /\ op \in Waits /\ reply = "stop"
      BY <2>6 DEF Wait!ReturnNil, Wait!Finish, WaitOK
    <3> QED BY <2>1, <2>2, <3>1 DEF WaitOK
  <2>7. CASE Wait!EnterSelect
    <3>1. /\ pc = "call" /\ pc' = "select" /\ UNCHANGED <<reply, result, answers>>
          /\ op \in Waits /\ reply \in {"again", "soft"} /\ result = "none"
      BY <2>7 DEF Wait!EnterSelect, Wait!Retryable, Wait!Recoverable, WaitOK
    <3> QED BY <2>1, <2>2, <3>1 DEF WaitOK
  <2>8. CASE Wait!SelectCtx
    <3>1. /\ pc = "select" /\ pc' = "idle" /\ result' = "ctx" /\ UNCHANGED <<reply, answers>>
          /\ op \in Waits /\ reply # "stop"
      BY <2>8 DEF Wait!SelectCtx, Wait!Finish, WaitOK
    <3> QED BY <2>1, <2>2, <3>1 DEF WaitOK
  <2>9. CASE Wait!SelectTimer
    <3>1. /\ pc = "select" /\ pc' = "head" /\ UNCHANGED <<reply, result, answers>>
          /\ op \in Waits /\ reply # "stop" /\ result = "none"
      BY <2>9 DEF Wait!SelectTimer, WaitOK
    <3> QED BY <2>1, <2>2, <3>1 DEF WaitOK
  <2>10. CASE Wait!FireTimer
    <3>1. UNCHANGED <<pc, reply, result, answers>>
      BY <2>10 DEF Wait!FireTimer
    <3> QED BY <2>1, <2>2, <3>1 DEF WaitOK
  <2> QED BY <2>1, <2>3, <2>4, <2>5, <2>6, <2>7, <2>8, <2>9, <2>10 DEF Wait!LoopStep
<1>14. CASE CancelCtx
  <2>1. UNCHANGED <<providerVars, clientVars, pc, reply, result, answers>>
    BY <1>14 DEF CancelCtx, Wait!CancelCtx, Wait!loopVars
  <2>2. ~Begins
    BY <2>1 DEF Begins
  <2> QED BY <1>1, <1>4, <2>1, <2>2
<1>15. CASE UNCHANGED <<selectVars, clientVars, loopVars>> /\ (MethodStep \/ Answer \/ ChainStep)
  <2>2. Grows
    BY <1>1, <1>15, OnlyClientsBegin
  <2> QED BY <1>4, <1>15, <2>2
<1>16. CASE UNCHANGED vars
  <2>1. ~Begins
    BY <1>16 DEF Begins, vars
  <2> QED BY <1>1, <1>4, <1>16, <2>1 DEF vars
<1> QED BY <1>5, <1>6, <1>7, <1>8, <1>9, <1>10, <1>11, <1>12, <1>13, <1>14, <1>15, <1>16
        DEF Next, Client

(* ------------------------------ the theorems ----------------------------- *)

\* The ledger that an operation starts on is a moment like those that follow.
LEMMA GenesisIsMoment ==
    ASSUME NEW g \in Genesis
    PROVE  GenesisMoment(g) \in Moments
<1>1. g \in Seq(Nat)
  BY ClientsAssumption
<1>2. /\ DOMAIN g = 1..Len(g) /\ Len(g) \in Nat
      /\ \A n \in DOMAIN g : g[n] \in Nat /\ n \in Nat /\ n % 2 \in Nat
  <2>1. /\ DOMAIN g = 1..Len(g) /\ Len(g) \in Nat
        /\ \A n \in DOMAIN g : g[n] \in Nat
    BY <1>1, LenProperties
  <2>2. \A n \in 1..Len(g) : n \in Nat
    BY <2>1
  <2>3. \A n \in Nat : n % 2 \in Nat
    OBVIOUS
  <2> QED BY <2>1, <2>2, <2>3
<1> DEFINE held == [n \in DOMAIN g |-> GenesisUtxo(n, g[n])]
<1>3. \A n \in DOMAIN g : GenesisUtxo(n, g[n]) \in Held
  BY <1>2 DEF GenesisUtxo, Held, Hashes
<1>4. held \in Seq(Held) /\ \A n \in DOMAIN held : held[n].tx \in DOMAIN g
  <2>1. \A n \in DOMAIN g : GenesisUtxo(n, g[n]).tx = n
    BY DEF GenesisUtxo
  <2>2. held \in [1..Len(g) -> Held]
    BY <1>2, <1>3
  <2> HIDE DEF held
  <2>3. held \in Seq(Held)
    BY <1>2, <2>2
  <2> QED BY <2>1, <2>3 DEF held
<1>5. DOMAIN g \in SUBSET Hashes
  BY <1>2 DEF Hashes
<1>6. 1 \in 1..Epochs
  BY ProvidersAssumption
<1> QED BY <1>4, <1>5, <1>6 DEF GenesisMoment, Moments

\* The invariant holds before an operation starts.
LEMMA InitInv == Init => Inv
<1> SUFFICES ASSUME Init PROVE Inv
  OBVIOUS
<1>1. PICK g \in Genesis : chain = <<GenesisMoment(g)>> /\ seen = <<GenesisMoment(g)>>
  BY DEF Init
<1>2. chain \in Seq(Moments) /\ chain # <<>> /\ seen \in Seq(Moments) /\ seen # <<>>
  <2>1. ASSUME NEW m \in Moments PROVE <<m>> \in Seq(Moments) /\ <<m>> # <<>>
    OBVIOUS
  <2> QED BY <1>1, <2>1, GenesisIsMoment
<1>3. ChainOK
  BY <1>2 DEF Init, ChainOK
<1>4. ResponseOK
  BY DEF Init, ResponseOK, None
<1>5. MethodOK /\ GotOK
  BY DEF Init, MethodOK, GotOK, None
<1>6. KeptOK
  BY DEF Init, SelectInit, KeptOK
<1>8. ConfiguredOK
  <2>1. params = {} /\ ttl = {} /\ asked = seen
    BY DEF Init
  <2>2. Len(seen) \in DOMAIN seen
    BY <1>2
  <2> QED BY <2>1, <2>2 DEF ConfiguredOK
<1>7. WaitOK
  BY DEF Init, Wait!Init, WaitOK
<1> QED BY <1>3, <1>4, <1>5, <1>6, <1>7, <1>8 DEF Inv

\* What is known of the answers holds in every reachable state.
LEMMA Invariance == Spec => []Inv
<1>1. Inv /\ [Next]_vars => Inv'
  BY ChainOKNext, ResponseNext, MethodNext, GotNext, KeptNext, ConfiguredNext,
     WaitNext DEF Inv
<1> QED BY <1>1, InitInv, PTL DEF Spec

\* For every ledger, size of page and provider, whatever is missing of the
\* server's answer: a list that GetUtxos returns shows what the address held at
\* one moment of the call, each UTxO once and with its own amount or, of an
\* incomplete answer, without it; no amount is another's, none is made up
\* (txprovider_blockfrost.go:82-119, txprovider_ogmios.go:130-157, 203-211,
\* txprovider_cli.go:66-102).
THEOREM ListOfOneMoment == Spec => []ListIsOfOneMoment
<1>1. Inv => ListIsOfOneMoment
  <2> SUFFICES ASSUME Inv, op = "select", outcome \notin {"query", "err"}
               PROVE  \E i \in DOMAIN seen : \E held \in Orders(Listed(seen[i].held)) :
                        \/ utxos = <<>> /\ ~whole
                        \/ Len(utxos) = Len(held)
                           /\ \A k \in DOMAIN held : Stands(utxos[k], held[k])
    BY DEF ListIsOfOneMoment
  <2>1. \A held : Orders(Listed(held)) = OrdersBy(provider, held)
    BY DEF Orders, Listed, OrdersBy
  <2>2. Shows(utxos)
    BY DEF Inv, KeptOK
  <2> QED BY <2>1, <2>2 DEF Shows
<1> QED BY <1>1, Invariance, PTL

\* However the chain moves between Ogmios's two answers, slot and hash are of
\* one tip of the call and the height is of that tip or of an earlier one; the
\* other providers return one tip (txprovider_ogmios.go:95-121).
THEOREM TipOfTheCall == Spec => []TipIsOfTheCall
<1>1. Inv => TipIsOfTheCall
  BY DEF Inv, GotOK, Means, IsTip, TipAt, TipIsOfTheCall
<1> QED BY <1>1, Invariance, PTL

\* Whatever epochs begin and blocks are rolled back between the calls: the
\* parameters that a transaction is built with are those of one epoch of the
\* first call, its time to live is counted from a tip of the second one
\* (transaction_extended.go:17-33).
THEOREM ConfiguredByTheCalls == Spec => []ConfiguredInOrder
<1>1. Inv => ConfiguredInOrder
  BY DEF Inv, ConfiguredOK, IsDocument, ConfiguredInOrder
<1> QED BY <1>1, Invariance, PTL

\* SubmitTx over HTTP returns nil only for a transaction that the node took.
THEOREM SubmittedTaken == Spec => []SubmittedIsTaken
<1>1. Inv => SubmittedIsTaken
  BY DEF Inv, GotOK, Means, SubmittedIsTaken
<1> QED BY <1>1, Invariance, PTL

\* For any number of polls, blocks and rollbacks: a wait that returns nil saw
\* the transaction at a moment of its last poll (utils.go:43-76).
THEOREM WaitedWasThere == Spec => []WaitedForWasThere
<1>1. Inv => WaitedForWasThere
  BY DEF Inv, WaitOK, Shown, WaitedForWasThere
<1> QED BY <1>1, Invariance, PTL

\* A wait that times out behind an answer did not see it (utils.go:48-61, 69-73).
THEOREM TimeoutHonest == Spec => []TimeoutIsHonest
<1>1. Inv => TimeoutIsHonest
  <2> SUFFICES ASSUME Inv, result = "timeout", answers # <<>>, Last(answers) = "again", whole
               PROVE  \E i \in DOMAIN seen :
                        \/ Target \notin seen[i].txs
                        \/ /\ op = "waitHash"
                           /\ Target \notin {o.tx : o \in ToSet(Listed(seen[i].held))}
    BY DEF TimeoutIsHonest
  <2>1. reply = Last(answers)
    BY DEF Inv, WaitOK, Last
  <2>2. Unshown
    BY <2>1 DEF Inv, WaitOK
  <2> QED BY <2>2 DEF Unshown, Listed, ListedBy
<1> QED BY <1>1, Invariance, PTL

\* WaitForTransaction returns a transaction or an error, never both or neither
\* (utils.go:64-76).
THEOREM ResultOrError == Spec => []ResultOrErr
<1>1. Inv => ResultOrErr
  BY DEF Inv, WaitOK, ResultOrErr
<1> QED BY <1>1, Invariance, PTL

(* ------------------------------ the selection ---------------------------- *)

Lovelaces(held) == [k \in DOMAIN held |-> held[k].lovelace]

\* A moment's UTxOs are worth an amount, and so they are with Target's output.
Room(m) == Worth(m.held) + (IF Target \in m.txs THEN 0 ELSE 10) < Word

SumsFit ==
    /\ \A i \in DOMAIN chain : Room(chain[i])
    /\ \A i \in DOMAIN seen : Room(seen[i])

\* The loop has summed up the UTxOs that it took, and none of the shorter
\* prefixes was sufficient.
PrefixTried ==
    /\ bounds \in Bounds
    /\ outcome \in {"query", "loop", "ok", "poor", "err"}
    /\ outcome = "query" => chosen = 0 /\ amountSum = 0
    /\ outcome \in {"loop", "ok", "poor"} =>
        /\ op = "select"
        /\ chosen \in 0..Len(utxos) /\ amountSum = PrefixSum(Listing, chosen)
        /\ \A n \in 1..chosen :
            Meets(PrefixSum(Listing, n), bounds) => outcome = "ok" /\ n = chosen
    /\ outcome = "ok" => chosen > 0 /\ Meets(amountSum, bounds)
    /\ outcome = "poor" => chosen = Len(utxos)

SelectInv == SumsFit /\ PrefixTried

\* The amounts of what an address holds.
LEMMA LovelacesOfHeld ==
    ASSUME NEW held \in Seq(Held)
    PROVE  /\ Lovelaces(held) \in Seq(Nat) /\ Len(Lovelaces(held)) = Len(held)
           /\ Worth(held) = Total(Lovelaces(held)) /\ Worth(held) \in Nat
<1>1. /\ Len(held) \in Nat /\ DOMAIN held = 1..Len(held)
      /\ \A k \in 1..Len(held) : held[k].lovelace \in Nat
  <2>1. Len(held) \in Nat /\ DOMAIN held = 1..Len(held) /\ \A k \in 1..Len(held) : held[k] \in Held
    OBVIOUS
  <2>2. \A o \in Held : o.lovelace \in Nat
    BY DEF Held
  <2> QED BY <2>1, <2>2
<1>2. Lovelaces(held) \in Seq(Nat) /\ Len(Lovelaces(held)) = Len(held)
  BY <1>1 DEF Lovelaces
<1>3. Worth(held) = Total(Lovelaces(held))
  BY DEF Worth, Lovelaces
<1>4. Total(Lovelaces(held)) \in Nat
  BY <1>1, <1>2, PrefixSums DEF Total
<1> QED BY <1>2, <1>3, <1>4

\* What a block may hold is worth an amount.
LEMMA BlockFits ==
    ASSUME ChainOK, SumsFit, ChainStep
    PROVE  \A i \in DOMAIN chain' : Room(chain'[i])
<1>0. /\ Now \in Moments /\ Now.held \in Seq(Held) /\ Room(Now) /\ chain \in Seq(Moments)
      /\ \A i \in DOMAIN chain : Room(chain[i])
  <2>1. Len(chain) \in DOMAIN chain
    BY DEF ChainOK
  <2> QED BY <2>1, Present DEF Moments, SumsFit, ChainOK
<1>1. ASSUME NEW m, chain' = Append(chain, m), Room(m)
      PROVE  \A i \in DOMAIN chain' : Room(chain'[i])
  <2>1. \A i \in DOMAIN chain' : chain'[i] = m \/ (i \in DOMAIN chain /\ chain'[i] = chain[i])
    BY <1>0, <1>1
  <2> QED BY <1>0, <1>1, <2>1
<1>2. ASSUME NEW held \in Seq(Held), NEW txs, NEW e, Block(held, txs, e),
             Worth(held) + (IF Target \in txs THEN 0 ELSE 10) < Word
      PROVE  \A i \in DOMAIN chain' : Room(chain'[i])
  <2> DEFINE m == [held |-> held, txs |-> txs, epoch |-> e, height |-> Now.height + 1,
                   slot |-> Now.slot + 2, hash |-> events + 1]
  <2>1. chain' = Append(chain, m)
    BY <1>2 DEF Block, Happens
  <2>2. Room(m)
    BY <1>2 DEF Room
  <2> HIDE DEF m
  <2> QED BY <1>1, <2>1, <2>2
<1>3. CASE IncludeTarget
  <2> DEFINE o == [tx |-> Target, index |-> 1, lovelace |-> 10, token |-> 0]
             held == Append(Now.held, o)
  <2>1. o \in Held /\ o.lovelace = 10
    BY ProvidersAssumption DEF Held, Hashes
  <2>2. Block(held, Now.txs \cup {Target}, Now.epoch) /\ Target \notin Now.txs
    BY <1>3 DEF IncludeTarget
  <2> HIDE DEF o
  <2>3. held \in Seq(Held)
    BY <1>0, <2>1
  <2>4. Lovelaces(held) = Append(Lovelaces(Now.held), 10)
    <3>1. /\ Len(held) = Len(Now.held) + 1 /\ held[Len(Now.held) + 1] = o
          /\ \A k \in 1..Len(Now.held) : held[k] = Now.held[k]
      BY <1>0
    <3>2. /\ Lovelaces(held) \in Seq(Nat) /\ Len(Lovelaces(held)) = Len(held)
          /\ Lovelaces(Now.held) \in Seq(Nat) /\ Len(Lovelaces(Now.held)) = Len(Now.held)
      BY <1>0, <2>3, LovelacesOfHeld
    <3> HIDE DEF held
    <3> DEFINE now == Now.held
               l   == Lovelaces(now)
    <3>3. DOMAIN held = 1..Len(held) /\ DOMAIN now = 1..Len(now) /\ Len(now) \in Nat
      BY <1>0, <2>3
    <3>4. /\ \A k \in 1..Len(held) : Lovelaces(held)[k] = held[k].lovelace
          /\ \A k \in 1..Len(now) : l[k] = now[k].lovelace
      BY <3>3 DEF Lovelaces
    <3>5. l \in Seq(Nat) /\ Len(l) = Len(now)
      BY <3>2
    <3>6. /\ \A k \in 1..Len(now) : held[k] = now[k]
          /\ Len(held) = Len(now) + 1 /\ held[Len(now) + 1] = o
      BY <3>1
    <3> HIDE DEF now, l
    <3>7. /\ Append(l, 10) \in Seq(Nat) /\ Len(Append(l, 10)) = Len(now) + 1
          /\ Append(l, 10)[Len(now) + 1] = 10
          /\ \A k \in 1..Len(now) : Append(l, 10)[k] = l[k]
      BY <3>5
    <3>8. \A k \in 1..Len(held) : Lovelaces(held)[k] = Append(l, 10)[k]
      <4> TAKE k \in 1..Len(held)
      <4>1. k \in 1..Len(now) \/ k = Len(now) + 1
        BY <3>3, <3>6
      <4> QED BY <2>1, <3>4, <3>6, <3>7, <4>1
    <3>9. Lovelaces(held) = Append(l, 10)
      BY <3>2, <3>6, <3>7, <3>8, SeqEqual
    <3> QED BY <3>9 DEF l, now
  <2>5. Worth(held) = Worth(Now.held) + 10 /\ Worth(Now.held) \in Nat
    BY <1>0, <2>3, <2>4, LovelacesOfHeld, TotalAppended
  <2>6. Worth(Now.held) + 10 < Word
    BY <1>0, <2>2 DEF Room
  <2> HIDE DEF held
  <2>7. Worth(held) + (IF Target \in Now.txs \cup {Target} THEN 0 ELSE 10) < Word
    BY <2>5, <2>6
  <2> QED BY <1>2, <2>2, <2>3, <2>7
<1>4. CASE SpendOldest
  <2> DEFINE held == Now.held
             t == Tail(held)
  <2>1. held # <<>> /\ Block(t, Now.txs, Now.epoch)
    BY <1>4 DEF SpendOldest
  <2> HIDE DEF held
  <2>2. t \in Seq(Held) /\ held \in Seq(Held)
    BY <1>0, <2>1 DEF held
  <2>3. Lovelaces(t) = Tail(Lovelaces(held)) /\ Lovelaces(held) # <<>>
    <3>1. /\ Lovelaces(held) \in Seq(Nat) /\ Len(Lovelaces(held)) = Len(held)
          /\ Lovelaces(t) \in Seq(Nat) /\ Len(Lovelaces(t)) = Len(t)
      BY <2>2, LovelacesOfHeld
    <3>2. /\ Len(t) = Len(held) - 1 /\ Len(held) > 0
          /\ \A k \in 1..Len(t) : t[k] = held[k + 1]
      BY <2>1, <2>2
    <3>3. \A k \in 1..Len(t) : Lovelaces(t)[k] = Lovelaces(held)[k + 1]
      BY <2>2, <3>2 DEF Lovelaces
    <3> DEFINE l == Lovelaces(held)
               u == Lovelaces(t)
    <3>4. /\ l \in Seq(Nat) /\ l # <<>> /\ u \in Seq(Nat) /\ Len(u) = Len(l) - 1
          /\ \A k \in 1..Len(u) : u[k] = l[k + 1]
      BY <3>1, <3>2, <3>3
    <3> HIDE DEF t, l, u
    <3>5. /\ Tail(l) \in Seq(Nat) /\ Len(Tail(l)) = Len(l) - 1
          /\ \A k \in 1..Len(Tail(l)) : Tail(l)[k] = l[k + 1]
      BY <3>4
    <3>6. u = Tail(l)
      BY <3>4, <3>5, SeqEqual
    <3> QED BY <3>4, <3>6 DEF l, u
  <2>4. Worth(held) = Lovelaces(held)[1] + Worth(t) /\ Worth(t) \in Nat
    BY <2>2, <2>3, LovelacesOfHeld, TotalOfTail
  <2>5. Lovelaces(held)[1] \in Nat
    BY <2>2, <2>3, LovelacesOfHeld
  <2>6. Worth(t) + (IF Target \in Now.txs THEN 0 ELSE 10) < Word
    BY <1>0, <2>4, <2>5, WordAssumption DEF Room, held
  <2> QED BY <1>2, <2>1, <2>2, <2>6
<1>5. CASE NewEpoch
  BY <1>0, <1>2, <1>5 DEF NewEpoch, Room
<1>6. CASE Rollback
  <2>1. Len(chain) > 1 /\ chain' = SubSeq(chain, 1, Len(chain) - 1)
    BY <1>6 DEF Rollback, Happens, Front
  <2>2. \A i \in DOMAIN chain' : i \in DOMAIN chain /\ chain'[i] = chain[i]
    BY <1>0, <2>1
  <2> QED BY <1>0, <2>2
<1> QED BY <1>3, <1>4, <1>5, <1>6 DEF ChainStep

\* What the program adds up: the amounts of a list.
AmountsIn(list) == [k \in DOMAIN list |-> list[k].amount]

\* A list is worth what the address was worth at a moment of the call, or less
\* if it is a page.
LEMMA ListIsWorth ==
    ASSUME NEW p, NEW held \in Seq(Held), NEW h \in OrdersBy(p, held)
    PROVE  /\ h \in Seq(Held) /\ Lovelaces(h) \in Seq(Nat) /\ Len(Lovelaces(h)) = Len(h)
           /\ Worth(held) \in Nat /\ Total(Lovelaces(h)) \in Nat
           /\ Total(Lovelaces(h)) <= Worth(held)
           /\ p # "blockfrost" \/ Len(held) <= PageSize => Total(Lovelaces(h)) = Worth(held)
<1> DEFINE l == Lovelaces(held)
           m == Lovelaces(h)
<1>1. h \in Seq(Held)
  BY ListedIsHeld
<1>2. /\ l \in Seq(Nat) /\ Len(l) = Len(held) /\ Worth(held) = Total(l) /\ Worth(held) \in Nat
      /\ m \in Seq(Nat) /\ Len(m) = Len(h) /\ Total(m) \in Nat
  BY <1>1, LovelacesOfHeld
<1>3. /\ DOMAIN held = 1..Len(held) /\ DOMAIN h = 1..Len(h) /\ Len(held) \in Nat /\ Len(h) \in Nat
      /\ \A k \in 1..Len(held) : l[k] = held[k].lovelace
      /\ \A k \in 1..Len(h) : m[k] = h[k].lovelace
  BY <1>1 DEF Lovelaces
<1> SUFFICES /\ Total(m) <= Total(l)
             /\ p # "blockfrost" \/ Len(held) <= PageSize => Total(m) = Total(l)
  BY <1>1, <1>2
<1> HIDE DEF l, m
<1>4. CASE p = "blockfrost"
  <2> DEFINE n == IF Len(held) < PageSize THEN Len(held) ELSE PageSize
  <2>0. Len(held) \in Nat /\ Len(h) \in Nat /\ PageSize \in Nat
    BY <1>3, ProvidersAssumption
  <2>1. n \in 0..Len(held) /\ n \in Nat /\ (Len(held) <= PageSize => n = Len(held))
    BY <2>0
  <2>2. h = SubSeq(held, 1, n)
    BY <1>4 DEF OrdersBy, Page
  <2> HIDE DEF n
  <2>3. Len(h) = n /\ \A k \in 1..n : h[k] = held[k]
    BY <2>1, <2>2
  <2>4. \A k \in 1..n : m[k] = l[k]
    <3>1. \A k \in 1..n : k \in 1..Len(held) /\ k \in 1..Len(h)
      BY <2>0, <2>1, <2>3
    <3> QED BY <1>3, <2>3, <3>1
  <2>5. PrefixSum(m, n) = PrefixSum(l, n)
    <3>1. n <= Len(m) /\ n <= Len(l)
      BY <1>2, <2>0, <2>1, <2>3
    <3> QED BY <1>2, <2>1, <2>4, <3>1, SamePrefixSums
  <2>6. Total(m) = PrefixSum(l, n) /\ Total(l) = PrefixSum(l, Len(held))
    BY <1>2, <2>3, <2>5 DEF Total
  <2>7. PrefixSum(l, n) <= PrefixSum(l, Len(held))
    <3>1. n \in 0..Len(l) /\ Len(l) \in n..Len(l)
      BY <1>2, <1>3, <2>1
    <3> QED BY <1>2, <3>1, PrefixSumsGrow
  <2> QED BY <1>4, <2>1, <2>6, <2>7
<1>5. CASE p # "blockfrost" /\ h = held
  <2>1. l = m
    BY <1>5 DEF l, m
  <2> QED BY <1>2, <2>1
<1>6. CASE p # "blockfrost" /\ h = Reverse(held)
  <2>1. Len(h) = Len(held) /\ \A k \in 1..Len(held) : h[k] = held[(Len(held) - k) + 1]
    BY <1>3, <1>6 DEF Reverse
  <2>2. \A k \in 1..Len(held) : m[k] = l[(Len(held) - k) + 1]
    <3> TAKE k \in 1..Len(held)
    <3>1. (Len(held) - k) + 1 \in 1..Len(held)
      BY <1>3
    <3> QED BY <1>3, <2>1, <3>1
  <2>3. Total(m) = Total(l)
    BY <1>2, <2>1, <2>2, TotalReversed
  <2> QED BY <1>2, <2>3
<1> QED BY <1>4, <1>5, <1>6 DEF OrdersBy

\* No list that a call shows overflows the sum.
LEMMA ShownFits ==
    ASSUME ChainOK, SumsFit, NEW list, Shows(list)
    PROVE  /\ Len(list) \in Nat /\ DOMAIN list = 1..Len(list)
           /\ AmountsIn(list) \in Seq(Nat) /\ Len(AmountsIn(list)) = Len(list)
           /\ Total(AmountsIn(list)) \in Nat /\ Total(AmountsIn(list)) < Word
           /\ \E i \in DOMAIN seen :
                whole /\ (provider # "blockfrost" \/ Len(seen[i].held) <= PageSize) =>
                    Total(AmountsIn(list)) = Worth(seen[i].held)
<1>1. PICK i \in DOMAIN seen : \E h \in OrdersBy(provider, seen[i].held) :
        \/ list = <<>> /\ ~whole
        \/ /\ Len(list) = Len(h) /\ DOMAIN list = DOMAIN h
           /\ \A k \in DOMAIN h : Stands(list[k], h[k])
  BY DEF Shows
<1>2. PICK h \in OrdersBy(provider, seen[i].held) :
        \/ list = <<>> /\ ~whole
        \/ /\ Len(list) = Len(h) /\ DOMAIN list = DOMAIN h
           /\ \A k \in DOMAIN h : Stands(list[k], h[k])
  BY <1>1
<1> DEFINE held == seen[i].held
           sums == AmountsIn(list)
<1>3. held \in Seq(Held) /\ Room(seen[i])
  BY Present DEF Moments, SumsFit
<1>4. /\ h \in Seq(Held) /\ Lovelaces(h) \in Seq(Nat) /\ Len(Lovelaces(h)) = Len(h)
      /\ Worth(held) \in Nat /\ Total(Lovelaces(h)) \in Nat
      /\ Total(Lovelaces(h)) <= Worth(held)
      /\ provider # "blockfrost" \/ Len(held) <= PageSize =>
            Total(Lovelaces(h)) = Worth(held)
  BY <1>3, ListIsWorth
<1>5. Worth(held) < Word
  BY <1>3, <1>4, WordAssumption DEF Room
<1>6. CASE list = <<>> /\ ~whole
  <2>1. Len(list) = 0 /\ DOMAIN list = 1..0
    BY <1>6
  <2>2. sums \in Seq(Nat) /\ Len(sums) = 0
    BY <2>1 DEF AmountsIn
  <2> HIDE DEF sums
  <2>3. Total(sums) = 0
    BY <2>2, PrefixSums DEF Total
  <2> QED BY <1>6, <2>1, <2>2, <2>3, WordAssumption DEF sums
<1>7. CASE /\ Len(list) = Len(h) /\ DOMAIN list = DOMAIN h
           /\ \A k \in DOMAIN h : Stands(list[k], h[k])
  <2>1. DOMAIN h = 1..Len(h) /\ Len(h) \in Nat /\ \A k \in 1..Len(h) : h[k].lovelace \in Nat
    <3>1. DOMAIN h = 1..Len(h) /\ Len(h) \in Nat /\ \A k \in 1..Len(h) : h[k] \in Held
      BY <1>4
    <3> QED BY <3>1 DEF Held
  <2>2. \A k \in 1..Len(h) : \/ list[k].amount = h[k].lovelace
                             \/ ~whole /\ list[k].amount = 0
    BY <1>7, <2>1 DEF Stands, Utxo
  <2>3. sums \in Seq(Nat) /\ Len(sums) = Len(h) /\ \A k \in 1..Len(h) : sums[k] = list[k].amount
    <3>1. \A k \in 1..Len(h) : list[k].amount \in Nat
      BY <2>1, <2>2
    <3>2. DOMAIN list = 1..Len(h)
      BY <1>7, <2>1
    <3> QED BY <2>1, <3>1, <3>2 DEF AmountsIn
  <2>4. \A k \in 1..Len(h) : Lovelaces(h)[k] = h[k].lovelace
    BY <2>1 DEF Lovelaces
  <2> HIDE DEF sums
  <2>5. ASSUME NEW k \in 1..Len(h) PROVE sums[k] <= Lovelaces(h)[k]
    <3>1. sums[k] = h[k].lovelace \/ sums[k] = 0
      BY <2>2, <2>3
    <3>2. h[k].lovelace \in Nat /\ Lovelaces(h)[k] = h[k].lovelace
      BY <2>1, <2>4
    <3> QED BY <3>1, <3>2
  <2>6. Total(sums) <= Total(Lovelaces(h))
    BY <1>4, <2>3, <2>5, SmallerTotals
  <2>7. Total(sums) \in Nat
    <3>1. Len(sums) \in 0..Len(sums)
      BY <2>1, <2>3
    <3> QED BY <2>3, <3>1, PrefixSums DEF Total
  <2>8. whole => sums = Lovelaces(h)
    BY <1>4, <2>2, <2>3, <2>4, SeqEqual
  <2> QED BY <1>1, <1>4, <1>5, <1>7, <2>1, <2>3, <2>6, <2>7, <2>8, WordAssumption DEF sums
<1> QED BY <1>2, <1>6, <1>7

\* Every block leaves what the address is worth an amount.
LEMMA SumsFitNext ==
    ASSUME ChainOK, SumsFit, [Next]_vars
    PROVE  SumsFit'
<1>0. /\ chain \in Seq(Moments) /\ seen \in Seq(Moments)
      /\ Now = chain[Len(chain)] /\ Len(chain) \in DOMAIN chain /\ Room(Now)
      /\ \A i \in DOMAIN chain : Room(chain[i])
      /\ \A i \in DOMAIN seen : Room(seen[i])
  BY Present DEF ChainOK, SumsFit
<1>1. CASE Begins
  <2>1. seen' = <<Now>> /\ chain' = chain
    BY <1>1 DEF Begins, chainVars
  <2> QED BY <1>0, <2>1 DEF SumsFit
<1>2. CASE ChainStep /\ Moves
  <2>1. \A i \in DOMAIN chain' : Room(chain'[i])
    BY <1>2, BlockFits
  <2>2. /\ chain' \in Seq(Moments) /\ chain' # <<>> /\ Now' = chain'[Len(chain')]
        /\ Len(chain') \in DOMAIN chain'
    BY <1>2 DEF Moves, Now, Last
  <2>3. seen' = seen \/ seen' = Append(seen, Now')
    BY <1>2 DEF Moves
  <2>4. \A i \in DOMAIN seen' : seen'[i] = Now' \/ (i \in DOMAIN seen /\ seen'[i] = seen[i])
    BY <1>0, <2>3
  <2> QED BY <1>0, <2>1, <2>2, <2>4 DEF SumsFit
<1>3. CASE Stays
  BY <1>0, <1>3 DEF Stays, SumsFit
<1> QED BY <1>1, <1>2, <1>3, StepKinds

\* Every iteration adds the next UTxO's amount, without a wrap, and tests it.
LEMMA PrefixTriedNext ==
    ASSUME Inv, SumsFit, PrefixTried, [Next]_vars
    PROVE  PrefixTried'
<1> USE DEF vars, clientVars, loopVars
<1>1. CASE UNCHANGED <<selectVars, op>>
  BY <1>1 DEF PrefixTried, selectVars, Listing
<1>2. CASE Selecting
  <2>0. op' = op /\ op = "select" /\ UNCHANGED providerVars
    BY <1>2 DEF Selecting
  <2>1. CASE Back("select", "nil") /\ GetUtxos(got.value)
    <3>1. Shows(got.value)
      BY <2>0, <2>1 DEF Inv, GotOK, Means, Back
    <3>2. /\ utxos' = got.value /\ outcome' = "loop" /\ chosen' = 0 /\ amountSum' = 0
          /\ bounds' \in Bounds
      BY <2>1 DEF GetUtxos, PrefixTried
    <3>3. AmountsIn(got.value) \in Seq(Nat) /\ Len(got.value) \in Nat
      BY <3>1, ShownFits DEF Inv
    <3>4. Listing' = AmountsIn(got.value)
      BY <3>2 DEF Listing, AmountsIn
    <3>5. PrefixSum(Listing', 0) = 0
      BY <3>3, <3>4, PrefixSums
    <3>6. chosen' \in 0..Len(utxos') /\ amountSum' = PrefixSum(Listing', chosen')
      BY <3>2, <3>3, <3>5
    <3>7. 1..chosen' = {}
      BY <3>2
    <3> QED BY <2>0, <3>2, <3>6, <3>7 DEF PrefixTried
  <2>2. CASE GetUtxosFails
    BY <2>0, <2>2 DEF GetUtxosFails, PrefixTried
  <2>3. CASE NotEnough
    BY <2>0, <2>3 DEF NotEnough, PrefixTried, Listing
  <2>4. CASE Take
    <3>1. /\ outcome = "loop" /\ chosen < Len(utxos) /\ chosen' = chosen + 1
          /\ amountSum' = Plus64(amountSum, utxos[chosen + 1].amount)
          /\ outcome' = IF Meets(amountSum', bounds) THEN "ok" ELSE "loop"
          /\ UNCHANGED <<utxos, bounds>>
      BY <2>4 DEF Take
    <3>2. /\ chosen \in 0..Len(utxos) /\ amountSum = PrefixSum(Listing, chosen)
          /\ bounds \in Bounds
          /\ \A n \in 1..chosen : ~Meets(PrefixSum(Listing, n), bounds)
      BY <3>1 DEF PrefixTried
    <3>3. Shows(utxos)
      BY <2>0, <3>1 DEF Inv, KeptOK
    <3>4. Listing = AmountsIn(utxos) /\ Listing' = Listing
      BY <3>1 DEF Listing, AmountsIn
    <3>5. /\ Listing \in Seq(Nat) /\ Len(Listing) = Len(utxos) /\ Len(utxos) \in Nat
          /\ DOMAIN utxos = 1..Len(utxos) /\ Total(Listing) < Word
      BY <3>3, <3>4, ShownFits DEF Inv
    <3> DEFINE k == chosen + 1
    <3>6. k \in 1..Len(Listing) /\ k - 1 = chosen /\ k \in DOMAIN utxos /\ k \in Nat
      BY <3>1, <3>2, <3>5
    <3>7. PrefixSum(Listing, k) = amountSum + Listing[k] /\ Listing[k] = utxos[k].amount
      <4>1. \A n \in 1..Len(Listing) :
                PrefixSum(Listing, n) = PrefixSum(Listing, n - 1) + Listing[n]
        BY <3>5, PrefixSums
      <4>2. PrefixSum(Listing, k) = PrefixSum(Listing, k - 1) + Listing[k]
        BY <3>6, <4>1
      <4> QED BY <3>2, <3>6, <4>2 DEF Listing
    <3>8. PrefixSum(Listing, k) <= Total(Listing) /\ PrefixSum(Listing, k) \in Nat
      <4>1. k \in 0..Len(Listing) /\ Len(Listing) \in k..Len(Listing)
        BY <3>5, <3>6
      <4> HIDE DEF k
      <4> QED BY <3>5, <4>1, PrefixSumsGrow, PrefixSums DEF Total
    <3>9. Total(Listing) \in Nat
      BY <3>3, <3>4, ShownFits DEF Inv
    <3>10. amountSum' = PrefixSum(Listing, k)
      BY <3>1, <3>5, <3>7, <3>8, <3>9, WordAssumption DEF Plus64
    <3>11. \A n \in 1..chosen' : n \in 1..chosen \/ n = chosen'
      BY <3>1, <3>2
    <3>12. \A n \in 1..chosen' :
                Meets(PrefixSum(Listing, n), bounds) => outcome' = "ok" /\ n = chosen'
      BY <3>1, <3>2, <3>10, <3>11
    <3>13. chosen' \in 0..Len(utxos) /\ chosen' > 0
      BY <3>1, <3>2, <3>5
    <3> QED BY <2>0, <3>1, <3>2, <3>4, <3>10, <3>12, <3>13 DEF PrefixTried
  <2> QED BY <1>2, <2>1, <2>2, <2>3, <2>4 DEF Selecting
<1>3. CASE Client /\ ~Selecting
  BY <1>1, <1>3 DEF Client, Start, HaveParams, HaveTip, Submitted, GivesUp, Invoke, Poll,
     PollFails, PollUtxos, PollTx, PollBack, LoopStep, CancelCtx
<1> QED BY <1>1, <1>2, <1>3 DEF Next

\* The sums fit before an operation starts.
LEMMA InitSelect == Init => SelectInv
<1> SUFFICES ASSUME Init PROVE SelectInv
  OBVIOUS
<1>1. PICK g \in Genesis : chain = <<GenesisMoment(g)>> /\ seen = <<GenesisMoment(g)>>
  BY DEF Init
<1>2. g \in Seq(Nat) /\ Total(g) + 10 < Word
  BY ClientsAssumption
<1>3. Total(g) \in Nat
  <2>1. Len(g) \in 0..Len(g)
    BY <1>2
  <2> QED BY <1>2, <2>1, PrefixSums DEF Total
<1>4. Worth(GenesisMoment(g).held) = Total(g)
  <2>1. \A n : GenesisUtxo(n, g[n]).lovelace = g[n]
    BY DEF GenesisUtxo
  <2> DEFINE held == [n \in DOMAIN g |-> GenesisUtxo(n, g[n])]
  <2>2. GenesisMoment(g).held = held
    BY DEF GenesisMoment
  <2>3. [n \in DOMAIN held |-> held[n].lovelace] = [n \in DOMAIN g |-> g[n]]
    BY <2>1
  <2>4. [n \in DOMAIN g |-> g[n]] = g
    BY <1>2
  <2> HIDE DEF held
  <2> QED BY <2>2, <2>3, <2>4 DEF Worth
<1>5. Room(GenesisMoment(g))
  BY <1>2, <1>3, <1>4, WordAssumption DEF Room
<1>6. SumsFit
  BY <1>1, <1>5 DEF SumsFit
<1>7. PrefixTried
  BY DEF Init, SelectInit, PrefixTried
<1> QED BY <1>6, <1>7 DEF SelectInv

\* The loop has tried the prefixes of the list in every reachable state.
LEMMA SelectInvariance == Spec => [](Inv /\ SelectInv)
<1>1. Inv /\ SelectInv /\ [Next]_vars => SelectInv'
  BY SumsFitNext, PrefixTriedNext DEF Inv, SelectInv
<1> QED BY <1>1, InitSelect, Invariance, PTL DEF Spec

\* Whatever the amounts and the order they are listed in, below 2^64 in all: the
\* selection returns the shortest sufficient prefix and its true sum
\* (transaction_extended.go:53-66).
THEOREM ShortestPrefix == Spec => []ReturnsShortestPrefix
<1>1. Inv /\ SelectInv => ReturnsShortestPrefix
  <2> SUFFICES ASSUME Inv, SelectInv, outcome = "ok"
               PROVE  chosen = Selected(Listing, bounds) /\ amountSum = PrefixSum(Listing, chosen)
    BY DEF ReturnsShortestPrefix
  <2>1. /\ op = "select" /\ chosen \in 0..Len(utxos) /\ amountSum = PrefixSum(Listing, chosen)
        /\ chosen > 0 /\ Meets(amountSum, bounds)
        /\ \A n \in 1..chosen : Meets(PrefixSum(Listing, n), bounds) => n = chosen
    BY DEF SelectInv, PrefixTried
  <2>2. Listing \in Seq(Nat) /\ Len(Listing) = Len(utxos) /\ Len(utxos) \in Nat
    <3>1. Shows(utxos) /\ Listing = AmountsIn(utxos)
      BY <2>1 DEF Inv, KeptOK, Listing, AmountsIn
    <3> QED BY <3>1, ShownFits DEF Inv, SelectInv
  <2> DEFINE n == Selected(Listing, bounds)
  <2>3. /\ n \in 0..Len(Listing)
        /\ n # 0 => Meets(PrefixSum(Listing, n), bounds)
        /\ \A m \in 1..Len(Listing) :
                Meets(PrefixSum(Listing, m), bounds) => n # 0 /\ n <= m
    BY <2>2, SelectedIsShortest
  <2> HIDE DEF n
  <2>4. chosen \in 1..Len(Listing)
    BY <2>1, <2>2
  <2>5. n # 0 /\ n <= chosen /\ n \in 1..chosen
    BY <2>1, <2>2, <2>3, <2>4
  <2>6. n = chosen
    BY <2>1, <2>3, <2>5
  <2> QED BY <2>1, <2>6 DEF n
<1> QED BY <1>1, SelectInvariance, PTL

\* "not enough funds" was true of the address at a moment of the call, or the
\* address holds more than a page of Blockfrost (transaction_extended.go:68).
THEOREM RefusesPoor == Spec => []RefusesOnlyThePoor
<1>1. Inv /\ SelectInv => RefusesOnlyThePoor
  <2> SUFFICES ASSUME Inv, SelectInv, outcome = "poor", whole
               PROVE  \E i \in DOMAIN seen :
                        \/ Worth(seen[i].held) < bounds[2]
                        \/ provider = "blockfrost" /\ Len(seen[i].held) > PageSize
    BY DEF RefusesOnlyThePoor
  <2>1. /\ op = "select" /\ chosen = Len(utxos) /\ bounds \in Bounds
        /\ \A n \in 1..chosen : ~Meets(PrefixSum(Listing, n), bounds)
    BY DEF SelectInv, PrefixTried
  <2>2. Shows(utxos) /\ Listing = AmountsIn(utxos)
    BY <2>1 DEF Inv, KeptOK, Listing, AmountsIn
  <2>3. /\ Listing \in Seq(Nat) /\ Len(Listing) = Len(utxos) /\ Len(utxos) \in Nat
        /\ Total(Listing) \in Nat
        /\ \E i \in DOMAIN seen :
                whole /\ (provider # "blockfrost" \/ Len(seen[i].held) <= PageSize) =>
                    Total(Listing) = Worth(seen[i].held)
    BY <2>2, ShownFits DEF Inv, SelectInv
  <2>4. bounds[2] \in Nat /\ bounds[2] > 0
    BY <2>1, BoundsAssumption
  <2>5. Total(Listing) < bounds[2]
    <3>1. CASE Len(utxos) = 0
      BY <2>3, <2>4, <3>1, PrefixSums DEF Total
    <3>2. CASE Len(utxos) # 0
      <4>1. ~Meets(Total(Listing), bounds)
        BY <2>1, <2>3, <3>2 DEF Total
      <4> QED BY <2>3, <2>4, <4>1 DEF Meets
    <3> QED BY <3>1, <3>2
  <2>6. PICK i \in DOMAIN seen :
            whole /\ (provider # "blockfrost" \/ Len(seen[i].held) <= PageSize) =>
                Total(Listing) = Worth(seen[i].held)
    BY <2>3
  <2>7. Len(seen[i].held) \in Nat /\ PageSize \in Nat
    BY Present, ProvidersAssumption DEF Inv, Moments
  <2> QED BY <2>5, <2>6, <2>7
<1> QED BY <1>1, SelectInvariance, PTL
=============================================================================
