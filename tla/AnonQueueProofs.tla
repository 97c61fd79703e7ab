-------------------------- MODULE AnonQueueProofs --------------------------
(***************************************************************************)
(* Theorems about AnonQueue, for all relays, ids, texts and bounds: the    *)
(* address codec is exact, addresses lead home and nowhere else, and what  *)
(* an owner accepts was tagged for it.                                     *)
(***************************************************************************)
EXTENDS AnonQueue, SequenceTheorems, TextTheorems, TLAPS

-----------------------------------------------------------------------------
(* Base64 of an id: three digits, the last bit to spare.                   *)

\* A number of nine bits and its digits.
LEMMA DigitsOf ==
    ASSUME NEW w \in 0 .. 511
    PROVE  /\ (w \div 64) % 8 \in 0 .. 7 /\ (w \div 8) % 8 \in 0 .. 7 /\ w % 8 \in 0 .. 7
           /\ 64 * ((w \div 64) % 8) + 8 * ((w \div 8) % 8) + (w % 8) = w
  OBVIOUS

\* A text of three characters.
LEMMA ThreeCharacters ==
    ASSUME NEW t \in Seq(Nat), Len(t) = 3
    PROVE  /\ t = <<t[1], t[2], t[3]>>
           /\ t[1] \in Nat /\ t[2] \in Nat /\ t[3] \in Nat
           /\ ToSet(t) = {t[1], t[2], t[3]}
  <1>1. DOMAIN t = {1, 2, 3}
    OBVIOUS
  <1>2. t[1] \in Nat /\ t[2] \in Nat /\ t[3] \in Nat
    <2>1. 1 \in 1 .. Len(t) /\ 2 \in 1 .. Len(t) /\ 3 \in 1 .. Len(t)
      OBVIOUS
    <2> QED
      BY <2>1, ElementOfSeq, Zenon
  <1>3. t = <<t[1], t[2], t[3]>>
    OBVIOUS
  <1>4. ToSet(t) = {t[1], t[2], t[3]}
    BY <1>1, Zenon DEF ToSet
  <1> QED
    BY <1>2, <1>3, <1>4

\* The value of three digits.
LEMMA ValueOfThree ==
    ASSUME NEW t \in Seq(Nat), Len(t) = 3
    PROVE  b64_value(t) = 64 * t[1] + 8 * t[2] + t[3]
  <1> DEFINE Eq(f) == f = [i \in 0 .. Len(t) |-> IF i = 0 THEN 0 ELSE 8 * f[i - 1] + t[i]]
             g == [i \in 0 .. 3 |-> IF i = 0 THEN 0 ELSE IF i = 1 THEN t[1]
                                    ELSE IF i = 2 THEN 8 * t[1] + t[2]
                                    ELSE 64 * t[1] + 8 * t[2] + t[3]]
             upto == CHOOSE f : Eq(f)
  <1>1. t[1] \in Nat /\ t[2] \in Nat /\ t[3] \in Nat
    BY ThreeCharacters
  <1>2. Eq(g)
    BY <1>1
  <1>3. Eq(upto)
    BY <1>2
  <1>u. PICK u : u = upto
    OBVIOUS
  <1>4. u = [i \in 0 .. 3 |-> IF i = 0 THEN 0 ELSE 8 * u[i - 1] + t[i]]
    BY <1>3, <1>u
  <1>5. u[0] = 0 /\ u[1] = 8 * u[0] + t[1] /\ u[2] = 8 * u[1] + t[2] /\ u[3] = 8 * u[2] + t[3]
    BY <1>4
  <1>6. u[3] = 64 * t[1] + 8 * t[2] + t[3]
    BY <1>1, <1>5
  <1>7. b64_value(t) = u[3]
    BY <1>u DEF b64_value
  <1> QED
    BY <1>6, <1>7

\* The digits of an id.
LEMMA EncodedId ==
    ASSUME NEW val \in 0 .. 255
    PROVE  b64_encode(Id(val)) = <<((2 * val) \div 64) % 8, ((2 * val) \div 8) % 8, (2 * val) % 8>>
  BY DEF b64_encode, Id, QUEUE_ID_LEN

\* What is encoded is read back.
LEMMA IdRoundTrip ==
    ASSUME NEW val \in 0 .. 255
    PROVE  LET t == b64_encode(Id(val))
           IN  /\ t \in Seq(Nat) /\ Len(t) = 3
               /\ b64_valid(t) /\ b64_decode(t) = Id(val)
  <1>t. PICK t : t = b64_encode(Id(val))
    OBVIOUS
  <1> DEFINE x == ((2 * val) \div 64) % 8
             y == ((2 * val) \div 8) % 8
             z == (2 * val) % 8
  <1>1. t = <<x, y, z>> /\ x \in 0 .. 7 /\ y \in 0 .. 7 /\ z \in 0 .. 7
    <2>1. 2 * val \in 0 .. 511
      OBVIOUS
    <2> QED
      BY <1>t, <2>1, EncodedId, DigitsOf
  <1>2. t \in Seq(Nat) /\ Len(t) = 3
    BY <1>1
  <1>3. b64_value(t) = 2 * val
    <2>1. 64 * x + 8 * y + z = 2 * val
      <3>1. 2 * val \in 0 .. 511
        OBVIOUS
      <3> QED
        BY <3>1, DigitsOf
    <2> QED
      BY <1>1, <1>2, <2>1, ValueOfThree
  <1>4. b64_spare(t) = 1
    BY <1>2 DEF b64_spare
  <1>5. b64_valid(t)
    BY <1>1, <1>2, <1>3, <1>4 DEF b64_valid, ToSet, Digits
  <1>6. b64_decode(t) = Id(val)
    BY <1>2, <1>3, <1>4 DEF b64_decode, Id, QUEUE_ID_LEN
  <1> QED
    BY <1>t, <1>2, <1>5, <1>6

\* What is read is encoded back, digit by digit: the spare bit is zero.
LEMMA DigitsRoundTrip ==
    ASSUME NEW t \in Seq(Nat), b64_valid(t), b64_decode(t).len = QUEUE_ID_LEN
    PROVE  b64_encode(b64_decode(t)) = t /\ b64_decode(t).val \in 0 .. 255
  <1>1. Len(t) = 3
    <2>1. (3 * Len(t)) \div 4 = 2 /\ Len(t) \in Nat
      BY DEF b64_decode, QUEUE_ID_LEN
    <2>2. \A n \in Nat : (3 * n) \div 4 = 2 => n = 3
      OBVIOUS
    <2> QED
      BY <2>1, <2>2, Zenon
  <1>2. PICK a \in 0 .. 7, b \in 0 .. 7, c \in 0 .. 7 : t = <<a, b, c>>
    <2>1. t[1] \in 0 .. 7 /\ t[2] \in 0 .. 7 /\ t[3] \in 0 .. 7
      BY <1>1, ThreeCharacters DEF b64_valid, Digits
    <2>2. t = <<t[1], t[2], t[3]>>
      BY <1>1, ThreeCharacters
    <2> QED
      BY <2>1, <2>2, Zenon
  <1>v. PICK v : v = b64_value(t)
    OBVIOUS
  <1>3. v = 64 * a + 8 * b + c
    BY <1>1, <1>2, <1>v, ValueOfThree
  <1>4. b64_spare(t) = 1 /\ v % 2 = 0
    BY <1>1, <1>v DEF b64_valid, b64_spare
  <1>5. b64_decode(t) = Id(v \div 2)
    BY <1>1, <1>4, <1>v DEF b64_decode, Id, QUEUE_ID_LEN
  <1>6. v \div 2 \in 0 .. 255 /\ 2 * (v \div 2) = v
    BY <1>3, <1>4
  <1>7. (v \div 64) % 8 = a /\ (v \div 8) % 8 = b /\ v % 8 = c
    BY <1>3
  <1>8. b64_encode(Id(v \div 2)) = <<a, b, c>>
    BY <1>6, <1>7, EncodedId
  <1> QED
    BY <1>2, <1>5, <1>6, <1>8 DEF Id

-----------------------------------------------------------------------------
(* Addresses.                                                              *)

\* An address: scheme, relay, slash, id.
Joined(relay, b64) == <<AQID_SCHEME>> \o relay \o <<Slash>> \o b64

\* Where its parts are.
LEMMA JoinedPlaces ==
    ASSUME NEW relay \in Seq(Nat), NEW b64 \in Seq(Nat)
    PROVE  LET text == Joined(relay, b64) IN
           /\ text \in Seq(Nat) /\ Len(text) = Len(relay) + Len(b64) + 2
           /\ text[1] = AQID_SCHEME /\ text[Len(relay) + 2] = Slash
           /\ \A i \in 1 .. Len(relay) : text[i + 1] = relay[i]
           /\ \A i \in 1 .. Len(b64) : text[Len(relay) + 2 + i] = b64[i]
  <1>1. <<AQID_SCHEME>> \in Seq(Nat) /\ <<Slash>> \in Seq(Nat)
    BY DEF AQID_SCHEME, Slash
  <1> QED
    BY <1>1 DEF Joined

\* A text with this at its places is that address.
LEMMA JoinedBack ==
    ASSUME NEW text \in Seq(Nat), NEW at \in 1 .. Len(text), at > 1,
           text[1] = AQID_SCHEME, text[at] = Slash
    PROVE  Joined(SubSeq(text, 2, at - 1), SubSeq(text, at + 1, Len(text))) = text
  <1>r. PICK r : r = SubSeq(text, 2, at - 1)
    OBVIOUS
  <1>b. PICK b : b = SubSeq(text, at + 1, Len(text))
    OBVIOUS
  <1>1. r \in Seq(Nat) /\ Len(r) = at - 2 /\ \A i \in 1 .. at - 2 : r[i] = text[i + 1]
    BY <1>r
  <1>2. b \in Seq(Nat) /\ Len(b) = Len(text) - at
        /\ \A i \in 1 .. Len(text) - at : b[i] = text[at + i]
    BY <1>b
  <1>j. PICK j : j = Joined(r, b)
    OBVIOUS
  <1>3. /\ j \in Seq(Nat) /\ Len(j) = Len(r) + Len(b) + 2
        /\ j[1] = AQID_SCHEME /\ j[Len(r) + 2] = Slash
        /\ \A i \in 1 .. Len(r) : j[i + 1] = r[i]
        /\ \A i \in 1 .. Len(b) : j[Len(r) + 2 + i] = b[i]
    BY <1>1, <1>2, <1>j, JoinedPlaces, Zenon
  <1>4. Len(j) = Len(text) /\ Len(r) + 2 = at
    BY <1>1, <1>2, <1>3
  <1>5. ASSUME NEW i \in 1 .. Len(text) PROVE j[i] = text[i]
    <2>1. CASE i = 1 \/ i = at
      BY <1>3, <1>4, <2>1
    <2>2. CASE i \in 2 .. at - 1
      <3>1. i - 1 \in 1 .. at - 2 /\ (i - 1) + 1 = i
        BY <2>2
      <3> QED
        BY <1>1, <1>3, <3>1
    <2>3. CASE i \in at + 1 .. Len(text)
      <3>1. i - at \in 1 .. Len(text) - at /\ at + (i - at) = i
        BY <2>3
      <3> QED
        BY <1>2, <1>3, <1>4, <3>1
    <2> QED
      BY <2>1, <2>2, <2>3
  <1>6. j = text
    BY <1>3, <1>4, <1>5, SeqEqual
  <1> QED
    BY <1>r, <1>b, <1>j, <1>6

\* The first slash of a text, 0 if there is none.
FirstSlash(text) == SelectInSeq(text, LAMBDA c : c = Slash)

\* SelectInSeq finds the first, by the least element of its places.
LEMMA FirstSlashIs ==
    ASSUME NEW text \in Seq(Nat)
    PROVE  \/ FirstSlash(text) = 0 /\ \A i \in 1 .. Len(text) : text[i] # Slash
           \/ /\ FirstSlash(text) \in 1 .. Len(text) /\ text[FirstSlash(text)] = Slash
              /\ \A i \in 1 .. FirstSlash(text) - 1 : text[i] # Slash
  <1> DEFINE I == {i \in 1 .. Len(text) : text[i] = Slash}
  <1>1. FirstSlash(text) = IF I # {} THEN Min(I) ELSE 0
    BY DEF FirstSlash, SelectInSeq
  <1>2. CASE I = {}
    BY <1>1, <1>2
  <1>3. CASE I # {}
    <2>1. I \subseteq Nat
      OBVIOUS
    <2>2. \E x \in I : \A y \in I : x <= y
      BY <1>3, <2>1, LeastOfNaturals, Zenon
    <2>3. Min(I) \in I /\ \A y \in I : Min(I) <= y
      BY <2>2, Zenon DEF Min
    <2>4. PICK x \in I : x = FirstSlash(text) /\ \A y \in I : x <= y
      BY <1>1, <1>3, <2>3, Zenon
    <2>5. \A i \in 1 .. x - 1 : text[i] # Slash
      BY <2>4
    <2> QED
      BY <2>4, <2>5
  <1> QED
    BY <1>2, <1>3

\* A piece of a text.
LEMMA Piece ==
    ASSUME NEW t \in Seq(Nat), NEW m \in Nat, NEW n \in Nat, 1 <= m, m <= n + 1, n <= Len(t)
    PROVE  /\ SubSeq(t, m, n) \in Seq(Nat) /\ Len(SubSeq(t, m, n)) = n - m + 1
           /\ \A i \in 1 .. n - m + 1 : SubSeq(t, m, n)[i] = t[m + i - 1]
  OBVIOUS

\* decode_aqid cuts at the first slash.
LEMMA DecodeCuts ==
    ASSUME NEW text \in Seq(Nat)
    PROVE  decode_aqid(text)
               = IF text = << >> \/ text[1] # AQID_SCHEME \/ FirstSlash(text) = 0
                 THEN Error("BadAddress")
                 ELSE decode_id(SubSeq(text, 2, FirstSlash(text) - 1),
                                SubSeq(text, FirstSlash(text) + 1, Len(text)))
  BY DEF decode_aqid, FirstSlash

\* The parts of an address are found again.
LEMMA DecodeJoined ==
    ASSUME NEW relay \in Seq(Nat), NEW b64 \in Seq(Nat), ~ Contains(relay, Slash)
    PROVE  decode_aqid(Joined(relay, b64)) = decode_id(relay, b64)
  <1>t. PICK text : text = Joined(relay, b64)
    OBVIOUS
  <1>1. /\ text \in Seq(Nat) /\ Len(text) = Len(relay) + Len(b64) + 2
        /\ text[1] = AQID_SCHEME /\ text[Len(relay) + 2] = Slash
        /\ \A i \in 1 .. Len(relay) : text[i + 1] = relay[i]
        /\ \A i \in 1 .. Len(b64) : text[Len(relay) + 2 + i] = b64[i]
    BY <1>t, JoinedPlaces, Zenon
  <1>n. PICK n \in Nat : n = Len(relay)
    OBVIOUS
  <1>2. FirstSlash(text) = n + 2
    <2>1. \A i \in 1 .. n + 1 : text[i] # Slash
      <3> SUFFICES ASSUME NEW i \in 1 .. n + 1 PROVE text[i] # Slash
        OBVIOUS
      <3>1. CASE i = 1
        BY <1>1, <3>1 DEF AQID_SCHEME, Slash
      <3>2. CASE i # 1
        <4>1. i - 1 \in 1 .. Len(relay) /\ (i - 1) + 1 = i
          BY <1>n, <3>2
        <4>2. text[i] = relay[i - 1]
          BY <1>1, <4>1
        <4> QED
          BY <4>1, <4>2 DEF Contains
      <3> QED
        BY <3>1, <3>2
    <2>2. n + 2 \in 1 .. Len(text) /\ text[n + 2] = Slash
      BY <1>1, <1>n
    <2>f. PICK f : f = FirstSlash(text)
      OBVIOUS
    <2>3. \/ f = 0 /\ \A i \in 1 .. Len(text) : text[i] # Slash
          \/ f \in 1 .. Len(text) /\ text[f] = Slash /\ \A i \in 1 .. f - 1 : text[i] # Slash
      BY <1>1, <2>f, FirstSlashIs
    <2> QED
      BY <1>1, <2>1, <2>2, <2>3, <2>f
  <1>3. SubSeq(text, 2, n + 1) = relay
    <2>s. PICK s : s = SubSeq(text, 2, n + 1)
      OBVIOUS
    <2>1. s \in Seq(Nat) /\ Len(s) = n /\ \A i \in 1 .. n : s[i] = text[i + 1]
      <3>1. n + 1 \in Nat /\ 2 <= (n + 1) + 1 /\ n + 1 <= Len(text) /\ (n + 1) - 2 + 1 = n
        BY <1>1, <1>n
      <3>2. /\ s \in Seq(Nat) /\ Len(s) = (n + 1) - 2 + 1
            /\ \A i \in 1 .. (n + 1) - 2 + 1 : s[i] = text[2 + i - 1]
        BY <1>1, <2>s, <3>1, Piece
      <3> QED
        BY <3>1, <3>2
    <2>2. \A i \in 1 .. n : s[i] = relay[i]
      BY <1>1, <1>n, <2>1
    <2> QED
      BY <1>n, <2>1, <2>2, <2>s, SeqEqual
  <1>4. SubSeq(text, n + 3, Len(text)) = b64
    <2>s. PICK s : s = SubSeq(text, n + 3, Len(text))
      OBVIOUS
    <2>1. s \in Seq(Nat) /\ Len(s) = Len(b64) /\ \A i \in 1 .. Len(b64) : s[i] = text[n + 2 + i]
      <3>1. PICK m \in Nat, z \in Nat, l \in Nat :
                m = n + 3 /\ z = Len(text) /\ l = Len(b64) /\ z - m + 1 = l
        <4>l. PICK l \in Nat : l = Len(b64)
          OBVIOUS
        <4>1. Len(text) = n + l + 2
          BY <1>1, <1>n, <4>l
        <4>2. (n + l + 2) - (n + 3) + 1 = l /\ n + l + 2 \in Nat /\ n + 3 \in Nat
          OBVIOUS
        <4> QED
          BY <4>l, <4>1, <4>2
      <3>2. 1 <= m /\ m <= z + 1 /\ z <= Len(text)
        BY <3>1
      <3>s. s = SubSeq(text, m, z) /\ text \in Seq(Nat)
        BY <1>1, <2>s, <3>1, Zenon
      <3>3. /\ s \in Seq(Nat) /\ Len(s) = z - m + 1
            /\ \A i \in 1 .. z - m + 1 : s[i] = text[m + i - 1]
        BY <3>s, <3>2, Piece
      <3>4. \A i \in 1 .. l : m + i - 1 = n + 2 + i
        BY <3>1
      <3> QED
        BY <3>1, <3>3, <3>4
    <2>2. \A i \in 1 .. Len(b64) : s[i] = b64[i]
      BY <1>1, <1>n, <2>1
    <2> QED
      BY <2>1, <2>2, <2>s, SeqEqual
  <1>5. text # << >> /\ FirstSlash(text) # 0 /\ FirstSlash(text) - 1 = n + 1
        /\ FirstSlash(text) + 1 = n + 3
    BY <1>1, <1>2
  <1> QED
    BY <1>t, <1>1, <1>3, <1>4, <1>5, DecodeCuts

\* encode_aqid writes such an address for a good relay.
LEMMA EncodeWrites ==
    ASSUME NEW relay \in Seq(Nat), NEW val \in 0 .. 255, encode_aqid(relay, Id(val)).ok
    PROVE  /\ relay # << >> /\ ~ Contains(relay, Slash)
           /\ encode_aqid(relay, Id(val)).text = Joined(relay, b64_encode(Id(val)))
  BY DEF encode_aqid, Error, Joined

\* An address leads back to its relay and id.
LEMMA EncodedDecodes ==
    ASSUME NEW relay \in Seq(Nat), NEW val \in 0 .. 255, encode_aqid(relay, Id(val)).ok
    PROVE  /\ encode_aqid(relay, Id(val)).text \in Seq(Nat)
           /\ decode_aqid(encode_aqid(relay, Id(val)).text)
                  = [ok |-> TRUE, relay |-> relay, id |-> Id(val)]
  <1>b. PICK b : b = b64_encode(Id(val))
    OBVIOUS
  <1>1. b \in Seq(Nat) /\ Len(b) = 3 /\ b64_valid(b) /\ b64_decode(b) = Id(val)
    BY <1>b, IdRoundTrip
  <1>2. /\ relay # << >> /\ ~ Contains(relay, Slash)
        /\ encode_aqid(relay, Id(val)).text = Joined(relay, b)
    BY <1>b, EncodeWrites
  <1>3. decode_aqid(Joined(relay, b)) = decode_id(relay, b) /\ Joined(relay, b) \in Seq(Nat)
    BY <1>1, <1>2, DecodeJoined, JoinedPlaces
  <1>4. decode_id(relay, b) = [ok |-> TRUE, relay |-> relay, id |-> Id(val)]
    <2>1. b # << >>
      <3> SUFFICES ASSUME b = << >> PROVE FALSE
        OBVIOUS
      <3>1. Len(b) = 3
        BY <1>1
      <3>2. Len(b) = 0
        OBVIOUS
      <3> QED
        BY <3>1, <3>2
    <2>2. Id(val).len = QUEUE_ID_LEN
      BY DEF Id
    <2> QED
      BY <1>1, <1>2, <2>1, <2>2 DEF decode_id
  <1> QED
    BY <1>2, <1>3, <1>4

\* And what decode_aqid accepts is what encode_aqid writes: one spelling.
LEMMA DecodedEncodes ==
    ASSUME NEW text \in Seq(Nat), decode_aqid(text).ok
    PROVE  encode_aqid(decode_aqid(text).relay, decode_aqid(text).id) = [ok |-> TRUE, text |-> text]
  <1>f. PICK f : f = FirstSlash(text)
    OBVIOUS
  <1>r. PICK r : r = SubSeq(text, 2, f - 1)
    OBVIOUS
  <1>b. PICK b : b = SubSeq(text, f + 1, Len(text))
    OBVIOUS
  <1>1. text # << >> /\ text[1] = AQID_SCHEME /\ f # 0 /\ decode_aqid(text) = decode_id(r, b)
    BY <1>f, <1>r, <1>b, DecodeCuts DEF Error
  <1>2. f \in 1 .. Len(text) /\ text[f] = Slash /\ \A i \in 1 .. f - 1 : text[i] # Slash
    BY <1>f, <1>1, FirstSlashIs
  <1>3. f > 1
    BY <1>1, <1>2 DEF AQID_SCHEME, Slash
  <1>4. Joined(r, b) = text
    BY <1>r, <1>b, <1>1, <1>2, <1>3, JoinedBack
  <1>5. /\ r # << >> /\ b64_valid(b) /\ b64_decode(b).len = QUEUE_ID_LEN
        /\ decode_aqid(text).relay = r /\ decode_aqid(text).id = b64_decode(b)
    BY <1>1 DEF decode_id, Error
  <1>6. r \in Seq(Nat) /\ b \in Seq(Nat) /\ Len(r) = f - 2
        /\ \A i \in 1 .. f - 2 : r[i] = text[i + 1]
    BY <1>r, <1>b, <1>2, <1>3
  <1>7. ~ Contains(r, Slash)
    <2>1. \A i \in 1 .. f - 2 : i + 1 \in 1 .. f - 1
      BY <1>2
    <2> QED
      BY <1>2, <1>6, <2>1 DEF Contains
  <1>8. b64_encode(b64_decode(b)) = b
    BY <1>5, <1>6, DigitsRoundTrip
  <1> QED
    BY <1>4, <1>5, <1>7, <1>8 DEF encode_aqid, Joined

-----------------------------------------------------------------------------
(* Queues and addresses in use.                                            *)

\* A queue's two ids differ, and no subscription is another queue's address.
QueueInv ==
    /\ queue = [o \in Owners |-> queue[o]]
    /\ \A o \in Owners : queue[o] # None =>
           queue[o] \in Ids \X Ids /\ queue[o][1] # queue[o][2]
    /\ \A o, p \in Owners : queue[o] # None /\ queue[p] # None /\ o # p =>
           queue[o][1] # queue[p][2]

\* A published text is what encode_aqid made of the relay and the sender id.
IsPublished(p) ==
    /\ p.owner \in Owners /\ queue[p.owner] # None /\ p.relay \in Seq(Nat)
    /\ LET aqid == encode_aqid(p.relay, Id(queue[p.owner][2]))
       IN  aqid.ok /\ p.text = aqid.text

\* The texts that go round are texts, mistyped or not.
IsAddress(a) == a = [owner |-> a.owner, text |-> a.text] /\ a.text \in Seq(Nat)

AddressInv ==
    /\ QueueInv
    /\ \A p \in published : IsPublished(p)
    /\ \A a \in address : IsAddress(a)

\* A draw gives the new owner two ids that nobody has.
LEMMA NewQueueStep ==
    ASSUME AddressInv, NEW o \in Owners, NewQueue(o)
    PROVE  AddressInv'
  <1>1. PICK pair \in new_queue_pair(Ids \ Drawn) : queue' = [queue EXCEPT ![o] = pair]
    BY DEF NewQueue
  <1>2. pair \in Ids \X Ids /\ pair[1] # pair[2] /\ pair[1] \notin Drawn /\ pair[2] \notin Drawn
    BY <1>1 DEF new_queue_pair
  <1>3. /\ queue' = [x \in Owners |-> queue'[x]] /\ queue'[o] = pair
        /\ \A x \in Owners : x # o => queue'[x] = queue[x]
    BY <1>1 DEF AddressInv, QueueInv
  <1>4. \A x \in Owners : queue[x] # None => queue[x][1] \in Drawn /\ queue[x][2] \in Drawn
    BY DEF Drawn
  <1>5. QueueInv'
    <2>1. \A x \in Owners : queue'[x] # None =>
              queue'[x] \in Ids \X Ids /\ queue'[x][1] # queue'[x][2]
      BY <1>2, <1>3 DEF AddressInv, QueueInv
    <2>2. ASSUME NEW x \in Owners, NEW y \in Owners, queue'[x] # None, queue'[y] # None, x # y
          PROVE  queue'[x][1] # queue'[y][2]
      <3>1. CASE x # o /\ y # o
        BY <1>3, <2>2, <3>1 DEF AddressInv, QueueInv
      <3>2. CASE x = o \/ y = o
        BY <1>2, <1>3, <1>4, <2>2, <3>2
      <3> QED
        BY <3>1, <3>2
    <2> QED
      BY <1>3, <2>1, <2>2 DEF QueueInv
  <1>6. \A p \in published' : IsPublished(p)'
    <2> SUFFICES ASSUME NEW p \in published PROVE IsPublished(p)'
      BY DEF NewQueue
    <2>1. IsPublished(p) /\ queue[o] = None
      BY DEF AddressInv, NewQueue
    <2>2. queue'[p.owner] = queue[p.owner]
      BY <1>3, <2>1 DEF IsPublished
    <2> QED
      BY <2>1, <2>2 DEF IsPublished
  <1> QED
    BY <1>5, <1>6 DEF AddressInv, NewQueue, IsAddress

\* An owner's sender id is a value of two bytes.
LEMMA SenderIdType ==
    ASSUME QueueInv, NEW o \in Owners, queue[o] # None
    PROVE  queue[o][2] \in 0 .. 255
  BY AnonAssumption DEF QueueInv

\* Publishing writes the address of the sender id, and refuses all else.
LEMMA PublishStep ==
    ASSUME AddressInv, NEW o \in Owners, NEW relay \in Relays, NEW id,
           id = Id(queue[o][2]) \/ id = [len |-> 1, val |-> 1], Publish(o, relay, id)
    PROVE  AddressInv'
  <1>1. queue[o] # None /\ encode_aqid(relay, id).ok /\ queue' = queue /\ relay \in Seq(Nat)
    BY AnonAssumption DEF Publish
  <1>2. id = Id(queue[o][2])
    BY <1>1 DEF encode_aqid, Error, QUEUE_ID_LEN
  <1>t. PICK text : text = encode_aqid(relay, id).text
    OBVIOUS
  <1>3. text \in Seq(Nat)
    <2>1. queue[o][2] \in 0 .. 255
      BY <1>1, SenderIdType DEF AddressInv
    <2> QED
      BY <1>1, <1>2, <1>t, <2>1, EncodedDecodes
  <1>4. /\ published' = published \cup {[owner |-> o, relay |-> relay, text |-> text]}
        /\ address' = address \cup {[owner |-> o, text |-> text]}
    BY <1>t DEF Publish
  <1>5. QueueInv'
    BY <1>1 DEF AddressInv, QueueInv
  <1>6. IsPublished([owner |-> o, relay |-> relay, text |-> text])'
    BY <1>1, <1>2, <1>t DEF IsPublished
  <1>7. \A p \in published : IsPublished(p)'
    BY <1>1 DEF AddressInv, IsPublished
  <1>8. \A a \in address' : IsAddress(a)
    BY <1>3, <1>4 DEF AddressInv, IsAddress
  <1> QED
    BY <1>4, <1>5, <1>6, <1>7, <1>8 DEF AddressInv, IsAddress

\* A mistyped text is still a text.
LEMMA MistypeStep ==
    ASSUME AddressInv, NEW a \in address, Mistype(a)
    PROVE  AddressInv'
  <1>1. a.text \in Seq(Nat) /\ a = [owner |-> a.owner, text |-> a.text]
    BY DEF AddressInv, IsAddress
  <1>2. ASSUME NEW text \in Mistyped(a.text) PROVE text \in Seq(Nat)
    <2>1. CASE text \in OtherCharacter(a.text)
      <3>1. PICK i \in DOMAIN a.text, c \in Typos : text = ReplaceAt(a.text, i, c)
        BY <2>1, Zenon DEF OtherCharacter
      <3> QED
        BY <1>1, <3>1, AnonAssumption DEF ReplaceAt
    <2>2. CASE text \in OneLess(a.text)
      <3>1. PICK i \in DOMAIN a.text : text = RemoveAt(a.text, i)
        BY <2>2, Zenon DEF OneLess
      <3>2. SubSeq(a.text, 1, i - 1) \in Seq(Nat)
        BY <1>1
      <3>3. SubSeq(a.text, i + 1, Len(a.text)) \in Seq(Nat)
        BY <1>1
      <3> QED
        BY <3>1, <3>2, <3>3 DEF RemoveAt
    <2>3. CASE text \in OneMore(a.text)
      <3>1. PICK c \in Typos : text = Append(a.text, c)
        BY <2>3, Zenon DEF OneMore
      <3> QED
        BY <1>1, <3>1, AnonAssumption
    <2> QED
      BY <1>2, <2>1, <2>2, <2>3, Zenon DEF Mistyped
  <1>3. PICK text \in Mistyped(a.text) : address' = (address \ {a}) \cup {[a EXCEPT !.text = text]}
    BY DEF Mistype
  <1>4. [a EXCEPT !.text = text] = [owner |-> a.owner, text |-> text]
    BY <1>1
  <1>5. \A x \in address' : IsAddress(x)
    BY <1>2, <1>3, <1>4 DEF AddressInv, IsAddress
  <1> QED
    BY <1>5 DEF Mistype, AddressInv, QueueInv, IsPublished, IsAddress

\* Every step keeps the invariant.
LEMMA AddressStep == AddressInv /\ [Next]_vars => AddressInv'
  <1> SUFFICES ASSUME AddressInv, [Next]_vars PROVE AddressInv'
    OBVIOUS
  <1>1. CASE UNCHANGED <<queue, published, address>>
    BY <1>1 DEF AddressInv, QueueInv, IsPublished, IsAddress
  <1>2. ASSUME NEW o \in Owners, NEW relay \in Relays,
               NEW id \in IF queue[o] = None THEN {}
                          ELSE {Id(queue[o][2]), [len |-> 1, val |-> 1]},
               Publish(o, relay, id)
        PROVE  AddressInv'
    <2>1. id = Id(queue[o][2]) \/ id = [len |-> 1, val |-> 1]
      BY <1>2
    <2> QED
      BY <1>2, <2>1, PublishStep
  <1> QED
    BY <1>1, <1>2, NewQueueStep, MistypeStep DEF Next, SendTo, Alter, Deliver, vars

\* Queues and addresses are always so.
LEMMA AddressInvariant == Spec => []AddressInv
  <1>1. Init => AddressInv
    BY DEF Init, AddressInv, QueueInv
  <1> QED
    BY <1>1, AddressStep, PTL DEF Spec

\* Every address that is accepted has one spelling, however it was mistyped.
THEOREM DecodedIsEncodedHolds == Spec => []DecodedIsEncoded
  <1>1. AddressInv => DecodedIsEncoded
    BY DecodedEncodes DEF AddressInv, IsAddress, DecodedIsEncoded
  <1> QED
    BY <1>1, AddressInvariant, PTL

\* An address that nobody changed leads to its owner's queue at its relay.
THEOREM AddressLeadsHomeHolds == Spec => []AddressLeadsHome
  <1>1. AddressInv => AddressLeadsHome
    <2> SUFFICES ASSUME AddressInv, NEW p \in published
        PROVE  decode_aqid(p.text) = [ok |-> TRUE, relay |-> p.relay,
                                      id |-> Id(queue[p.owner][2])]
      BY DEF AddressLeadsHome
    <2>1. IsPublished(p) /\ QueueInv
      BY DEF AddressInv
    <2>2. queue[p.owner][2] \in 0 .. 255
      BY <2>1, SenderIdType DEF IsPublished
    <2> QED
      BY <2>1, <2>2, EncodedDecodes DEF IsPublished
  <1> QED
    BY <1>1, AddressInvariant, PTL

\* No published address is read as the subscription of any queue.
THEOREM SubscriptionPrivateHolds == Spec => []SubscriptionPrivate
  <1>1. AddressInv => SubscriptionPrivate
    <2> SUFFICES ASSUME AddressInv, NEW p \in published, NEW o \in Owners, queue[o] # None
        PROVE  decode_aqid(p.text).id # Id(queue[o][1])
      BY DEF SubscriptionPrivate
    <2>1. IsPublished(p) /\ QueueInv
      BY DEF AddressInv
    <2>2. queue[p.owner][2] \in 0 .. 255
      BY <2>1, SenderIdType DEF IsPublished
    <2>a. decode_aqid(p.text) = [ok |-> TRUE, relay |-> p.relay, id |-> Id(queue[p.owner][2])]
      BY <2>1, <2>2, EncodedDecodes DEF IsPublished
    <2>3. decode_aqid(p.text).id = Id(queue[p.owner][2])
      BY <2>a
    <2>4. queue[p.owner][2] # queue[o][1]
      BY <2>1 DEF IsPublished, QueueInv
    <2>5. \A x, y : Id(x) = Id(y) => x = y
      BY DEF Id
    <2> QED
      BY <2>3, <2>4, <2>5
  <1> QED
    BY <1>1, AddressInvariant, PTL

-----------------------------------------------------------------------------
(* Mail.                                                                   *)

\* A tag is the one of something tagged, or it was cut and is no tag at all.
IsMail(m) ==
    /\ m = [relay |-> m.relay, to |-> m.to, nonce |-> m.nonce,
            message |-> m.message, tag |-> m.tag]
    /\ \/ \E t \in tagged : m.tag = <<t.owner, t.nonce \o t.message>>
       \/ \E x : m.tag = <<x>>

MailInv ==
    /\ \A m \in mail : IsMail(m)
    /\ AcceptedFromHolder

\* A message that is sent carries the tag of what is recorded.
LEMMA SendToStep ==
    ASSUME MailInv, NEW a \in address, NEW nonce \in Nonces, NEW message \in Bodies,
           SendTo(a, nonce, message)
    PROVE  MailInv'
  <1>t. PICK t : t = [owner |-> a.owner, nonce |-> nonce, message |-> message]
    OBVIOUS
  <1>2. tagged' = tagged \cup {t} /\ accepted' = accepted
    BY <1>t DEF SendTo
  <1>4. PICK relay, to :
            mail' = mail \cup {[relay |-> relay, to |-> to, nonce |-> nonce, message |-> message,
                                tag |-> <<a.owner, nonce \o message>>]}
    BY DEF SendTo, auth_tag
  <1>5. \A m \in mail : IsMail(m)'
    BY <1>2 DEF MailInv, IsMail
  <1>6. IsMail([relay |-> relay, to |-> to, nonce |-> nonce, message |-> message,
                tag |-> <<a.owner, nonce \o message>>])'
    <2>1. t \in tagged' /\ t.owner = a.owner /\ t.nonce = nonce /\ t.message = message
      BY <1>t, <1>2
    <2> QED
      BY <2>1 DEF IsMail
  <1>7. AcceptedFromHolder'
    BY <1>2 DEF MailInv, AcceptedFromHolder
  <1>9. \A m \in mail' : IsMail(m)'
    BY <1>4, <1>5, <1>6
  <1> QED
    BY <1>7, <1>9 DEF MailInv

\* An altered message keeps its tag, or has it cut.
LEMMA AlterStep ==
    ASSUME MailInv, NEW m \in mail, Alter(m)
    PROVE  MailInv'
  <1>1. IsMail(m) /\ tagged' = tagged /\ accepted' = accepted
    BY DEF MailInv, Alter
  <1>2. PICK k \in AlteredForms(m) : mail' = mail \cup {k}
    BY DEF Alter
  <1>3. IsMail(k)
    <2>1. CASE k \in OtherFields(m)
      <3>1. PICK n \in Fields : k \in {[m EXCEPT !.nonce = n, !.message = x] : x \in Fields}
        BY <2>1, Zenon DEF OtherFields
      <3>a. PICK x \in Fields : k = [m EXCEPT !.nonce = n, !.message = x]
        BY <3>1
      <3>2. k = [relay |-> m.relay, to |-> m.to, nonce |-> n, message |-> x, tag |-> m.tag]
        BY <1>1, <3>a DEF IsMail
      <3> QED
        BY <1>1, <3>2 DEF IsMail
    <2>2. CASE k \in OtherQueue(m)
      <3>1. PICK to : k = [m EXCEPT !.to = to]
        BY <2>2 DEF OtherQueue
      <3>2. k = [relay |-> m.relay, to |-> to, nonce |-> m.nonce, message |-> m.message,
                 tag |-> m.tag]
        BY <1>1, <3>1 DEF IsMail
      <3> QED
        BY <1>1, <3>2 DEF IsMail
    <2>3. CASE k = CutTag(m)
      <3>1. k = [relay |-> m.relay, to |-> m.to, nonce |-> m.nonce, message |-> m.message,
                 tag |-> SubSeq(m.tag, 1, 1)]
        BY <1>1, <2>3 DEF IsMail, CutTag
      <3>2. PICK x : SubSeq(m.tag, 1, 1) = <<x>>
        BY <1>1 DEF IsMail
      <3> QED
        BY <1>1, <3>1, <3>2 DEF IsMail
    <2> QED
      BY <2>1, <2>2, <2>3, Zenon DEF AlteredForms
  <1>4. \A x \in mail' : IsMail(x)'
    BY <1>1, <1>2, <1>3 DEF MailInv, IsMail
  <1> QED
    BY <1>1, <1>4 DEF MailInv, AcceptedFromHolder

\* What verifies was tagged for the owner who verifies it.
LEMMA DeliverStep ==
    ASSUME MailInv, NEW o \in Owners, NEW m \in mail, Deliver(o, m)
    PROVE  MailInv'
  <1>1. /\ IsMail(m) /\ m.tag = <<o, m.nonce \o m.message>>
        /\ tagged' = tagged /\ mail' = mail
        /\ accepted' = accepted \cup {[owner |-> o, nonce |-> m.nonce, message |-> m.message]}
    BY DEF MailInv, Deliver, verify_tag, auth_tag
  <1>2. PICK t \in tagged : m.tag = <<t.owner, t.nonce \o t.message>>
    <2>1. \A x : m.tag # <<x>>
      BY <1>1
    <2> QED
      BY <1>1, <2>1 DEF IsMail
  <1>3. t.owner = o /\ t.nonce \o t.message = m.nonce \o m.message
    <2>1. PICK v, w : v = t.nonce \o t.message /\ w = m.nonce \o m.message
      OBVIOUS
    <2>2. m.tag = <<t.owner, v>> /\ m.tag = <<o, w>>
      BY <1>1, <1>2, <2>1, Zenon
    <2>3. t.owner = o /\ v = w
      BY <2>2
    <2> QED
      BY <2>1, <2>3, Zenon
  <1>5. AcceptedFromHolder'
    <2> SUFFICES ASSUME NEW a \in accepted'
        PROVE  \E x \in tagged : /\ x.owner = a.owner
                                 /\ x.nonce \o x.message = a.nonce \o a.message
      BY <1>1 DEF AcceptedFromHolder
    <2>1. CASE a \in accepted
      BY <2>1 DEF MailInv, AcceptedFromHolder
    <2>2. CASE a = [owner |-> o, nonce |-> m.nonce, message |-> m.message]
      BY <1>3, <2>2
    <2> QED
      BY <1>1, <2>1, <2>2
  <1> QED
    BY <1>1, <1>5 DEF MailInv, IsMail

\* The bytes that an owner accepts were tagged with its secret, for any messages,
\* nonces and alterations; where the nonce ends in them is left open.
THEOREM AcceptedFromHolderHolds == Spec => []AcceptedFromHolder
  <1>1. Init => MailInv
    BY DEF Init, MailInv, AcceptedFromHolder
  <1>2. MailInv /\ [Next]_vars => MailInv'
    <2> SUFFICES ASSUME MailInv, [Next]_vars PROVE MailInv'
      OBVIOUS
    <2>1. CASE UNCHANGED <<mail, tagged, accepted>>
      BY <2>1 DEF MailInv, IsMail, AcceptedFromHolder
    <2> QED
      BY <2>1, SendToStep, AlterStep, DeliverStep
      DEF Next, NewQueue, Publish, Mistype, vars
  <1>3. MailInv => AcceptedFromHolder
    BY DEF MailInv
  <1> QED
    BY <1>1, <1>2, <1>3, PTL DEF Spec
=============================================================================
