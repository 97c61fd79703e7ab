----------------------------- MODULE PqDmProofs -----------------------------
(***************************************************************************)
(* Theorems about PqDm, for all parties, names and bounds: the downgrade   *)
(* lock holds, and messages that nobody altered decide as negotiated.      *)
(***************************************************************************)
EXTENDS PqDm, TextTheorems, TLAPS

-----------------------------------------------------------------------------
(* The lock's text.                                                        *)

\* The text of a name in the lock, as party by writes it.
NameText(by, name) ==
    IF by \in Pythonic THEN encode_string_ascii(name) ELSE serde_json_string(name)

\* The lock is the suite with both names, recipient first.
LEMMA LockText ==
    ASSUME NEW by, NEW suite, NEW p, NEW q
    PROVE  lock_aad(by, suite, p, q)
               = <<suite, NameText(by, Names[q]), NameText(by, Names[p])>>
  BY DEF lock_aad, python_lock_aad, downgrade_lock_aad, NameText

\* Two parties' names have different texts, whoever writes them: a text that is
\* read back can only be of one name.
LEMMA TextsApart ==
    ASSUME NEW a, NEW b, NEW p \in Parties, NEW q \in Parties,
           NameText(a, Names[p]) = NameText(b, Names[q])
    PROVE  p = q
  <1>1. parse_string(NameText(a, Names[p])) = Names[p]
    BY NamesAssumption, EncodedReadBack, SerdeReadBack DEF NameText
  <1>2. parse_string(NameText(b, Names[q])) = Names[q]
    BY NamesAssumption, EncodedReadBack, SerdeReadBack DEF NameText
  <1> QED
    BY <1>1, <1>2, NamesAssumption

\* The lock decides suite and parties (downgrade_lock_aad of two callers agree
\* only where all three arguments do).
LEMMA LockBinds ==
    ASSUME NEW a, NEW s, NEW p \in Parties, NEW q \in Parties,
           NEW b, NEW t, NEW x \in Parties, NEW y \in Parties,
           lock_aad(a, s, p, q) = lock_aad(b, t, x, y)
    PROVE  s = t /\ p = x /\ q = y
  <1>1. <<s, NameText(a, Names[q]), NameText(a, Names[p])>>
            = <<t, NameText(b, Names[y]), NameText(b, Names[x])>>
    BY LockText
  <1>2. /\ s = t
        /\ NameText(a, Names[q]) = NameText(b, Names[y])
        /\ NameText(a, Names[p]) = NameText(b, Names[x])
    BY <1>1
  <1> QED
    BY <1>2, TextsApart

-----------------------------------------------------------------------------
(* What travels.                                                           *)

\* The last unit of the blob that a recorded call of seal made.
BodyOf(s) ==
    LET aad == lock_aad(s.from, HYBRID_SUITE, s.from, s.to)
    IN  <<"body", wrap_key(combine(<<"x", s.n, s.to>>, <<"ml", s.n, s.to>>), aad), s.n, aad,
          s.msg>>

\* A recorded call.
IsCall(s) ==
    /\ s = [n |-> s.n, from |-> s.from, to |-> s.to, suite |-> s.suite, msg |-> s.msg]
    /\ s.from \in Parties /\ s.to \in Parties

\* A body that is not noise is one that was sealed, with its key, its lock and
\* its text; ciphertexts, nonces and names may be anything.
GoodBody(body) ==
    body = Noise \/ \E s \in sent : s.suite = HYBRID_SUITE /\ body = BodyOf(s)

\* A message is a record; its blob has three units or was cut.
IsMessage(m) ==
    /\ m = [from |-> m.from, to |-> m.to, blob |-> m.blob]
    /\ m.from \in Parties /\ m.to \in Parties
    /\ \/ Len(m.blob) # 3
       \/ m.blob = <<m.blob[1], m.blob[2], m.blob[3]>> /\ GoodBody(m.blob[3])

\* The inductive invariant.
DmInv ==
    /\ \A s \in sent : IsCall(s)
    /\ \A m \in net : IsMessage(m)
    /\ OpenedAsNegotiated

\* A body stays good while calls are only added.
LEMMA GoodBodyKept ==
    ASSUME sent \subseteq sent', NEW m, IsMessage(m)
    PROVE  IsMessage(m)'
  <1>1. ASSUME NEW b, GoodBody(b) PROVE GoodBody(b)'
    BY <1>1 DEF GoodBody, BodyOf, Noise, HYBRID_SUITE, lock_aad
  <1> QED
    BY <1>1 DEF IsMessage

\* Sending adds one record and, if hybrid was negotiated, one message with its
\* body.
LEMMA SendStep ==
    ASSUME DmInv, NEW p \in Parties, NEW q \in Parties, NEW msg, Send(p, q, msg)
    PROVE  DmInv'
  <1>n. PICK n : n = Cardinality(sent)
    OBVIOUS
  <1>s. PICK s : s = [n |-> n, from |-> p, to |-> q, suite |-> SuiteOf(p, q), msg |-> msg]
    OBVIOUS
  <1> DEFINE m == [from |-> p, to |-> q, blob |-> seal(msg, q, p, q, n)]
  <1>1. sent' = sent \cup {s}
    BY <1>n, <1>s DEF Send
  <1>2. \A x \in sent' : IsCall(x)
    BY <1>1, <1>s DEF DmInv, IsCall
  <1>3. ASSUME SuiteOf(p, q) = HYBRID_SUITE PROVE IsMessage(m)'
    <2>1. m.blob = <<m.blob[1], m.blob[2], m.blob[3]>>
      BY DEF seal
    <2>2. m.blob[3] = BodyOf(s)
      BY <1>s DEF seal, BodyOf, hybrid_encap
    <2>3. GoodBody(m.blob[3])'
      BY <1>1, <1>3, <1>s, <2>2 DEF GoodBody, BodyOf
    <2> QED
      BY <2>1, <2>3 DEF IsMessage
  <1>4. \A k \in net' : IsMessage(k)'
    BY <1>n, <1>1, <1>3, GoodBodyKept DEF Send, DmInv
  <1>5. OpenedAsNegotiated'
    BY <1>1 DEF Send, DmInv, OpenedAsNegotiated
  <1> QED
    BY <1>2, <1>4, <1>5 DEF DmInv, IsCall

\* What open_sealed returns Ok for: the body was sealed to the holder of the
\* key, by the sender named, as hybrid, and the ciphertext is the body's.
LEMMA OpenAuthentic ==
    ASSUME DmInv, NEW q \in Parties, NEW m \in net, NEW priv, priv \in {q, BadKey},
           NEW suite, open_sealed(m.blob, priv, m.from, q, suite) = "Ok"
    PROVE  \E s \in sent :
               /\ suite = HYBRID_SUITE /\ s.suite = HYBRID_SUITE
               /\ s.from = m.from /\ s.to = q
               /\ m.blob[1][2] = s.n /\ m.blob[3][5] = s.msg
  <1> DEFINE aad == lock_aad(q, suite, m.from, q)
             body == m.blob[3]
             ct == m.blob[1]
  <1>1. /\ Len(m.blob) = 3 /\ priv = q
        /\ body[1] = "body"
        /\ body[2] = wrap_key(hybrid_decap(ct, q), aad)
        /\ body[4] = aad
    BY DEF open_sealed
  <1>2. IsMessage(m)
    BY DEF DmInv
  <1>3. PICK s \in sent : s.suite = HYBRID_SUITE /\ body = BodyOf(s)
    BY <1>1, <1>2 DEF IsMessage, GoodBody, Noise
  <1>4. IsCall(s) /\ m.from \in Parties
    BY <1>2 DEF DmInv, IsMessage
  <1>5. aad = lock_aad(s.from, HYBRID_SUITE, s.from, s.to)
    BY <1>1, <1>3 DEF BodyOf
  <1>6. suite = HYBRID_SUITE /\ m.from = s.from /\ q = s.to
    BY <1>4, <1>5, LockBinds DEF IsCall
  <1>7. hybrid_decap(ct, q) = combine(<<"x", s.n, s.to>>, <<"ml", s.n, s.to>>)
    BY <1>1, <1>3 DEF BodyOf, wrap_key
  <1>8. ct[2] = s.n
    BY <1>7 DEF hybrid_decap, combine, Noise
  <1> QED
    BY <1>3, <1>6, <1>8 DEF BodyOf

\* So opening records only what was sent.
LEMMA ReceiveStep ==
    ASSUME DmInv, NEW q \in Parties, NEW m \in net, NEW priv, priv \in {q, BadKey},
           Receive(q, m, priv)
    PROVE  DmInv'
  <1>s. PICK suite : suite = SuiteOf(q, m.from)
    OBVIOUS
  <1> DEFINE o == [n |-> m.blob[1][2], from |-> m.from, to |-> q, suite |-> suite,
                    msg |-> m.blob[3][5]]
  <1>1. ASSUME open_sealed(m.blob, priv, m.from, q, suite) = "Ok"
        PROVE  o \in sent /\ o.suite = HYBRID_SUITE
    <2>1. PICK s \in sent :
               /\ suite = HYBRID_SUITE /\ s.suite = HYBRID_SUITE
               /\ s.from = m.from /\ s.to = q
               /\ m.blob[1][2] = s.n /\ m.blob[3][5] = s.msg
      BY <1>1, <1>s, OpenAuthentic
    <2>2. o = s
      BY <2>1 DEF DmInv, IsCall
    <2> QED
      BY <2>1, <2>2
  <1>2. OpenedAsNegotiated'
    BY <1>s, <1>1 DEF Receive, DmInv, OpenedAsNegotiated
  <1>3. \A k \in net : IsMessage(k)'
    BY GoodBodyKept DEF Receive, DmInv
  <1> QED
    BY <1>2, <1>3 DEF Receive, DmInv, IsCall

\* A copy with another ciphertext, nonce or body, or with other names on it, has
\* a body of some message on its way, or noise.
LEMMA AlteredStillGood ==
    ASSUME DmInv, NEW m \in Whole, NEW a \in AlteredForms(m)
    PROVE  IsMessage(a)
  <1> DEFINE b == m.blob
  <1>1. /\ m = [from |-> m.from, to |-> m.to, blob |-> b]
        /\ m.from \in Parties /\ m.to \in Parties
        /\ b = <<b[1], b[2], b[3]>> /\ GoodBody(b[3])
    BY DEF DmInv, IsMessage, Whole
  <1>2. \A k \in Whole : GoodBody(k.blob[3])
    BY DEF DmInv, IsMessage, Whole
  <1>3. ASSUME NEW i \in {1, 2}, NEW v PROVE IsMessage([m EXCEPT !.blob[i] = v])
    <2>1. [m EXCEPT !.blob[i] = v] = [from |-> m.from, to |-> m.to, blob |-> [b EXCEPT ![i] = v]]
      BY <1>1
    <2>2. [b EXCEPT ![i] = v] = <<[b EXCEPT ![i] = v][1], [b EXCEPT ![i] = v][2], b[3]>>
      BY <1>1
    <2> QED
      BY <1>1, <2>1, <2>2 DEF IsMessage
  <1>4. ASSUME NEW v, GoodBody(v) PROVE IsMessage([m EXCEPT !.blob[3] = v])
    <2>1. [m EXCEPT !.blob[3] = v] = [from |-> m.from, to |-> m.to, blob |-> [b EXCEPT ![3] = v]]
      BY <1>1
    <2>2. [b EXCEPT ![3] = v] = <<b[1], b[2], v>>
      BY <1>1
    <2> QED
      BY <1>1, <1>4, <2>1, <2>2 DEF IsMessage
  <1>5. ASSUME NEW i \in {2, 3}, NEW v PROVE [m EXCEPT !.blob[1][i] = v]
            = [m EXCEPT !.blob[1] = [b[1] EXCEPT ![i] = v]]
    BY <1>1
  <1>6. CASE a \in OtherLegs(m)
    <2>1. PICK i \in {2, 3} : \E v : a = [m EXCEPT !.blob[1][i] = v]
      BY <1>6 DEF OtherLegs
    <2> QED
      BY <1>3, <1>5, <2>1
  <1>7. CASE a \in OtherUnits(m)
    <2>1. \/ \E v : a = [m EXCEPT !.blob[2] = v]
          \/ \E v \in {Noise} \cup {k.blob[3] : k \in Whole} : a = [m EXCEPT !.blob[3] = v]
      BY <1>7 DEF OtherUnits
    <2>2. \A v \in {Noise} \cup {k.blob[3] : k \in Whole} : GoodBody(v)
      BY <1>2 DEF GoodBody
    <2> QED
      BY <1>3, <1>4, <2>1, <2>2
  <1>8. CASE a \in Relabelled(m)
    <2>1. PICK who \in Parties \X Parties : a = [m EXCEPT !.from = who[1], !.to = who[2]]
      BY <1>8 DEF Relabelled
    <2>2. a = [from |-> who[1], to |-> who[2], blob |-> b]
      BY <1>1, <2>1
    <2> QED
      BY <1>1, <2>2 DEF IsMessage
  <1> QED
    BY <1>6, <1>7, <1>8 DEF AlteredForms

\* A cut message no longer has three units.
LEMMA CutShort ==
    ASSUME DmInv, NEW m \in Whole
    PROVE  IsMessage([m EXCEPT !.blob = SubSeq(m.blob, 1, 2)])
  <1> DEFINE b == m.blob
             S == {b[1], b[2], b[3]}
  <1>1. /\ m = [from |-> m.from, to |-> m.to, blob |-> b]
        /\ m.from \in Parties /\ m.to \in Parties
        /\ b = <<b[1], b[2], b[3]>>
    BY DEF DmInv, IsMessage, Whole
  <1>2. b \in Seq(S) /\ Len(b) = 3
    <2>1. ASSUME NEW x, NEW y, NEW z
          PROVE  <<x, y, z>> \in Seq({x, y, z}) /\ Len(<<x, y, z>>) = 3
      OBVIOUS
    <2>2. <<b[1], b[2], b[3]>> \in Seq({b[1], b[2], b[3]}) /\ Len(<<b[1], b[2], b[3]>>) = 3
      BY <2>1, Zenon
    <2> QED
      BY <1>1, <2>2, Zenon
  <1>3. Len(SubSeq(b, 1, 2)) = 2
    BY <1>2
  <1>4. [m EXCEPT !.blob = SubSeq(b, 1, 2)]
            = [from |-> m.from, to |-> m.to, blob |-> SubSeq(b, 1, 2)]
    BY <1>1
  <1> QED
    BY <1>1, <1>3, <1>4 DEF IsMessage

\* So whatever the transport does, no body appears that was not sealed.
LEMMA AlterStep ==
    ASSUME DmInv, NEW m \in Whole, Alter(m)
    PROVE  DmInv'
  <1>1. \A k \in net' : IsMessage(k)
    BY AlteredStillGood, CutShort DEF Alter, DmInv
  <1>2. \A k \in net' : IsMessage(k)'
    BY <1>1, GoodBodyKept DEF Alter
  <1> QED
    BY <1>2 DEF Alter, DmInv, IsCall, OpenedAsNegotiated

\* Every step keeps the invariant.
LEMMA DmStep == DmInv /\ [Next]_vars => DmInv'
  <1> SUFFICES ASSUME DmInv, [Next]_vars PROVE DmInv'
    OBVIOUS
  <1>1. ASSUME NEW p \in Parties, NEW q \in Parties, DropPrekey(p, q) PROVE DmInv'
    <2>1. \A k \in net : IsMessage(k)'
      BY <1>1, GoodBodyKept DEF DropPrekey, DmInv
    <2> QED
      BY <1>1, <2>1 DEF DropPrekey, DmInv, IsCall, OpenedAsNegotiated
  <1>2. CASE UNCHANGED vars
    <2>1. \A k \in net : IsMessage(k)'
      BY <1>2, GoodBodyKept DEF vars, DmInv
    <2> QED
      BY <1>2, <2>1 DEF vars, DmInv, IsCall, OpenedAsNegotiated
  <1> QED
    BY <1>1, <1>2, SendStep, ReceiveStep, AlterStep DEF Next

\* It holds initially, where nothing was sent.
LEMMA DmInit == Init => DmInv
  BY DEF Init, DmInv, OpenedAsNegotiated

\* The invariant holds in every state.
LEMMA DmInvariant == Spec => []DmInv
  BY DmInit, DmStep, PTL DEF Spec

\* The downgrade lock holds for any number of parties, messages and faults: what
\* open_sealed returns was sealed to that party by the sender named on it, with
\* that text, and both sides hold it for hybrid.
THEOREM OpenedAsNegotiatedHolds == Spec => []OpenedAsNegotiated
  <1>1. DmInv => OpenedAsNegotiated
    BY DEF DmInv
  <1> QED
    BY <1>1, DmInvariant, PTL

-----------------------------------------------------------------------------
(* Messages nobody altered.                                                *)

\* Names that both implementations write alike: characters up to the tilde.
AsciiNames == \A p \in Parties : \A i \in DOMAIN Names[p] : Names[p][i] \in 0 .. 126

\* On those, encode_string_ascii and serde_json give one text.
LEMMA AsciiSameText ==
    ASSUME NEW s, \A i \in DOMAIN s : s[i] \in 0 .. 126
    PROVE  encode_string_ascii(s) = serde_json_string(s)
  <1>1. ASSUME NEW c \in 0 .. 126 PROVE encode_char_ascii(c) = serde_json_char(c)
    BY DEF encode_char_ascii, serde_json_char
  <1>2. [i \in DOMAIN s |-> encode_char_ascii(s[i])] = [i \in DOMAIN s |-> serde_json_char(s[i])]
    BY <1>1
  <1> QED
    BY <1>2 DEF encode_string_ascii, serde_json_string

\* A message that nobody altered decides by the suite alone, whichever
\* implementations are at its ends: with ASCII names, or with one implementation.
THEOREM UnalteredDecidesHolds ==
    ASSUME AsciiNames \/ Pythonic = {} \/ Pythonic = Parties
    PROVE  Spec => []UnalteredDecides
  <1>1. DmInv => UnalteredDecides
    <2> SUFFICES ASSUME DmInv, NEW s \in sent, s.suite = HYBRID_SUITE
        PROVE  open_sealed(seal(s.msg, s.to, s.from, s.to, s.n), s.to, s.from, s.to,
                           SuiteOf(s.to, s.from))
                   = IF SuiteOf(s.to, s.from) = HYBRID_SUITE THEN "Ok"
                     ELSE "DowngradeDetected"
      BY DEF UnalteredDecides
    <2> DEFINE blob == seal(s.msg, s.to, s.from, s.to, s.n)
               suite == SuiteOf(s.to, s.from)
               mine == lock_aad(s.from, HYBRID_SUITE, s.from, s.to)
               aad == lock_aad(s.to, suite, s.from, s.to)
               shared == combine(<<"x", s.n, s.to>>, <<"ml", s.n, s.to>>)
    <2>1. s.from \in Parties /\ s.to \in Parties /\ s.to # BadKey
      BY DmAssumption DEF DmInv, IsCall
    <2>2. blob = <<<<"ct", s.n, <<s.n, s.to>>>>, <<"nonce", s.n>>,
                   <<"body", wrap_key(shared, mine), s.n, mine, s.msg>>>>
      BY DEF seal, hybrid_encap
    <2>3. hybrid_decap(blob[1], s.to) = shared
      BY <2>2 DEF hybrid_decap, Noise
    <2>4. CASE suite = HYBRID_SUITE
      <3>1. aad = mine
        <4>1. \A p \in Parties : NameText(s.to, Names[p]) = NameText(s.from, Names[p])
          BY <2>1, AsciiSameText DEF NameText, AsciiNames
        <4> QED
          BY <2>1, <2>4, <4>1, LockText
      <3> QED
        BY <2>1, <2>2, <2>3, <2>4, <3>1 DEF open_sealed, SEALED_MIN_LEN
    <2>5. CASE suite # HYBRID_SUITE
      <3>1. aad # mine
        BY <2>1, <2>5, LockBinds
      <3> QED
        BY <2>1, <2>2, <2>5, <3>1 DEF open_sealed, SEALED_MIN_LEN
    <2> QED
      BY <2>4, <2>5
  <1> QED
    BY <1>1, DmInvariant, PTL
=============================================================================
