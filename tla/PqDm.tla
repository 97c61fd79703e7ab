------------------------------- MODULE PqDm --------------------------------
(***************************************************************************)
(* The message seal of src/src/pqdm.rs: parties that negotiate a suite     *)
(* from the prekeys they see, seal under a downgrade lock and open what    *)
(* reaches them, over a directory that may drop prekeys and a transport    *)
(* that may damage, mislabel and misdeliver.                               *)
(*                                                                         *)
(* A sealed blob is <<ct, nonce, body>>, one unit each.                    *)
(***************************************************************************)
EXTENDS HybridKem, JsonText, FiniteSets

CONSTANTS
    Parties,     \* parties, named by their key pairs
    Capable,     \* those who support the hybrid suite and publish a prekey
    Names,       \* [Parties -> strings]: what they are called
    Pythonic,    \* those who run the Python implementation, not this crate
    BadKey,      \* a private key of a wrong length
    Plaintexts,
    MaxSeals,    \* bound: calls of seal
    MaxFaults    \* bound: prekeys dropped, messages damaged or mislabelled

ASSUME DmAssumption ==
    /\ Capable \subseteq Parties /\ Pythonic \subseteq Parties
    /\ BadKey \notin Parties
    /\ MaxSeals \in Nat /\ MaxFaults \in Nat

\* Different parties have different names.
ASSUME NamesAssumption ==
    /\ \A p, q \in Parties : Names[p] = Names[q] => p = q
    /\ \A p \in Parties : Names[p] \in Seq(CodePoints)

HYBRID_SUITE == "hybrid"
CLASSICAL_SUITE == "classical"
SEALED_MIN_LEN == 3

-----------------------------------------------------------------------------
negotiate_suite(local_supports_hybrid, recipient_has_hybrid) ==
    IF local_supports_hybrid /\ recipient_has_hybrid THEN HYBRID_SUITE ELSE CLASSICAL_SUITE

\* A JSON object of three strings, its members in the order of their names.
downgrade_lock_aad(suite, sender, recipient) ==
    <<suite, serde_json_string(recipient), serde_json_string(sender)>>

\* json.dumps({...}, sort_keys=True, separators=(",", ":")).
python_lock_aad(suite, sender, recipient) ==
    <<suite, encode_string_ascii(recipient), encode_string_ascii(sender)>>

\* Mutant: the parties are left out.
lock_aad_SuiteOnly(by, suite, p, q) == <<suite>>

\* The lock as party by builds it.
lock_aad(by, suite, p, q) ==
    IF by \in Pythonic THEN python_lock_aad(suite, Names[p], Names[q])
    ELSE downgrade_lock_aad(suite, Names[p], Names[q])

wrap_key(shared, aad) == <<shared, aad>>

\* (With a public key of a wrong length, or when encapsulation fails, the call
\* returns an error and leaves nothing behind: seal keeps no state.)
seal(plaintext, pub, sender, recipient, n) ==
    LET aad == lock_aad(sender, HYBRID_SUITE, sender, recipient)
        kem == hybrid_encap(pub, n)
    IN  <<kem.ct, <<"nonce", n>>,
          <<"body", wrap_key(kem.shared, aad), n, aad, plaintext>>>>

\* How open_sealed ends.
open_sealed(blob, priv, sender, recipient, expected_suite) ==
    LET aad == lock_aad(recipient, expected_suite, sender, recipient)
        key == wrap_key(hybrid_decap(blob[1], priv), aad)
    IN  IF Len(blob) < SEALED_MIN_LEN THEN "Format"
        ELSE IF priv = BadKey THEN "Kem"
        ELSE IF /\ Len(blob) = 3 /\ blob[3][1] = "body" /\ blob[2][1] = "nonce"
                /\ blob[3][2] = key /\ blob[3][3] = blob[2][2] /\ blob[3][4] = aad
        THEN "Ok"
        ELSE "DowngradeDetected"

-----------------------------------------------------------------------------
VARIABLES
    prekey,   \* prekey[p][q]: whether p finds a hybrid prekey of q
    net,      \* messages on their way: a blob with the names on it
    sent,     \* history: the calls of seal and the suites recorded for them
    opened,   \* history: what open_sealed returned
    last,     \* how the last call of open_sealed ended
    faults    \* faults so far

vars == <<prekey, net, sent, opened, last, faults>>

Init ==
    /\ prekey = [p \in Parties |-> [q \in Parties |-> q \in Capable]]
    /\ net = {} /\ sent = {} /\ opened = {} /\ last = "none" /\ faults = 0

\* The suite a party would use with another, as it sees things now.
SuiteOf(p, q) == negotiate_suite(p \in Capable, prekey[p][q])

\* A party sends: hybrid if negotiated, else by the classical path, which is not
\* part of this crate; either way the suite is recorded.
Send(p, q, msg) ==
    /\ p # q
    /\ Cardinality(sent) < MaxSeals
    /\ LET n == Cardinality(sent) IN
        /\ sent' = sent \cup {[n |-> n, from |-> p, to |-> q, suite |-> SuiteOf(p, q),
                               msg |-> msg]}
        /\ net' = IF SuiteOf(p, q) = HYBRID_SUITE
                  THEN net \cup {[from |-> p, to |-> q, blob |-> seal(msg, q, p, q, n)]}
                  ELSE net
    /\ UNCHANGED <<prekey, opened, last, faults>>

\* A party opens what is addressed to it, with the suite it would negotiate with
\* the sender named on it, and its own private key or a malformed one.
Receive(q, m, priv) ==
    /\ m.to = q
    /\ LET suite == SuiteOf(q, m.from)
           status == open_sealed(m.blob, priv, m.from, q, suite)
       IN  /\ last' = status
           /\ opened' = IF status = "Ok"
                        THEN opened \cup {[n |-> m.blob[1][2], from |-> m.from, to |-> q,
                                           suite |-> suite, msg |-> m.blob[3][5]]}
                        ELSE opened
    /\ UNCHANGED <<prekey, net, sent, faults>>

-----------------------------------------------------------------------------
\* The directory stops showing p the prekey of q.
DropPrekey(p, q) ==
    /\ faults < MaxFaults /\ prekey[p][q]
    /\ prekey' = [prekey EXCEPT ![p][q] = FALSE]
    /\ faults' = faults + 1
    /\ UNCHANGED <<net, sent, opened, last>>

Whole == {m \in net : Len(m.blob) = 3}

\* A leg of the ciphertext garbled or of another message.
OtherLegs(m) ==
    {[m EXCEPT !.blob[1][2] = k.blob[1][2]] : k \in Whole}
    \cup {[m EXCEPT !.blob[1][3] = leg] : leg \in {Noise} \cup {k.blob[1][3] : k \in Whole}}

\* The nonce or the body garbled or of another message.
OtherUnits(m) ==
    {[m EXCEPT !.blob[2] = unit] : unit \in {Noise} \cup {k.blob[2] : k \in Whole}}
    \cup {[m EXCEPT !.blob[3] = unit] : unit \in {Noise} \cup {k.blob[3] : k \in Whole}}

\* Other names on it.
Relabelled(m) == {[m EXCEPT !.from = who[1], !.to = who[2]] : who \in Parties \X Parties}

AlteredForms(m) == OtherLegs(m) \cup OtherUnits(m) \cup Relabelled(m)

\* The transport alters a copy of a message, or cuts a message short.
Alter(m) ==
    /\ faults < MaxFaults
    /\ net' \in {net \cup {k} : k \in AlteredForms(m)}
                \cup {(net \ {m}) \cup {[m EXCEPT !.blob = SubSeq(m.blob, 1, 2)]}}
    /\ faults' = faults + 1
    /\ UNCHANGED <<prekey, sent, opened, last>>

Next ==
    \/ \E p \in Parties, q \in Parties, msg \in Plaintexts : Send(p, q, msg)
    \/ \E q \in Parties, m \in net : \E priv \in {q, BadKey} : Receive(q, m, priv)
    \/ \E p \in Parties, q \in Parties : DropPrekey(p, q)
    \/ \E m \in Whole : Alter(m)

Spec == Init /\ [][Next]_vars

-----------------------------------------------------------------------------
\* The lock holds: what a party gets from open_sealed was sealed to it, by the
\* sender named, with that text, and both sides hold it for hybrid; whatever
\* prekeys were dropped between, whatever was altered, mislabelled or mixed.
OpenedAsNegotiated ==
    \A o \in opened : o \in sent /\ o.suite = HYBRID_SUITE

\* "An AEAD sealed by one opens on the other": a sealed message that nobody
\* altered opens, in either implementation, exactly if the recipient, as it sees
\* things now, would negotiate the hybrid suite with the sender; else the
\* disagreement is reported.
UnalteredDecides ==
    \A s \in {x \in sent : x.suite = HYBRID_SUITE} :
        open_sealed(seal(s.msg, s.to, s.from, s.to, s.n), s.to, s.from, s.to,
                    SuiteOf(s.to, s.from))
            = IF SuiteOf(s.to, s.from) = HYBRID_SUITE THEN "Ok" ELSE "DowngradeDetected"
=============================================================================
