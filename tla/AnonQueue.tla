----------------------------- MODULE AnonQueue -----------------------------
(***************************************************************************)
(* The queue addresses and tags of src/src/anon_queue.rs, and the exchange *)
(* they are made for: an owner draws a pair of ids and hands out an        *)
(* address, the address is mistyped or cut on its way, a correspondent     *)
(* reads it and sends a tagged message, a transport alters messages, and   *)
(* the owner verifies what arrives.  Transport and relay are not part of   *)
(* the crate.                                                              *)
(*                                                                         *)
(* Texts are sequences of characters, at a reduced scale: a byte has four  *)
(* bits and a digit of the base64 alphabet three, so an id of two bytes    *)
(* takes three digits and leaves a spare bit, as one of sixteen bytes      *)
(* takes 22 digits and leaves four.                                        *)
(***************************************************************************)
EXTENDS Integers, Sequences, FiniteSets, SequencesExt

CONSTANTS
    Owners,      \* owners of queues; the name stands for the secret shared
    Ids,         \* what ids are drawn from: values of two bytes
    Relays,      \* relay locators that callers pass, good and bad
    Typos,       \* characters that a mistyped address may have
    Nonces,      \* nonces of senders
    Bodies,      \* messages
    Fields,      \* what an altered nonce or message may be
    None,
    MaxPublished,  \* bound: addresses handed out
    MaxMail,     \* bound: messages sent
    MaxTypos,    \* bound: addresses mistyped
    MaxFaults    \* bound: messages altered

ASSUME AnonAssumption ==
    /\ Ids \subseteq 0 .. 255
    /\ Relays \cup Nonces \cup Bodies \cup Fields \subseteq Seq(Nat) /\ Typos \subseteq Nat
    /\ {MaxPublished, MaxMail, MaxTypos, MaxFaults} \subseteq Nat

-----------------------------------------------------------------------------
(* Characters and base64.                                                  *)

Digits == 0 .. 7
Slash == 8
Dot == 9          \* a character that is neither
AQID_SCHEME == 10  \* "aqid:", as one
QUEUE_ID_LEN == 2

Id(val) == [len |-> QUEUE_ID_LEN, val |-> val]

\* Unpadded: the last digit is filled up with zero bits.
b64_encode(b) ==
    LET k == (4 * b.len + 2) \div 3
        v == b.val * 2 ^ (3 * k - 4 * b.len)
    IN  [i \in 1 .. k |-> (v \div 8 ^ (k - i)) % 8]

\* Only digits, no digit too many, and zeros in the spare bits.
b64_spare(text) == (3 * Len(text)) % 4
b64_value(text) ==
    LET upto[i \in 0 .. Len(text)] == IF i = 0 THEN 0 ELSE 8 * upto[i - 1] + text[i]
    IN  upto[Len(text)]
b64_valid(text) ==
    /\ ToSet(text) \subseteq Digits
    /\ b64_spare(text) < 3
    /\ b64_value(text) % 2 ^ b64_spare(text) = 0
b64_decode(text) ==
    [len |-> (3 * Len(text)) \div 4, val |-> b64_value(text) \div 2 ^ b64_spare(text)]

-----------------------------------------------------------------------------
(* Ids and addresses.                                                      *)

\* Mutant: the second id is not drawn again.
new_queue_pair_Any(fresh) == fresh \X fresh

\* <<recipient_id, sender_id>>: the second is drawn until it differs.
new_queue_pair(fresh) == {p \in fresh \X fresh : p[1] # p[2]}

Error(what) == [ok |-> FALSE, error |-> what]

\* Mutant: any relay that is not empty passes.
encode_aqid_AnyRelay(relay, id) ==
    IF relay = << >> THEN Error("BadRelay")
    ELSE IF id.len # QUEUE_ID_LEN THEN Error("BadIdLen")
    ELSE [ok |-> TRUE, text |-> <<AQID_SCHEME>> \o relay \o <<Slash>> \o b64_encode(id)]

encode_aqid(relay, id) ==
    IF relay = << >> \/ Contains(relay, Slash) THEN Error("BadRelay")
    ELSE IF id.len # QUEUE_ID_LEN THEN Error("BadIdLen")
    ELSE [ok |-> TRUE, text |-> <<AQID_SCHEME>> \o relay \o <<Slash>> \o b64_encode(id)]

\* Mutant: a longer id is cut to its first bytes.
decode_id_Cut(relay, b64) ==
    IF relay = << >> \/ b64 = << >> THEN Error("BadAddress")
    ELSE IF ~ b64_valid(b64) THEN Error("BadBase64")
    ELSE IF b64_decode(b64).len < QUEUE_ID_LEN THEN Error("BadIdLen")
    ELSE [ok |-> TRUE, relay |-> relay,
          id |-> Id(b64_decode(b64).val \div 2 ^ (4 * (b64_decode(b64).len - QUEUE_ID_LEN)))]

\* The two parts of an address, checked in the order of the code.
decode_id(relay, b64) ==
    IF relay = << >> \/ b64 = << >> THEN Error("BadAddress")
    ELSE IF ~ b64_valid(b64) THEN Error("BadBase64")
    ELSE IF b64_decode(b64).len # QUEUE_ID_LEN THEN Error("BadIdLen")
    ELSE [ok |-> TRUE, relay |-> relay, id |-> b64_decode(b64)]

\* The scheme, then the first slash separates relay and id.
decode_aqid(text) ==
    LET at == SelectInSeq(text, LAMBDA c : c = Slash)
    IN  IF text = << >> \/ text[1] # AQID_SCHEME \/ at = 0 THEN Error("BadAddress")
        ELSE decode_id(SubSeq(text, 2, at - 1), SubSeq(text, at + 1, Len(text)))

-----------------------------------------------------------------------------
(* Tags.                                                                   *)

\* Mutant: the nonce is left out.
auth_tag_NoNonce(secret, message, nonce) == <<secret, message>>

\* Mutant: the secret is left out.
auth_tag_NoSecret(secret, message, nonce) == <<"unkeyed", nonce \o message>>

\* One stream: nothing marks where the nonce ends.
auth_tag(secret, message, nonce) == <<secret, nonce \o message>>

verify_tag(secret, message, nonce, tag) == tag = auth_tag(secret, message, nonce)

-----------------------------------------------------------------------------
VARIABLES
    queue,      \* each owner's <<recipient_id, sender_id>>, or None
    published,  \* history: addresses as encode_aqid returned them
    address,    \* addresses that go round: [owner, text]
    typos,      \* addresses mistyped so far
    mail,       \* messages at relays
    tagged,     \* history: what was tagged for whom
    accepted,   \* history: what owners accepted
    faults      \* messages altered so far

vars == <<queue, published, address, typos, mail, tagged, accepted, faults>>

Init ==
    /\ queue = [o \in Owners |-> None]
    /\ published = {} /\ address = {} /\ typos = 0
    /\ mail = {} /\ tagged = {} /\ accepted = {} /\ faults = 0

Drawn == UNION {{queue[o][1], queue[o][2]} : o \in {x \in Owners : queue[x] # None}}

\* (Ids of different queues differ: they have 128 random bits.)
NewQueue(o) ==
    /\ queue[o] = None
    /\ \E pair \in new_queue_pair(Ids \ Drawn) : queue' = [queue EXCEPT ![o] = pair]
    /\ UNCHANGED <<published, address, typos, mail, tagged, accepted, faults>>

\* The owner hands out the address of its queue; a refused relay or an id of
\* another length changes nothing.
Publish(o, relay, id) ==
    /\ queue[o] # None
    /\ Cardinality(published) < MaxPublished
    /\ LET aqid == encode_aqid(relay, id) IN
        /\ aqid.ok
        /\ published' = published \cup {[owner |-> o, relay |-> relay, text |-> aqid.text]}
        /\ address' = address \cup {[owner |-> o, text |-> aqid.text]}
    /\ UNCHANGED <<queue, typos, mail, tagged, accepted, faults>>

\* A character changed, left out or added at the end.
OtherCharacter(text) == UNION {{ReplaceAt(text, i, c) : c \in Typos} : i \in DOMAIN text}
OneLess(text) == {RemoveAt(text, i) : i \in DOMAIN text}
OneMore(text) == {Append(text, c) : c \in Typos}
Mistyped(text) == OtherCharacter(text) \cup OneLess(text) \cup OneMore(text)

Mistype(a) ==
    /\ typos < MaxTypos
    /\ \E text \in Mistyped(a.text) : address' = (address \ {a}) \cup {[a EXCEPT !.text = text]}
    /\ typos' = typos + 1
    /\ UNCHANGED <<queue, published, mail, tagged, accepted, faults>>

\* A correspondent reads its address and sends; it shares the owner's secret.
SendTo(a, nonce, message) ==
    /\ Cardinality(tagged) < MaxMail
    /\ LET to == decode_aqid(a.text) IN
        /\ to.ok
        /\ mail' = mail \cup {[relay |-> to.relay, to |-> to.id, nonce |-> nonce,
                               message |-> message, tag |-> auth_tag(a.owner, message, nonce)]}
    /\ tagged' = tagged \cup {[owner |-> a.owner, nonce |-> nonce, message |-> message]}
    /\ UNCHANGED <<queue, published, address, typos, accepted, faults>>

\* The transport changes the fields, the queue, or the tag.
OtherFields(m) ==
    LET With(n) == {[m EXCEPT !.nonce = n, !.message = x] : x \in Fields}
    IN  UNION {With(n) : n \in Fields}
OtherQueue(m) == {[m EXCEPT !.to = Id(queue[o][2])] : o \in {x \in Owners : queue[x] # None}}
CutTag(m) == [m EXCEPT !.tag = SubSeq(m.tag, 1, 1)]
AlteredForms(m) == OtherFields(m) \cup OtherQueue(m) \cup {CutTag(m)}

Alter(m) ==
    /\ faults < MaxFaults
    /\ \E k \in AlteredForms(m) : mail' = mail \cup {k}
    /\ faults' = faults + 1
    /\ UNCHANGED <<queue, published, address, typos, tagged, accepted>>

\* The owner verifies what is in its queue, as often as it is delivered.
Deliver(o, m) ==
    /\ queue[o] # None /\ m.to = Id(queue[o][2])
    /\ verify_tag(o, m.message, m.nonce, m.tag)
    /\ accepted' = accepted \cup {[owner |-> o, nonce |-> m.nonce, message |-> m.message]}
    /\ UNCHANGED <<queue, published, address, typos, mail, tagged, faults>>

Next ==
    \/ \E o \in Owners : NewQueue(o)
    \/ \E o \in Owners, relay \in Relays :
        \E id \in IF queue[o] = None THEN {}
                  ELSE {Id(queue[o][2]), [len |-> 1, val |-> 1]} : Publish(o, relay, id)
    \/ \E a \in address : Mistype(a)
    \/ \E a \in address, nonce \in Nonces, message \in Bodies : SendTo(a, nonce, message)
    \/ \E m \in mail : Alter(m)
    \/ \E o \in Owners, m \in mail : Deliver(o, m)

Spec == Init /\ [][Next]_vars

-----------------------------------------------------------------------------
\* The address codec is exact: what decode_aqid accepts is what encode_aqid
\* writes for the result, so that no mistyped address, with other spare bits, a
\* further slash or a longer id, is read as another spelling of a queue.
DecodedIsEncoded ==
    \A a \in address :
        LET to == decode_aqid(a.text)
        IN  to.ok => encode_aqid(to.relay, to.id) = [ok |-> TRUE, text |-> a.text]

\* An address that nobody changed leads to its owner's queue at its relay.
AddressLeadsHome ==
    \A p \in published :
        decode_aqid(p.text) = [ok |-> TRUE, relay |-> p.relay, id |-> Id(queue[p.owner][2])]

\* "The recipient id ... never appears in an address": no published address
\* is read as the subscription of any queue, however many were drawn since.
SubscriptionPrivate ==
    \A p \in published, o \in Owners :
        queue[o] # None => decode_aqid(p.text).id # Id(queue[o][1])

\* "A valid tag proves the message came from someone who holds the shared
\* secret": the bytes that an owner accepts, nonce and then message, were tagged
\* with its secret, wherever a mistyped address or the transport brought them and
\* whatever was altered.  Where the nonce ends is not among what a tag proves.
AcceptedFromHolder ==
    \A a \in accepted :
        \E t \in tagged : t.owner = a.owner /\ t.nonce \o t.message = a.nonce \o a.message
=============================================================================
