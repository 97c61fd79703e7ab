--------------------------- MODULE GroupRatchet ----------------------------
(***************************************************************************)
(* The group epoch ratchet of src/src/group_ratchet.rs, and a group that   *)
(* uses it.                                                                *)
(*                                                                         *)
(* The library gives the pieces: new_epoch_secret, wrap_epoch_secret,      *)
(* unwrap_epoch_secret and EpochRatchet.  Who belongs to the group, when   *)
(* an epoch is begun and which payload a member accepts is decided by the  *)
(* application (Rekey and Accept below), in the way the module's text      *)
(* says: one authoritative epoch number and secret, an epoch for every     *)
(* change of the roster and for every bound that is reached.               *)
(*                                                                         *)
(* Cryptography is symbolic.  A secret is an atom, a message key is the    *)
(* triple it is derived from, and a payload opens with the private key of  *)
(* the member it was wrapped to and with no other.                         *)
(***************************************************************************)
EXTENDS Integers, Sequences, FiniteSets, SequencesExt

CONSTANTS
    Members,         \* everybody who may belong to the group
    BadKeyed,        \* members whose published key has a wrong length
    Secrets,         \* what new_epoch_secret draws from
    Garbled,         \* bytes that are nobody's secret
    None,            \* no ratchet yet
    RekeyMsgBound,   \* rekey_msg_bound
    RekeyAge,        \* rekey_age_seconds
    MaxEpoch,        \* bound: epochs of the group
    MaxMessages,     \* bound: messages of the group
    MaxFaults,       \* bound: payloads damaged, members restarted
    MaxTime          \* bound: values of the clock

ASSUME GroupAssumption ==
    /\ IsFiniteSet(Members) /\ BadKeyed \subseteq Members
    /\ Garbled \notin Secrets
    /\ {RekeyMsgBound, RekeyAge, MaxEpoch, MaxMessages, MaxFaults, MaxTime} \subseteq Nat

Epochs == 0 .. MaxEpoch

-----------------------------------------------------------------------------
(* The library's pieces.                                                   *)

derive_message_key(secret, epoch, index) ==
    [secret |-> secret, epoch |-> epoch, index |-> index]

Errors == {"BadPayloadLen", "UnwrapFailed"}

\* What is wrapped to members: nothing to the ones whose key is refused.  The
\* epoch travels beside the payload, which says nothing of it.
Payloads == [epoch : Epochs, to : Members, secret : Secrets,
             form : {"whole", "damaged", "short"}]

wrap_epoch_secret(secret, epoch, to) ==
    {[epoch |-> epoch, to |-> m, secret |-> secret, form |-> "whole"] :
        m \in to \ BadKeyed}

\* Mutant: the wrap key does not depend on the KEM's shared secret.
unwrap_epoch_secret_AnyKey(p, m) ==
    CASE p.form = "short" -> "BadPayloadLen"
      [] p.form = "damaged" -> "UnwrapFailed"
      [] OTHER -> p.secret

\* Mutant: the tag is not checked.
unwrap_epoch_secret_NoTag(p, m) ==
    CASE p.form = "short" -> "BadPayloadLen"
      [] p.to # m -> "UnwrapFailed"
      [] p.form = "damaged" -> Garbled
      [] OTHER -> p.secret

\* The recovered secret, or the error.
unwrap_epoch_secret(p, m) ==
    CASE p.form = "short" -> "BadPayloadLen"
      [] p.to # m \/ p.form = "damaged" -> "UnwrapFailed"
      [] OTHER -> p.secret

EpochRatchets ==
    [epoch : Epochs, epoch_secret : Secrets, message_index : Nat,
     epoch_started_at : 0 .. MaxTime]

ASSUME NoneAssumption == None \notin EpochRatchets

EpochRatchet_new(epoch, secret, time) ==
    [epoch |-> epoch, epoch_secret |-> secret, message_index |-> 0,
     epoch_started_at |-> time]

\* A receiver passes the index that the message carries.
message_key(r, index) == derive_message_key(r.epoch_secret, r.epoch, index)

\* Mutant: the counter stays.
next_outbound_key_NotAdvanced(r) ==
    [index |-> r.message_index, key |-> message_key(r, r.message_index), ratchet |-> r]

\* Mutant: the key is derived after the counter has moved.
next_outbound_key_KeyOfNext(r) ==
    [index |-> r.message_index, key |-> message_key(r, r.message_index + 1),
     ratchet |-> [r EXCEPT !.message_index = @ + 1]]

\* The next message's index and key, and the ratchet after it.
next_outbound_key(r) ==
    [index |-> r.message_index, key |-> message_key(r, r.message_index),
     ratchet |-> [r EXCEPT !.message_index = @ + 1]]

\* Mutant: one message too many.
should_rekey_OffByOne(r, time) ==
    r.message_index > RekeyMsgBound \/ time - r.epoch_started_at >= RekeyAge

should_rekey(r, time) ==
    r.message_index >= RekeyMsgBound \/ time - r.epoch_started_at >= RekeyAge

-----------------------------------------------------------------------------
(* The group.                                                              *)

VARIABLES
    epoch,      \* the authoritative epoch, 0 before the first
    roster,     \* [Epochs -> SUBSET Members]: who belongs to each epoch
    drawn,      \* secrets drawn so far
    payloads,   \* wrapped secrets handed to the transport
    ratchet,    \* each member's EpochRatchet
    learned,    \* the secrets each member has ever unwrapped
    sent,       \* the messages, with the keys that sealed them
    life,       \* history: how often each member has restarted
    faults,     \* payloads damaged and members restarted so far
    now         \* the clock

vars == <<epoch, roster, drawn, payloads, ratchet, learned, sent, life, faults, now>>

Messages ==
    [from : Members, life : 0 .. MaxFaults, epoch : Epochs, index : Nat,
     key : [secret : Secrets, epoch : Epochs, index : Nat]]

\* The member's ratchet, for a member that has one.
HasRatchet(m) == ratchet[m] # None

Init ==
    /\ epoch = 0
    /\ roster = [e \in Epochs |-> {}]
    /\ drawn = {} /\ payloads = {}
    /\ ratchet = [m \in Members |-> None]
    /\ learned = [m \in Members |-> {}]
    /\ sent = << >> /\ life = [m \in Members |-> 0]
    /\ faults = 0 /\ now = 0

\* new_epoch_secret: 32 random bytes, so never drawn before.
new_epoch_secret == Secrets \ drawn

\* Why the application begins an epoch: the roster changes, or a ratchet says so.
RekeyDue(to) ==
    \/ to # roster[epoch]
    \/ \E m \in to : HasRatchet(m) /\ should_rekey(ratchet[m], now)

\* A new epoch for the members in to.
Rekey(to) ==
    /\ RekeyDue(to)
    /\ epoch < MaxEpoch
    /\ \E s \in new_epoch_secret :
        /\ drawn' = drawn \cup {s}
        /\ payloads' = payloads \cup wrap_epoch_secret(s, epoch + 1, to)
    /\ epoch' = epoch + 1
    /\ roster' = [roster EXCEPT ![epoch + 1] = to]
    /\ UNCHANGED <<ratchet, learned, sent, life, faults, now>>

\* A member is offered a payload, its own or another's, for an epoch newer than
\* the one it is in; payloads come late, in any order, again, or never.
Accept(m, p) ==
    /\ HasRatchet(m) => p.epoch > ratchet[m].epoch
    /\ LET secret == unwrap_epoch_secret(p, m) IN
        /\ secret \notin Errors
        /\ ratchet' = [ratchet EXCEPT ![m] = EpochRatchet_new(p.epoch, secret, now)]
        /\ learned' = [learned EXCEPT ![m] = @ \cup {secret}]
    /\ UNCHANGED <<epoch, roster, drawn, payloads, sent, life, faults, now>>

\* A member sends in the epoch it knows of, which may not be the current one, and
\* may be due for a re-key: next_outbound_key does not ask.
Send(m) ==
    /\ HasRatchet(m)
    /\ Len(sent) < MaxMessages
    /\ LET out == next_outbound_key(ratchet[m]) IN
        /\ sent' = Append(sent, [from |-> m, life |-> life[m],
                                 epoch |-> ratchet[m].epoch, index |-> out.index, key |-> out.key])
        /\ ratchet' = [ratchet EXCEPT ![m] = out.ratchet]
    /\ UNCHANGED <<epoch, roster, drawn, payloads, learned, life, faults, now>>

\* The transport damages or shortens a payload.
Damage(p) ==
    /\ faults < MaxFaults
    /\ p.form = "whole"
    /\ faults' = faults + 1
    /\ \E f \in {"damaged", "short"} :
        payloads' = (payloads \ {p}) \cup {[p EXCEPT !.form = f]}
    /\ UNCHANGED <<epoch, roster, drawn, ratchet, learned, sent, life, now>>

\* A member's process ends.  The library saves nothing: the member builds its
\* ratchet again from whichever payload it is offered next, an old one too.
Restart(m) ==
    /\ faults < MaxFaults
    /\ HasRatchet(m)
    /\ ratchet' = [ratchet EXCEPT ![m] = None]
    /\ life' = [life EXCEPT ![m] = @ + 1]
    /\ faults' = faults + 1
    /\ UNCHANGED <<epoch, roster, drawn, payloads, learned, sent, now>>

\* The wall clock takes any value, an earlier one too.
ClockStep ==
    /\ now' \in (0 .. MaxTime) \ {now}
    /\ UNCHANGED <<epoch, roster, drawn, payloads, ratchet, learned, sent, life, faults>>

Next ==
    \/ \E to \in SUBSET Members : Rekey(to)
    \/ \E m \in Members, p \in payloads : Accept(m, p)
    \/ \E m \in Members : Send(m)
    \/ \E p \in payloads : Damage(p)
    \/ \E m \in Members : Restart(m)
    \/ ClockStep

Spec == Init /\ [][Next]_vars

-----------------------------------------------------------------------------
\* Every variable has its type: no error result and no unauthenticated bytes of
\* unwrap_epoch_secret reach a ratchet or a key.
TypeOK ==
    /\ epoch \in Epochs
    /\ roster \in [Epochs -> SUBSET Members]
    /\ drawn \subseteq Secrets
    /\ payloads \subseteq Payloads
    /\ ratchet \in [Members -> EpochRatchets \cup {None}]
    /\ learned \in [Members -> SUBSET Secrets]
    /\ sent \in Seq(Messages)
    /\ life \in [Members -> 0 .. MaxFaults]
    /\ faults \in 0 .. MaxFaults
    /\ now \in 0 .. MaxTime

\* "A removed member cannot derive any future epoch's keys", and a new member
\* none of the epochs before it joined: whoever is outside an epoch's roster has
\* unwrapped no secret from which a key of that epoch's messages is derived,
\* whichever payloads it was offered and however late the sender was.
EpochIsolation ==
    \A msg \in ToSet(sent), m \in Members :
        m \notin roster[msg.epoch] => msg.key.secret \notin learned[m]

\* Loss and reordering do not matter inside an epoch: every member whose ratchet
\* is in a message's epoch derives the key it was sealed with from the index it
\* carries, whatever either of them sent or missed before.
ReadersAgree ==
    \A msg \in ToSet(sent), m \in Members :
        HasRatchet(m) /\ ratchet[m].epoch = msg.epoch
            => message_key(ratchet[m], msg.index) = msg.key

\* How far a message key is shared: by messages of one epoch and index only, each
\* of another sender, or of another life of a sender that restarted and began
\* the epoch again.  (The sender is no input of the key schedule.)
KeySharing ==
    \A i, j \in DOMAIN sent :
        i # j /\ sent[i].key = sent[j].key
            => /\ sent[i].epoch = sent[j].epoch /\ sent[i].index = sent[j].index
               /\ <<sent[i].from, sent[i].life>> # <<sent[j].from, sent[j].life>>

\* What an epoch carries before anybody is told to begin another: the counter is
\* each member's own, so with n members the messages of their present lives may
\* be n times one less than rekey_msg_bound, and not one more, while no ratchet
\* of the roster says should_rekey.  (Whether it is asked, and a member that was
\* told still sends, is up to the application: next_outbound_key never refuses.)
QuietEpochBudget ==
    ~ RekeyDue(roster[epoch]) =>
        LET present == {i \in DOMAIN sent : /\ sent[i].epoch = epoch
                                            /\ sent[i].life = life[sent[i].from]}
        IN  Cardinality(present) <= Cardinality(roster[epoch] \X (1 .. RekeyMsgBound - 1))
=============================================================================
