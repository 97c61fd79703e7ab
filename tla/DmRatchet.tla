----------------------------- MODULE DmRatchet -----------------------------
(***************************************************************************)
(* The pure primitives of src/src/ratchet.rs: the message-key schedule,    *)
(* the re-key bound, and the wrapping of an epoch secret to a hybrid-KEM   *)
(* public key (the key-agreement message, KAM).                            *)
(*                                                                         *)
(* Cryptography is symbolic.  A derived key is the tuple of everything     *)
(* that enters its derivation, so two keys are equal exactly when their    *)
(* inputs are; a wrapped secret opens for the key pair it was wrapped to   *)
(* and for no other; a damaged ciphertext (Garbled) opens for nobody.      *)
(***************************************************************************)
EXTENDS Integers

CONSTANTS
    Keys,      \* hybrid key pairs; a pair stands for both of its halves
    BadKey,    \* a byte string that is no usable half of any pair
    Secrets,   \* what new_epoch_secret may draw
    None,      \* Rust's Option::None
    Garbled,   \* bytes that were damaged in transit
    MaxEpoch   \* bound: epoch numbers, u64 in the code

Epochs == 0..MaxEpoch

\* Wrapped epoch secrets, hybrid_ct || nonce || wrapped on the wire.
Kams == [to : Keys, secret : Secrets]

\* HKDF-SHA256 with the epoch in the salt and the index in the info.
derive_dm_message_key(secret, epoch, index) ==
    [secret |-> secret, epoch |-> epoch, index |-> index]

\* The keys some party can derive.
MessageKeys == [secret : Secrets, epoch : Epochs, index : Nat]

\* Mutant: the bound is compared with > instead of >=.
should_rekey_OffByOne(message_index, epoch_started_at, now, rekey_msg_bound, rekey_age) ==
    \/ message_index > rekey_msg_bound
    \/ now - epoch_started_at >= rekey_age

\* Message count OR age; the age is a difference of wall-clock readings and
\* is negative when the clock was set back.
should_rekey(message_index, epoch_started_at, now, rekey_msg_bound, rekey_age) ==
    \/ message_index >= rekey_msg_bound
    \/ now - epoch_started_at >= rekey_age

\* The error results (wrong public-key length, KEM error) are None.
wrap_dm_epoch_secret(secret, pub) ==
    IF pub \in Keys THEN [to |-> pub, secret |-> secret] ELSE None

\* The error results (payload or key length, and the AEAD failure behind which
\* ML-KEM's implicit rejection ends up) are None.
unwrap_dm_epoch_secret(kam, priv) ==
    IF kam \in Kams /\ kam.to = priv THEN kam.secret ELSE None

\* In-memory ratchet of one epoch; the two bounds are the session's.
Ratchets ==
    [epoch : Epochs, epoch_secret : Secrets, message_index : Nat, epoch_started_at : Nat]

with_bounds(epoch, secret, now) ==
    [epoch |-> epoch, epoch_secret |-> secret,
     message_index |-> 0, epoch_started_at |-> now]

\* Mutant: the counter is read but not advanced.
next_outbound_key_NotAdvanced(r) == r

\* Counter after next_outbound_key; the index it hands out is the old value.
next_outbound_key(r) == [r EXCEPT !.message_index = @ + 1]

\* The key next_outbound_key hands out, that of the index before it advances.
message_key(r) ==
    derive_dm_message_key(r.epoch_secret, r.epoch, r.message_index)
=============================================================================
