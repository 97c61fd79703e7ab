# TLA+ verification of sk-pqc

`sk-pqc` is a Rust crate of hybrid post-quantum messaging primitives. It does no
I/O and starts no threads. What makes it hard to test is what it is used for:
sessions at two ends of a transport that loses, repeats, reorders and damages
frames, on hosts that restart and whose clock is set back. This project models
those uses. Cryptography is symbolic throughout: a secret is an atom, a derived
key is the tuple of its inputs, a ciphertext opens with the key, nonce and
associated data it was made with and with nothing else, and random draws never
repeat. Attacks on the primitives are outside.

## Inventory

| part | state | operations | interacts with | hard behaviour | correct when |
|---|---|---|---|---|---|
| `ratchet.rs` | `DmRatchet`: epoch, secret, counter, start time | `next_outbound_key`, `message_key`, `should_rekey`, wrap and unwrap of an epoch secret | `kem` | bounds at the edge, a clock set back | no key used twice, an epoch within its bound |
| `dm_session.rs` | `DmSession`: ratchet, `{epoch -> secret}`, current KAM | `seal`, `open`, `snapshot`, `restore` | `ratchet`; the application saves snapshots; a transport carries frames | loss, reordering, damage, restart between calls, failure in mid-call, both directions at once | every undamaged frame of a known epoch opens; open returns what was sealed |
| token codec (`SealedDmFrame`) | cursor over a blob | `to_token`, `from_token` | `open` reads what was parsed | length fields at the edge of a buffer and of `usize` | accepts exactly what it produces |
| `group_ratchet.rs` | `EpochRatchet` per member | `new_epoch_secret`, wrap, unwrap, `next_outbound_key`, `message_key`, `should_rekey` | `kem`; the application owns roster and delivery | late members and senders, roster changes with payloads under way | nobody outside an epoch reads it; members derive equal keys |
| `kem.rs` | none | `hybrid_keypair`, `hybrid_encap`, `hybrid_decap` | used by all of the above | implicit rejection (a wrong key gives a wrong secret, not an error) | both legs are bound into the secret |
| `pqroute.rs` | none; an envelope on its way | `seal_routed`, `read_route_header`, `replace_route_header`, `open_routed`, canonical JSON | `kem`; relays rewrite headers | headers changed or re-encoded on the way, two length-prefixed layouts | a changed header does not open |
| `pqdm.rs` | none | `seal`, `open_sealed`, `negotiate_suite`, downgrade-lock AAD | `kem` | names outside ASCII, disagreement about the suite | a changed suite or party does not open |
| `anon_queue.rs` | none; queue pairs held by the application | `new_queue_pair`, `encode_aqid`, `decode_aqid`, `auth_tag`, `verify_tag` | none | mistyped addresses, where one field ends and the next begins | the codec is exact, the subscription id stays private, what is accepted came from a holder of the secret |
| `suites.rs` | `Registry` of suites, and a process-wide one | `register`, lookups, listings | `report` | a second registration of an id, rows in hash-map order | the status used is the status registered, an unknown one is the weakest |
| `report.rs` | none; surfaces and reports held by the application | two surface builders, honesty check, `from_surfaces`, `honest_claim` | `suites` (the process-wide registry only) | texts made of the caller's names, fields changed after the check | no claim beyond the weakest surface |
| `python.rs`, `frb_api.rs`, `frb_generated.rs`, `wasm/` | none | wrappers | the crate | none of their own | not modelled |

## Modules

| module | models | kind |
|---|---|---|
| `DmRatchet` | `ratchet.rs` | operators |
| `DmSession` | two `DmSession` objects, transport, clock, application restarts | state machine, extends `DmRatchet` |
| `SlotChannel` | what a pair of sessions promises | abstract specification |
| `DmSessionProofs` | theorems about `DmSession` | proofs |
| `FrameToken` | the `pqdr1` codec and the read of a parsed frame | state machine |
| `FrameTokenProofs` | theorems about `FrameToken` | proofs |
| `GroupRatchet` | `group_ratchet.rs` and a group that uses it | state machine |
| `GroupRatchetProofs` | theorems about `GroupRatchet` | proofs |
| `HybridKem` | `kem.rs` | operators |
| `JsonText` | how JSON strings are written and read: `encode_string_ascii` of `pqroute.rs`, `serde_json` | operators |
| `PqRoute` | `pqroute.rs`, relays and transport | state machine, extends `HybridKem`, `JsonText` |
| `PqRouteProofs` | theorems about `PqRoute` | proofs |
| `PqDm` | `pqdm.rs`, parties of two implementations, prekey directory and transport | state machine, extends `HybridKem`, `JsonText` |
| `PqDmProofs` | theorems about `PqDm` | proofs |
| `Suites` | `suites.rs` | operators |
| `PostureReport` | a `Registry`, `report.rs` and an application that uses both | state machine, extends `Suites` |
| `PostureReportProofs` | theorems about `PostureReport` and `Suites` | proofs |
| `AnonQueue` | `anon_queue.rs`, owners, correspondents and transport | state machine |
| `AnonQueueProofs` | theorems about `AnonQueue` | proofs |
| `TextTheorems` | theorems about `JsonText`, and induction over the naturals | proofs |
| `MC*` | symmetry sets and constant values for TLC | instances |

Definitions that end in `_Something` and carry the comment "Mutant" are
deliberately wrong variants of the definition they stand before. They are used by
no action; substituted for the right one, each makes the property listed with it
in `PROJECT.json` fail.

### DmSession

`session[p]` is the Rust object of party `p`: `ratchet`, `epoch_secrets` and
`current_kam`. One call is one action, because `seal` and `open` take `&mut self`
and do not yield:

* `Seal` / `SealRekey` are `seal`. The first is the call that stays in its epoch,
  the second the one that begins one (`begin_at`, `begin_epoch`). Both can fail in
  the cipher after the counter has moved, and `SealRekey` can fail in the wrap, with
  a malformed public key, before anything has changed.
* `OpenOk`, `OpenFailed`, `OpenRatchetError`, `OpenMissingSecret` are the results
  of `open`. `OpenFailed` keeps the secret that the frame's KAM brought, as the code
  does. The private key handed in is the party's own or a malformed one.
* `Snapshot` and `Restore` belong to an application that saves now and then (the
  parties in `StaleRestorers`), `Restart` to one that saves after every call.
* `Lose`, `Damage` and `ClockStep` are the environment. Frames stay in `net` after
  being handed to `open`, so they are also repeated and reordered.

`sent`, `opened`, `kamSeen` and `faults` are history variables that the properties
read and no guard but the fault bound does.

### FrameToken

`from_token` is a cursor over a byte buffer; each `take!` is a step. The scale is
reduced: one digit stands for an integer field and for a byte of a payload, and
`UsizeMod` says how wide offsets are. With `UsizeMod` above the sum of any two
lengths the model is a 64-bit build, below it a 32-bit one, in which `off + n` can wrap.
Base64 and the scheme prefix are left out. `OpenParsed` is the first thing `open` does with a
parsed frame that depends on lengths.

### GroupRatchet

The pieces of the library are operators. The group around them is the application,
modelled from the module's own text: an authoritative epoch, a new one for each
change of the roster or when a member's `should_rekey` asks for it. A member may be
offered any payload, its own or another's, at any time and in any order, and keeps
sending in the epoch it knows of, whether or not it was told to re-key: `next_outbound_key`
never refuses, and nobody need ask `should_rekey` first. That a member accepts only a
payload of an epoch newer than its ratchet's is the group's discipline; `unwrap_epoch_secret`
and `EpochRatchet::new` make no such check. `EpochRatchet` has no snapshot: a member that
restarts (`Restart`) has no ratchet until it is offered a payload again, perhaps the
same one or an older one, and begins that epoch at index 0. `life` counts a member's
restarts.

### HybridKem, JsonText, PqRoute and PqDm

`HybridKem` keeps both legs of the KEM apart: a ciphertext whose ML-KEM leg is
garbled or of another key still decapsulates, to a secret that matches nothing.
`PqRoute` and `PqDm` extend it. Bytes are counted in units (a length prefix, a JSON
member, a KEM ciphertext, a nonce, an AEAD output), so a changed length really moves
the boundary between header and sealed part. Strings in headers and names of parties
are sequences of code points, and `JsonText` turns them into text and back: short
escapes, `\uXXXX`, pairs of surrogates.

In `PqRoute` envelopes come from `seal_routed` or from another implementation, which
may order JSON members differently and seal any inner text; `Rewrite` is a relay that
calls `read_route_header` and `replace_route_header`, `Damage` is the transport. In
`PqDm` each party negotiates from the prekeys it sees, which `DropPrekey` changes
between one party's `seal` and the other's `open_sealed`; `Alter` mixes the parts of
messages and changes the names on them. The parties in `Pythonic` run the Python
implementation, which differs in one thing: it writes the lock's AAD with `json.dumps`
(modelled from what `pqdm.rs` and the repository's README say of it), this crate with
`serde_json`.

### Suites and PostureReport

A registry is a function from suite ids to rows; ids are numbered in the order of
their texts. `all_suites` is the set of results that the sort in the code can have over
any order of the map's rows. `PostureReport` has one action per call: `Register` on the
application's own `Registry`, `DmSurface` and `ConversationSurface` (both panic where
`assert_honest` fails, and then return no surface) and `MakeReport` (`from_surfaces`).
`Edit` is the application changing the public fields of a surface: its status, its flag
or its note. A note is the claim its template makes and the outside texts it repeats, so
the model says nothing about the templates' own words; a text with a forbidden word in it
is represented by that word, in a spelling with capitals.

### AnonQueue

Addresses are sequences of characters at a reduced scale: a byte of four bits and a
base64 digit of three, so an id of two bytes takes three digits and leaves a spare bit
(16 bytes take 22 digits of six bits and leave four). That keeps what the decoder has to
get right: digits outside the alphabet, spare bits that are not zero, impossible
lengths. `Mistype` changes, drops or adds a character, `Alter` changes a message at its
relay, `Deliver` is the owner calling `verify_tag`. A tag is its inputs, nonce and message
joined, as the code feeds them to the MAC.

## Runs

| run | question | states |
|---|---|---|
| `dm_oneway` | one sender, all faults but damaged headers: are the session's promises kept, is `SlotChannel` implemented, is every undamaged frame opened in the end? | 48 thousand |
| `dm_adverse` | both seal, one restores old snapshots, headers are damaged: what still holds? | 185 thousand |
| `dm_twoway` | (violation) two senders, no fault | |
| `dm_slot_damage` | (violation) one damaged epoch field | |
| `token_usize32` | does the codec accept exactly what it produces, where lengths can wrap `usize`? | 24 thousand |
| `token_nonce` | (violation) a parsed nonce of another length | |
| `group_churn` | who reads what while the roster changes and members restart? | 286 thousand |
| `route_relays` | what does a destination get from a rewritten or damaged envelope, where lengths can wrap `usize`? | 25 thousand |
| `pqdm_lock` | does the downgrade lock hold when views of prekeys differ, between two implementations? | 83 thousand |
| `pqdm_python` | (violation) the same with a name outside ASCII | |
| `posture_rollup` | what can a report claim, whatever is registered, asked and changed? | 394 thousand |
| `queue_mail` | where do addresses lead, and what does an owner accept? | 827 thousand |

**Bounds.** Two epochs are enough for all cross-epoch behaviour, because an epoch
interacts with another one through the map entry of its number only; the frame bound
lets an epoch end at its message bound with a further frame after it, and lets a KAM
be carried by more than one frame (`KamRepeat = 2`) and then stop. Times 0 and 1 with
an age of 1 give a young epoch, an old one and a negative age. Two faults against
two KAM copies is where an epoch is just stranded. For tokens, seven digits hold
every field once and one payload byte at any of the three places, or a KAM with its
length. The group needs two epochs for a member to be in one and out of the other,
either way round, and three messages for one sender to pass a bound of two and for two
senders to reach what an epoch carries in all. In the two narrow runs one length is so great
that a sum with it wraps to one before the cursor. One
envelope with three faults can be rewritten, rewritten back and damaged; two sealed
messages with two faults can exchange parts and names. Header strings have a character
of every class the encoder tells apart (short escape, plain, 16 bits, more). Two
registrations replace one another or a seeded row; two surfaces are a mixed report, and
one edit falls between builder and roll-up. Two owners with one address, one message, a
typing error and an alteration send a message to the wrong queue in every way there is;
a second address or message would only repeat it.

**Deadlock** is checked except where the system may rest: a token that has been read,
parties that have nothing on its way to them, a queue whose message has been delivered.

**Symmetry.** Secrets are interchangeable in the safety runs over secrets, destinations in
`route_relays`, owners in `queue_mail`; `dm_oneway` uses none, as TLC's liveness check does
not allow for it.

**Fairness.** `FairSpec` is weak fairness of `open` for each frame on offer, with
the receiver's right private key: the receiving application hands over what it
is offered. Nothing is assumed of the sender, of restarts, of the clock or of the
transport, which may go on losing frames up to the fault bound. `EventuallyOpened`
excuses a frame once faults have reached the number of KAM copies of its epoch.

**What the properties say.**

* `SnapshotRoundTrip`: a snapshot leaves the ratchet's secret out and `restore`
  takes it from the map by epoch; the two must agree in every state.
* `KeysNeverReused`, `EpochBudget`: over failures, restarts and clock changes no message
  key seals two frames and no epoch seals more frames than its bound, counted over all that
  a party ever sealed in it. Both are for a party that saves after every call. One that
  restores old snapshots seals slots again; of it `EpochBudget` says only that no slot is
  beyond the bound. In `dm_adverse` only bob saves after every call, so that keys of two
  parties differ is shown by the theorem and, for two such parties, by no run.
* `OpenedAsSealed`: what `open` returns was sealed by the peer in that slot.
* `KamSeenOpens`, `SecretsKept`, `NotStranded`: the documented tolerance of loss and
  reordering. They hold with one sender and undamaged headers, and the two violation
  runs show that both conditions are needed.
* `ParsedIsEncoded`, `NoEncodingRefused`: the codec is exact. A length that wraps may stop
  the program (see below) and never yields a frame.
* `ImplementsSlotChannel`, `EventuallyOpened`: the abstract channel, and that
  undamaged frames do get opened.
* `EpochIsolation`, `ReadersAgree`: nobody outside an epoch's roster can read it, and
  members derive equal keys from carried indices.
* `KeySharing`: how far the key schedule goes. The sender is no input of a key, and a
  restarted member begins at index 0, so keys are shared between senders and between lives
  of one sender, and no further. Only the random nonce tells two messages of a shared key
  apart.
* `QuietEpochBudget`: what an epoch carries before `should_rekey` speaks. The counter is each
  member's own, so n members may send n times one less than the bound with their present
  ratchets, and no more, before any of them is told; messages of lives before a restart come
  on top. Nothing bounds what is sent afterwards by a member that does not ask.
* `RoutedAsSealed`, `UntouchedOpens`, `RewriteUndone`: header, metadata and content arrive
  together as sealed or not at all, a rewrite changes nothing but the header, and writing
  back what was read changes nothing. What another implementation sealed is read as the
  length it holds declares or not at all, also where that length wraps a `usize`.
* `OpenedAsNegotiated`, `UnalteredDecides`: what opens was sealed as hybrid by the
  party named on it, an unaltered message opens in either implementation, and a
  disagreement about the suite is always reported.
* `ReportHonest`, `ClaimOfWeakest`: no report calls a classical surface quantum-resistant,
  contains a forbidden word or claims more than its weakest surface, though fields were
  changed after a builder's check.
* `SurfacesFollowSeed`, `RatchetNeverAssumed`: a surface goes by the seeded registry whatever
  the application registered, and a note speaks of a ratchet only if the level said so.
* `LastRegistrationCounts`, `ListingsDetermined`: an id has the status of its last
  registration, else of the row the registry began with, and is classical and not
  quantum-resistant if there is neither; the rows have one listing.
* `DecodedIsEncoded`, `AddressLeadsHome`, `SubscriptionPrivate`: an address has one spelling,
  leads to its owner's queue and never shows the subscription id.
* `AcceptedFromHolder`: the bytes an owner accepts, nonce and then message, were tagged with
  its secret, though the address was mistyped or fields and queues were exchanged on the way.
  It does not say that nonce and message are those tagged (see below).

## What the violation runs show

* `dm_twoway`. Both directions of a conversation number their epochs from 0 and
  share one map, so after both parties have sealed, each holds its own secret where
  the other's belongs and undamaged frames fail to open. The module's text promises
  that "a frame for any epoch whose KAM has been seen opens by `(epoch, index)`".
* `dm_slot_damage`. `open` stores a KAM's secret under the frame's epoch field before
  the body, which authenticates that field, is checked. One damaged field then keeps
  the real secret of that epoch out.
* `token_nonce`. A nonce of any length is parsed, and `open` panics unless it has
  twelve bytes, where `SECURITY.md` says malformed input is never a panic.

* `pqdm_python`. `downgrade_lock_aad` writes names with `serde_json`, which leaves
  characters outside ASCII as they are; the README says the AAD matches `json.dumps` with
  `ensure_ascii=True`. With such a name an untouched message of one implementation is
  reported as a downgrade by the other. `pqdm_lock` has the same parties with ASCII names.

Narrow `usize`. `off + n` in `take!` and `LEN_PREFIX + meta_len` in `open_routed` are
unchecked sums, where `split_outer` uses `checked_add`. `token_usize32` and `route_relays`
are scaled 32-bit builds in which both can wrap. A wrapped sum slips past the truncation
check, and the slice then stops the program: `field = "panic"` and the result `"panic"` of
`open_routed` are reached in these runs. That contradicts `dm_session.rs:190`
("so errors are explicit and no panics occur") and `SECURITY.md:49-51` ("never a panic"); for
`open_routed` it takes another implementation's inner part that authenticates and holds a
great length. No property says that there is no panic, as there is one, and a 64-bit build
has none only because no length field reaches that far. What the runs and the theorems
establish, for every width, is that the wrap does no more: no wrong frame, and no metadata or
content cut elsewhere than declared.

Met while modelling, with no run of their own:

* `honest_claim` says "only symmetric" for an empty list (`report.rs:327-331`): a list
  of symmetric surfaces counts as all quantum-resistant.
* The notes call a conversation hybrid whenever its suite is quantum-resistant, a symmetric
  suite too (`report.rs:228`); the builders' documentation does not offer one.
* `assert_honest` is an `assert!` over text with the caller's names in it, so a peer's
  name can stop the program (`report.rs:119`). `posture_rollup` has such a peer, and both
  builders panic on it; `report.rs:116-118` says that the builders already guarantee the
  check.
* `active` decides the order of listings, and no status lookup consults it.
* `verify_tag` accepts another split of the same bytes into nonce and message
  (`anon_queue.rs:248`), where its documentation says that a tampered message or a wrong
  nonce returns `false` (`anon_queue.rs:256-257`). In `queue_mail` an exchange of fields
  does this. `AcceptedFromHolder` states what a valid tag does prove.

## Proofs

`DmSessionProofs` holds for all constants that satisfy the assumptions named in
`DmSession` (two distinct parties, whose names are the keys; natural bounds; the
markers `None` and `Garbled` are not values of the types they mark).

1. `TypeInvariant`: by induction, one step per action.
2. `SnapshotRoundTripHolds`: needs `CoherentInv`, the ratchet's secret is the one
   stored under its epoch. `begin_epoch` establishes it; `open` preserves it since it
   writes to vacant entries only; `restore` by its lookup.
3. `OpenedAsSealedHolds`: in `HistoryInv`, with `SlotsBounded` (no slot beyond the bound),
   `SentInv`
   (a sent frame's body agrees with its slot) and `NetInv` (an undamaged body on the
   way was sealed by the peer, perhaps in another slot). `OpenedAsSealed` alone is not
   inductive: it needs both to conclude from the AEAD check that the slot is right.
4. `KeysNeverReusedHolds`: `KeyInv` adds that a ratchet's counter is beyond all slots
   of its epoch, that epochs never return and that each (party, epoch) has a secret of
   its own among those drawn. `EpochBudgetHolds` counts with it: a party that saves after
   every call seals each slot once (`SlotsApart`), and all slots are below the bound, so an
   epoch has no more frames than slots (`FramesCounted`).
5. `Refinement`: without stale restores each step of the sessions puts one item into
   a later slot, reads an item of the peer, or stutters in `SlotChannel`.
6. `SecretsKeptHolds`, for conversations in which one party seals (`OneWay`) and no stale
   snapshot is restored. Nothing comes from a listener (`SilentInv`), so the speaker stores
   secrets of its own epochs only, none beyond its current one (`SpeakerInv`), and the epoch
   that `begin_epoch` writes is vacant. The listener fills vacant entries only.
7. `KamSeenOpensHolds`, `NotStrandedHolds`, where in addition slot fields arrive as sealed.
   `KamInv`: a KAM on its way is that of the speaker for its frame's epoch. `ListenerInv`: a
   listener's secrets are the speaker's, and those of all KAMs seen are among them.
   `MissingInv`, for the second theorem: of the first `KAM_REPEAT` slots of an epoch, no more
   have lost their copy of the KAM than there were faults. A fault takes away one copy, a
   seal none; if all copies were gone there would have been as many faults.
   The conditions are those the two violation runs `dm_twoway` and `dm_slot_damage` drop.

`GroupRatchetProofs` holds for all groups and bounds (`GroupAssumption`, and
`NoneAssumption`: the marker of a missing ratchet is no ratchet).

1. `TypeInvariant`, together with "no member has restarted more often than there were
   faults".
2. `EpochIsolationHolds`, `ReadersAgreeHolds`: from `SecretInv`. A payload was wrapped to a
   member of its epoch's roster, and two payloads have one secret exactly if they are of one
   epoch (`PayloadInv`, because a secret is drawn once); members learned secrets from
   payloads wrapped to them; ratchets and messages have the secret of their epoch. Payloads
   may be damaged on the way, so the invariant speaks of what a payload says and not of
   whether it opens.
3. `KeySharingHolds`: adds `SlotInv`. Each message is of an earlier life of its sender, or
   of a slot before the one the sender's ratchet is at. `KeySharing` is not inductive
   without it: nothing else says that an index is not given again.

4. `QuietEpochBudgetHolds`: `OwnInv`, a ratchet's secret is one its member learned, so its
   member is of the roster of the ratchet's epoch. Messages that present lives sent in the
   current epoch are then of members of the roster, at indices below their counters
   (`PresentSender`), which are below the bound while no `should_rekey` speaks. Sender and
   index tell them apart (`IndicesDiffer`), so there is an injection into the pairs of a
   member and a number below the bound.

`FrameTokenProofs` holds for all digit ranges, payload and blob lengths and every width of
`usize` that holds a blob's length and a length field (`CodecAssumption`).

1. `ParsedIsEncodedHolds`: `ReadInv` says that what lies before the cursor is the text of the
   fields read so far. It holds in a narrow `usize` too: a sum that wraps either panics or
   ends before the cursor, and then the slice panics.
2. `NoEncodingRefusedHolds`: `TrackInv`. If the blob encodes a frame, the cursor is where that
   frame's next field begins, and the fields read are that frame's.

`PqDmProofs` holds for all parties and bounds. `NamesAssumption` says that parties have
different names, which are strings of code points.

1. `OpenedAsNegotiatedHolds`: `DmInv`, a body on its way was sealed with the lock of the
   parties and suite it was sealed for, however its message was taken apart and renamed. The
   text of a lock determines all three (`LockBinds`), because a name's text is read back as
   that name, whichever implementation wrote it.
2. `UnalteredDecidesHolds`, where names are ASCII or both parties run one implementation:
   the condition that the run `pqdm_python` drops.

`PostureReportProofs` holds for all registrable rows, texts, levels and bounds.

1. `SurfacesFollowSeedHolds`, `RatchetNeverAssumedHolds`: together in `SurfaceInv`, from what
   each builder returns (`DmBuilt`, `ConversationBuilt`).
2. `ReportHonestHolds`, `ClaimOfWeakestHolds`: `ReportInv`. The roll-up counts the surfaces of
   each status, and a count is that of all surfaces exactly if every one has it
   (`CountPlaces`, `RollUp`), for reports of any length.
3. `LastRegistrationCountsHolds`: `RegistryInv`, a row is the last registered under its id,
   else the one the registry began with, and there are no other rows.
4. `ListingsDeterminedHolds`: `RowsInv`, the rows are finitely many and each is under its own
   id. Before is then a total order (`RowsOrdered`), so there is a listing (`ListingExists`, by
   induction on the number of rows) and no other (`ListingUnique`: where two differ first,
   neither row can come before the other). Active rows are a beginning of it (`ActiveFirst`).

`AnonQueueProofs` holds for all owners, relays, messages, typing errors and bounds, at the
model's scale of bytes and digits.

1. `DecodedIsEncodedHolds`, `AddressLeadsHomeHolds`: lemmas about the codec. Three digits
   and a byte pair determine each other if the spare bit is zero (`IdRoundTrip`,
   `DigitsRoundTrip`), and an address is cut at its first slash, which `encode_aqid` keeps out
   of the relay (`DecodeJoined`). That there is a first slash is a fact about least elements.
2. `SubscriptionPrivateHolds`: `AddressInv`, all ids drawn are different, published texts are
   encodings of their owners' sender ids.
3. `AcceptedFromHolderHolds`: `MailInv`, a tag on its way is of something tagged, or was cut,
   whatever the fields beside it have become.

`PqRouteProofs` holds for all destinations, headers, metadata, contents, texts of other
implementations and bounds (`RouteAssumption`, `TextsAssumption`: objects have finitely many
members, which are strings, and texts fit in memory).

1. The codec. `canonical` joins the members in the order of their names, and `parse_json`
   cuts where they were joined (`CanonicalText`, `CanonicalRoundTrip`); an envelope is cut at
   its length prefixes into the parts it was made of (`Cut`, `ReadCut`).
2. `UntouchedOpensHolds`, `RewriteUndoneHolds`: `NumberInv`, an encapsulation has a number of
   its own and was made for one destination; the rest is the codec, for every pair of headers.
3. `RoutedAsSealedHolds`: `RouteInv` adds `NetInv`. Whatever relays and transport did to an
   envelope, its first unit is a length, and every AEAD output anywhere in it is one that was
   really sealed, for the header, destination and number it was sealed with (`Genuine`). What
   decrypts is then of a recorded envelope with the very same header text. `RoutedAsSealed`
   says nothing of envelopes not yet opened and is not inductive without it.
   For what another implementation sealed, `OpenedAsDeclared`: where the sum wraps,
   `inner_fits` fails or the slice panics, so what is returned was cut where declared.

`TextTheorems` holds for all strings of code points.

1. `EncodedReadBack`, `SerdeReadBack`: a string that was written is read back, by either
   writer. Each character is spelled in a word that a reader who comes to it reads as that
   character and no further (`Spells`; pairs of surrogates are `PairSpells`). The words are laid
   one after the other (`IsLaid`), and the reader comes to each of them in turn (`ReadLaid`).
2. `LeastOfNaturals`, `InductionOnNaturals`: the library's induction theorems take an operator
   as a parameter, which the provers at hand cannot instantiate. Induction over the members of
   a set is stated here instead, from the fact that `<` is well-founded on the naturals. The
   recursive functions of `JsonText` and of `FlattenSeq` are shown to exist by it
   (`FromExists`, `FlattenExists`) before anything is said of their values.

Every safety property and action property of the runs is proved. Model-checked only:
`EventuallyOpened`, as liveness and fairness are beyond the prover. Where a theorem has
conditions (`OneWay`, slots that arrive as sealed, names that are ASCII), a violation run shows
that the property fails without them. That no stale
snapshot is restored has no run of its own: such a restore takes secrets back.

## Not modelled

`lib.rs` (constants and module list), `python.rs`, `frb_api.rs`, `frb_generated.rs` and
`wasm/`: they convert arguments and errors around single calls of the crate, or are
generated. Of the modelled parts: the bytes of labels, salts and lengths of fixed-size
fields (a private key of a wrong length is one bad value, whose error path is modelled, as is
a malformed public key at a re-key of a session; the errors of `pqdm::seal`, `seal_routed`
and the like for a wrong length change nothing and are left out), base64 and JSON texts of
snapshots, nested values and numbers in route headers, the lists of primitives and the
descriptions of suites, the wire strings of statuses, the wording of notes and errors.
Fields of 4 GiB or more, whose length `to_token` would cut with `as u32`, are left out.
Counters of 64 bits are natural numbers: a session's are below its epoch's bound
(`EpochBudget`), and a group member would have to send 2^64 messages in one epoch.

## Plan

1. `GroupRatchet`: an abstract group whose members read exactly the epochs they belong to, and
   `GroupRatchet` shown to implement it, as `DmSession` does `SlotChannel`.
2. What survives in a conversation in which both parties seal: the frames that do open there,
   stated without the `OneWay` condition.
