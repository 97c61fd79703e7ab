----------------------------- MODULE DmSession -----------------------------
(***************************************************************************)
(* Two DmSession objects (src/src/dm_session.rs), one at each end of a     *)
(* 1:1 conversation, over a transport that reorders, duplicates, loses and *)
(* damages frames, on hosts whose wall clock may be set back, inside an    *)
(* application that snapshots and restores its session.                    *)
(*                                                                         *)
(* Each party owns one hybrid key pair, named by the party.  The nonces    *)
(* and epoch secrets that the OS random generator draws never repeat.      *)
(***************************************************************************)
EXTENDS DmRatchet, FiniteSets

CONSTANTS
    Alice, Bob,
    Senders,          \* the parties whose application calls seal
    StaleRestorers,   \* those whose application does not save its session after every call
    Damages,          \* the parts of a frame the transport may damage
    Plaintexts,
    KamRepeat,        \* KAM_REPEAT
    RekeyMsgBound,    \* rekey_msg_bound, of both sessions
    RekeyAge,         \* rekey_age_seconds, of both sessions
    MaxFrames,        \* bound: frames sealed
    MaxFaults,        \* bound: frames lost, damaged or never encrypted
    MaxTime           \* bound: readings of the wall clock

Parties == {Alice, Bob}

ASSUME PartiesAssumption == Alice # Bob /\ Keys = Parties /\ BadKey \notin Keys
ASSUME RolesAssumption == Senders \subseteq Parties /\ StaleRestorers \subseteq Parties
ASSUME DamagesAssumption == Damages \subseteq {"body", "kam", "slot"}
ASSUME BoundsAssumption ==
    /\ KamRepeat \in Nat /\ RekeyMsgBound \in Nat /\ RekeyAge \in Nat
    /\ MaxEpoch \in Nat /\ MaxFrames \in Nat /\ MaxFaults \in Nat /\ MaxTime \in Nat

VARIABLES
    session,    \* session[p]: the DmSession object of party p
    snap,       \* snap[p]: the snapshot p's application keeps, or None
    net,        \* net[p]: the frames the transport may hand to p, any number of times
    now,        \* the wall clock
    drawn,      \* the epoch secrets drawn so far
    nonces,     \* how many frame nonces were drawn so far
    faults,     \* history: how many frames were lost, damaged or never encrypted
    sent,       \* history: sent[p], the frames p sealed, as sealed
    kamSeen,    \* history: kamSeen[p], the <<epoch, secret>> of each sound KAM p was handed
    opened      \* history: opened[p], what p's calls of open returned

vars == <<session, snap, net, now, drawn, nonces, faults, sent, kamSeen, opened>>

Peer(p) == IF p = Alice THEN Bob ELSE Alice

-----------------------------------------------------------------------------
(* The DmSession object and its frames.                                      *)

\* epoch_secrets, a HashMap: None under an epoch that has no entry.
SecretMaps == [Epochs -> Secrets \cup {None}]

Sessions ==
    [ratchet : Ratchets \cup {None}, epoch_secrets : SecretMaps,
     current_kam : Kams \cup {None}]

\* The persisted form, without the ratchet's secret.
Snapshots ==
    [ratchet : [epoch : Epochs, message_index : Nat, epoch_started_at : Nat] \cup {None},
     epoch_secrets : SecretMaps, current_kam : Kams \cup {None}]

NewSession == [ratchet |-> None, epoch_secrets |-> [e \in Epochs |-> None], current_kam |-> None]

\* Mutant: the index is left out of the AAD.
frame_aad_NoIndex(epoch, index) == <<epoch>>

frame_aad(epoch, index) == <<epoch, index>>

\* AES-256-GCM: a body opens under the key, nonce and AAD it was sealed with.
Bodies == [key : MessageKeys, nonce : Nat, aad : Epochs \X Nat, msg : Plaintexts]

Frames ==
    [epoch : Epochs, index : Nat, nonce : Nat,
     kam : Kams \cup {None, Garbled}, body : Bodies \cup {Garbled}]

ASSUME ValuesAssumption ==
    /\ None \notin Nat /\ None \notin Secrets /\ None \notin Kams /\ None \notin Ratchets /\ None \notin Snapshots
    /\ None \notin Sessions
    /\ None \notin [epoch : Epochs, message_index : Nat, epoch_started_at : Nat]
    /\ Garbled \notin Kams /\ Garbled \notin Bodies /\ Garbled # None

\* Mutant: only the first frame of an epoch carries the KAM.
seal_frame_KamOnce(s, nonce, msg) ==
    LET r == s.ratchet
    IN  [epoch |-> r.epoch, index |-> r.message_index, nonce |-> nonce,
         kam |-> IF r.message_index < 1 THEN s.current_kam ELSE None,
         body |-> [key |-> message_key(r), nonce |-> nonce,
                   aad |-> frame_aad(r.epoch, r.message_index), msg |-> msg]]

\* The first KamRepeat frames of an epoch carry its KAM.
seal_frame(s, nonce, msg) ==
    LET r == s.ratchet
    IN  [epoch |-> r.epoch, index |-> r.message_index, nonce |-> nonce,
         kam |-> IF r.message_index < KamRepeat THEN s.current_kam ELSE None,
         body |-> [key |-> message_key(r), nonce |-> nonce,
                   aad |-> frame_aad(r.epoch, r.message_index), msg |-> msg]]

advance(s) == [s EXCEPT !.ratchet = next_outbound_key(@)]

\* Mutant: the older secrets are dropped.
begin_epoch_OnlyCurrent(s, epoch, secret, kam) ==
    [ratchet |-> with_bounds(epoch, secret, now),
     epoch_secrets |-> [e \in Epochs |-> IF e = epoch THEN secret ELSE None],
     current_kam |-> kam]

begin_epoch(s, epoch, secret, kam) ==
    [ratchet |-> with_bounds(epoch, secret, now),
     epoch_secrets |-> [s.epoch_secrets EXCEPT ![epoch] = secret],
     current_kam |-> kam]

\* The epoch seal has to begin first: 0, the next one, or none.
begin_at(s) ==
    IF s.ratchet = None THEN 0
    ELSE IF should_rekey(s.ratchet.message_index, s.ratchet.epoch_started_at, now,
                         RekeyMsgBound, RekeyAge)
         THEN s.ratchet.epoch + 1
         ELSE None

\* Mutant: the KAM is accepted whether or not a secret is stored.
kam_wanted_Always(s, f) == f.kam # None

\* Whether open has to unwrap the frame's KAM: it carries one, and no secret is
\* stored for its epoch.
kam_wanted(s, f) == f.kam # None /\ s.epoch_secrets[f.epoch] = None

\* Mutant: accepting a KAM forgets the other epochs.
accept_kam_OnlyLatest(s, f, priv) ==
    IF kam_wanted(s, f)
    THEN [s EXCEPT !.epoch_secrets = [e \in Epochs |->
                IF e = f.epoch THEN unwrap_dm_epoch_secret(f.kam, priv) ELSE None]]
    ELSE s

accept_kam(s, f, priv) ==
    IF kam_wanted(s, f)
    THEN [s EXCEPT !.epoch_secrets =
                [@ EXCEPT ![f.epoch] = unwrap_dm_epoch_secret(f.kam, priv)]]
    ELSE s

\* Mutant: neither the key nor the AAD depends on the slot.
body_opens_AnySlot(s, f) ==
    /\ f.body # Garbled
    /\ f.body.key.secret = s.epoch_secrets[f.epoch]
    /\ f.body.nonce = f.nonce

\* The AEAD check of open, for the secret stored under the frame's epoch.
body_opens(s, f) ==
    /\ f.body # Garbled
    /\ f.body.key = derive_dm_message_key(s.epoch_secrets[f.epoch], f.epoch, f.index)
    /\ f.body.nonce = f.nonce
    /\ f.body.aad = frame_aad(f.epoch, f.index)

\* Mutant: the counter is not saved.
snapshot_NoCounter(s) ==
    [ratchet |-> IF s.ratchet = None THEN None
                 ELSE [epoch |-> s.ratchet.epoch, message_index |-> 0,
                       epoch_started_at |-> s.ratchet.epoch_started_at],
     epoch_secrets |-> s.epoch_secrets,
     current_kam |-> s.current_kam]

snapshot(s) ==
    [ratchet |-> IF s.ratchet = None THEN None
                 ELSE [epoch |-> s.ratchet.epoch,
                       message_index |-> s.ratchet.message_index,
                       epoch_started_at |-> s.ratchet.epoch_started_at],
     epoch_secrets |-> s.epoch_secrets,
     current_kam |-> s.current_kam]

\* The ratchet's secret is looked up in epoch_secrets; None is the error result.
restore(snp) ==
    IF snp.ratchet = None
    THEN [ratchet |-> None, epoch_secrets |-> snp.epoch_secrets,
          current_kam |-> snp.current_kam]
    ELSE IF snp.epoch_secrets[snp.ratchet.epoch] # None
    THEN [ratchet |-> [epoch |-> snp.ratchet.epoch,
                       epoch_secret |-> snp.epoch_secrets[snp.ratchet.epoch],
                       message_index |-> snp.ratchet.message_index,
                       epoch_started_at |-> snp.ratchet.epoch_started_at],
          epoch_secrets |-> snp.epoch_secrets,
          current_kam |-> snp.current_kam]
    ELSE None

\* What the application of a receiver learns of a frame.
Item(f) == [epoch |-> f.epoch, index |-> f.index, nonce |-> f.nonce, msg |-> f.body.msg]

-----------------------------------------------------------------------------
Init ==
    /\ session = [p \in Parties |-> NewSession]
    /\ snap = [p \in Parties |-> None]
    /\ net = [p \in Parties |-> {}]
    /\ now = 0
    /\ drawn = {}
    /\ nonces = 0
    /\ faults = 0
    /\ sent = [p \in Parties |-> {}]
    /\ kamSeen = [p \in Parties |-> {}]
    /\ opened = [p \in Parties |-> {}]

\* seal from the next_outbound_key call on, in session s (the one begin_epoch
\* left, if it ran): the counter has moved by the time the cipher may fail.
SealIn(p, s, msg) ==
    /\ session' = [session EXCEPT ![p] = advance(s)]
    /\ \/ /\ nonces < MaxFrames
          /\ nonces' = nonces + 1
          /\ sent' = [sent EXCEPT ![p] = @ \cup {seal_frame(s, nonces, msg)}]
          /\ net' = [net EXCEPT ![Peer(p)] = @ \cup {seal_frame(s, nonces, msg)}]
          /\ UNCHANGED faults
       \/ /\ faults < MaxFaults
          /\ faults' = faults + 1
          /\ UNCHANGED <<nonces, sent, net>>
    /\ UNCHANGED <<snap, now, kamSeen, opened>>

\* seal within the current epoch: the public key is not looked at.
Seal(p, msg) ==
    /\ p \in Senders
    /\ begin_at(session[p]) = None
    /\ SealIn(p, session[p], msg)
    /\ UNCHANGED drawn

\* seal that first begins an epoch.
SealRekey(p, msg, pub) ==
    /\ p \in Senders
    /\ begin_at(session[p]) \in Epochs
    /\ \E secret \in Secrets \ drawn :
         LET kam == wrap_dm_epoch_secret(secret, pub)
         IN  /\ drawn' = drawn \cup {secret}
             /\ \/ /\ kam # None
                   /\ SealIn(p, begin_epoch(session[p], begin_at(session[p]), secret, kam), msg)
                \/ /\ kam = None
                   /\ UNCHANGED <<session, snap, net, now, nonces, faults, sent, kamSeen, opened>>

\* What the application hears of a KAM, whatever open makes of it.
NoteKam(q, f, priv) ==
    kamSeen' = [kamSeen EXCEPT ![q] =
        @ \cup {<<f.epoch, x>> : x \in {unwrap_dm_epoch_secret(f.kam, priv)} \ {None}}]

\* Mutant: a frame that carries no KAM is never opened.
OpenOk_NeedsKam(q, f, priv) ==
    LET s == accept_kam(session[q], f, priv)
    IN  /\ f.kam # None /\ unwrap_dm_epoch_secret(f.kam, priv) # None
        /\ body_opens(s, f)
        /\ session' = [session EXCEPT ![q] = s]
        /\ opened' = [opened EXCEPT ![q] = @ \cup {Item(f)}]
        /\ NoteKam(q, f, priv)
        /\ UNCHANGED <<snap, net, now, drawn, nonces, faults, sent>>

\* open returns the plaintext.
OpenOk(q, f, priv) ==
    LET s == accept_kam(session[q], f, priv)
    IN  /\ kam_wanted(session[q], f) => unwrap_dm_epoch_secret(f.kam, priv) # None
        /\ s.epoch_secrets[f.epoch] # None
        /\ body_opens(s, f)
        /\ session' = [session EXCEPT ![q] = s]
        /\ opened' = [opened EXCEPT ![q] = @ \cup {Item(f)}]
        /\ NoteKam(q, f, priv)
        /\ UNCHANGED <<snap, net, now, drawn, nonces, faults, sent>>

\* open returns OpenFailed: by then the KAM's secret has been stored.
OpenFailed(q, f, priv) ==
    LET s == accept_kam(session[q], f, priv)
    IN  /\ kam_wanted(session[q], f) => unwrap_dm_epoch_secret(f.kam, priv) # None
        /\ s.epoch_secrets[f.epoch] # None
        /\ ~ body_opens(s, f)
        /\ session' = [session EXCEPT ![q] = s]
        /\ NoteKam(q, f, priv)
        /\ UNCHANGED <<snap, net, now, drawn, nonces, faults, sent, opened>>

\* open returns the error of unwrap_dm_epoch_secret.
OpenRatchetError(q, f, priv) ==
    /\ kam_wanted(session[q], f)
    /\ unwrap_dm_epoch_secret(f.kam, priv) = None
    /\ NoteKam(q, f, priv)
    /\ UNCHANGED <<session, snap, net, now, drawn, nonces, faults, sent, opened>>

\* open returns MissingEpochSecret.
OpenMissingSecret(q, f) ==
    /\ f.kam = None
    /\ session[q].epoch_secrets[f.epoch] = None
    /\ UNCHANGED vars

Open(q, f, priv) ==
    \/ OpenOk(q, f, priv)
    \/ OpenFailed(q, f, priv)
    \/ OpenRatchetError(q, f, priv)
    \/ OpenMissingSecret(q, f)

\* An application that saves when it likes...
Snapshot(p) ==
    /\ p \in StaleRestorers
    /\ snap' = [snap EXCEPT ![p] = snapshot(session[p])]
    /\ UNCHANGED <<session, net, now, drawn, nonces, faults, sent, kamSeen, opened>>

\* ... and is restarted from what it saved last, however long ago.
Restore(p) ==
    /\ snap[p] # None
    /\ restore(snap[p]) # None
    /\ session' = [session EXCEPT ![p] = restore(snap[p])]
    /\ UNCHANGED <<snap, net, now, drawn, nonces, faults, sent, kamSeen, opened>>

\* An application that saves after every call is restarted.
Restart(p) ==
    /\ p \notin StaleRestorers
    /\ restore(snapshot(session[p])) # None
    /\ session' = [session EXCEPT ![p] = restore(snapshot(session[p]))]
    /\ UNCHANGED <<snap, net, now, drawn, nonces, faults, sent, kamSeen, opened>>

-----------------------------------------------------------------------------
(* The transport and the clock, external to the crate.                       *)

\* The transport stops offering a frame.
Lose(q, f) ==
    /\ faults < MaxFaults
    /\ faults' = faults + 1
    /\ net' = [net EXCEPT ![q] = @ \ {f}]
    /\ UNCHANGED <<session, snap, now, drawn, nonces, sent, kamSeen, opened>>

\* The damaged forms of a frame; a damaged slot is that of another frame.
DamagedForms(q, f) ==
    (IF "body" \in Damages THEN {[f EXCEPT !.body = Garbled]} ELSE {})
    \cup (IF "kam" \in Damages /\ f.kam # None THEN {[f EXCEPT !.kam = Garbled]} ELSE {})
    \cup (IF "slot" \in Damages
          THEN {[f EXCEPT !.epoch = g.epoch, !.index = g.index] : g \in sent[Peer(q)]}
          ELSE {})

Damage(q, f) ==
    /\ faults < MaxFaults
    /\ \E g \in DamagedForms(q, f) :
         /\ g # f
         /\ net' = [net EXCEPT ![q] = (@ \ {f}) \cup {g}]
    /\ faults' = faults + 1
    /\ UNCHANGED <<session, snap, now, drawn, nonces, sent, kamSeen, opened>>

\* SystemTime is not monotone: the clock may be set forward or back.
ClockStep ==
    /\ now' \in 0..MaxTime
    /\ UNCHANGED <<session, snap, net, drawn, nonces, faults, sent, kamSeen, opened>>

-----------------------------------------------------------------------------
Next ==
    \/ \E p \in Parties, msg \in Plaintexts : Seal(p, msg)
    \/ \E p \in Parties : \E msg \in Plaintexts, pub \in {Peer(p), BadKey} : SealRekey(p, msg, pub)
    \/ \E q \in Parties : \E f \in net[q], priv \in {q, BadKey} : Open(q, f, priv)
    \/ \E q \in Parties : \E f \in net[q] : Lose(q, f)
    \/ \E q \in Parties : \E f \in net[q] : Damage(q, f)
    \/ \E p \in Parties : Snapshot(p)
    \/ \E p \in Parties : Restore(p)
    \/ \E p \in Parties : Restart(p)
    \/ ClockStep

Spec == Init /\ [][Next]_vars

\* The receiving application keeps handing every frame the transport offers to
\* open, with its own private key.  Frames are told apart by their nonce.
FairSpec ==
    Spec /\ \A q \in Parties, n \in 0..MaxFrames :
              WF_vars(\E f \in net[q] : f.nonce = n /\ Open(q, f, q))

-----------------------------------------------------------------------------
(* Properties.                                                               *)

\* Every variable has its type: no error result of wrap, unwrap or restore
\* reaches a session, no epoch is beyond the last, and a body's AAD is a slot.
TypeOK ==
    /\ session \in [Parties -> Sessions]
    /\ snap \in [Parties -> Snapshots \cup {None}]
    /\ net \in [Parties -> SUBSET Frames]
    /\ now \in Nat
    /\ drawn \in SUBSET Secrets
    /\ nonces \in Nat
    /\ faults \in Nat
    /\ sent \in [Parties -> SUBSET Frames]
    /\ kamSeen \in [Parties -> SUBSET (Epochs \X Secrets)]
    /\ opened \in [Parties -> SUBSET
                     [epoch : Epochs, index : Nat, nonce : Nat, msg : Plaintexts]]

\* A session rebuilt from its own snapshot is the same session.  The snapshot
\* leaves the ratchet's secret out, so this needs the secret stored under the
\* ratchet's epoch to be the one the ratchet seals with, whatever frames the
\* peer sent for that epoch (restore's lookup, begin_epoch's insert, open's
\* vacant-entry check).
SnapshotRoundTrip ==
    \A p \in Parties : restore(snapshot(session[p])) = session[p]

\* No two frames a party seals are under the same message key, and no two
\* parties share one: each (epoch, index) slot is used once, and each epoch has
\* a secret of its own.  A party that restores old snapshots is excepted.
KeysNeverReused ==
    \A p, q \in Parties \ StaleRestorers : \A f \in sent[p], g \in sent[q] :
        /\ f.body.key = g.body.key => p = q /\ f = g
        /\ f.body.key.secret = g.body.key.secret => p = q /\ f.epoch = g.epoch

\* How many frames an epoch may seal; the frame that begins it is always sealed.
EpochFrames == IF RekeyMsgBound = 0 THEN 1 ELSE RekeyMsgBound

\* A party whose application saves its session after every call seals at most
\* rekey_msg_bound frames in an epoch, whatever the clock does, across failed
\* wraps and encryptions and restarts.  One that restores old snapshots seals
\* slots again, so its frames may be more, but it seals no slot beyond those.
EpochBudget ==
    /\ \A p \in Parties \ StaleRestorers, e \in Epochs :
        Cardinality({f \in sent[p] : f.epoch = e}) <= EpochFrames
    /\ \A p \in Parties : \A f \in sent[p] : f.index < EpochFrames

\* Whatever open returns was sealed by the peer, in the very slot and with the
\* very nonce of the frame that was opened, even if frames are damaged or their
\* slots are mixed up on the way.
OpenedAsSealed ==
    \A q \in Parties : \A o \in opened[q] : \E f \in sent[Peer(q)] :
        /\ <<f.epoch, f.index, f.nonce>> = <<o.epoch, o.index, o.nonce>>
        /\ f.body.msg = o.msg

\* Frame f, undamaged, opens at q at once, with any private key.
OpensAt(q, f) ==
    /\ session[q].epoch_secrets[f.epoch] # None
    /\ body_opens(session[q], f)

\* The frames of party p that q may still be handed with their body and slot as
\* sealed.
Intact(q) == {f \in net[q] : \E g \in sent[Peer(q)] :
                 <<f.epoch, f.index, f.nonce, f.body>> = <<g.epoch, g.index, g.nonce, g.body>>}

\* "A frame for any epoch whose KAM has been seen opens by (epoch, index)":
\* once q was handed a sound KAM of an epoch, every undamaged frame of that
\* epoch opens, however late and in whatever order it arrives.
KamSeenOpens ==
    \A q \in Parties : \A f \in Intact(q) :
        <<f.epoch, f.body.key.secret>> \in kamSeen[q] => OpensAt(q, f)

\* Frame f can still be opened: it opens at once, or the transport still offers
\* a frame with a sound KAM of its epoch.
Recoverable(q, f) ==
    \/ OpensAt(q, f)
    \/ \E g \in net[q] :
         g.epoch = f.epoch /\ g.kam = [to |-> q, secret |-> f.body.key.secret]

\* How many of the frames of f's epoch, up to f, carried its KAM.
KamCopies(f) == IF f.index < KamRepeat THEN f.index + 1 ELSE KamRepeat

\* A lost, reordered or damaged frame does not strand the epoch: while fewer
\* frames have met a fault than copies of the KAM were sealed, each undamaged
\* frame can still be opened.
NotStranded ==
    \A q \in Parties : \A f \in Intact(q) :
        faults < KamCopies(f) => Recoverable(q, f)

\* A stored epoch secret is never replaced or forgotten (frames of that epoch
\* may still be under way), by a seal, by an open or by a restore.
SecretsKept ==
    [][\A p \in Parties : \A e \in Epochs :
         session[p].epoch_secrets[e] # None =>
             session'[p].epoch_secrets[e] = session[p].epoch_secrets[e]]_vars

Channel == INSTANCE SlotChannel WITH
    sealed <- [p \in Parties |-> {Item(f) : f \in sent[p]}],
    read <- opened

\* The sessions implement the slot channel: a party's slots only move forward
\* (across re-keys, failed encryptions, snapshots and clock changes), and open
\* returns only what the peer sealed in that slot.
ImplementsSlotChannel == Channel!ChSpec

\* Each undamaged frame whose epoch is not stranded is opened in the end, unless
\* it meets a fault or too many of its epoch's KAM frames do.
EventuallyOpened ==
    \A q \in Parties, n \in 0..(MaxFrames - 1) :
        (\E f \in Intact(q) : f.nonce = n /\ faults < KamCopies(f))
        ~> \/ \E o \in opened[q] : o.nonce = n
           \/ \A f \in Intact(q) : f.nonce # n \/ faults >= KamCopies(f)
=============================================================================
