-------------------------- MODULE DmSessionProofs --------------------------
(***************************************************************************)
(* Proofs about DmSession for every value of its constants.                *)
(***************************************************************************)
EXTENDS DmSession, FiniteSetTheorems, TLAPS

-----------------------------------------------------------------------------
(* Types of the operations on a session and its frames.                      *)

\* The frame seal builds from a session with a ratchet is a well-formed frame
\* whose body is not damaged.
LEMMA SealFrameType ==
    ASSUME NEW s \in Sessions, s.ratchet # None, NEW n \in Nat, NEW msg \in Plaintexts
    PROVE  /\ seal_frame(s, n, msg) \in Frames
           /\ seal_frame(s, n, msg).body \in Bodies
<1> DEFINE r == s.ratchet
<1>1. r \in Ratchets
  BY DEF Sessions
<1>2. message_key(r) \in MessageKeys
  BY <1>1 DEF message_key, derive_dm_message_key, MessageKeys, Ratchets
<1>3. frame_aad(r.epoch, r.message_index) \in Epochs \X Nat
  BY <1>1 DEF frame_aad, Ratchets
<1> HIDE DEF r
<1> DEFINE b == [key |-> message_key(r), nonce |-> n,
                 aad |-> frame_aad(r.epoch, r.message_index), msg |-> msg]
<1>4. b \in Bodies
  BY <1>2, <1>3 DEF Bodies
<1> HIDE DEF b
<1>5. s.current_kam \in Kams \cup {None}
  BY DEF Sessions
<1> DEFINE k == IF r.message_index < KamRepeat THEN s.current_kam ELSE None
<1>6. k \in Kams \cup {None, Garbled}
  BY <1>5
<1>7. r.epoch \in Epochs /\ r.message_index \in Nat
  BY <1>1 DEF Ratchets
<1> HIDE DEF k
<1>8. seal_frame(s, n, msg) =
        [epoch |-> r.epoch, index |-> r.message_index, nonce |-> n, kam |-> k, body |-> b]
  BY DEF seal_frame, k, b, r
<1> QED
  BY <1>4, <1>6, <1>7, <1>8 DEF Frames

\* Advancing the counter keeps a session a session with a ratchet.
LEMMA AdvanceType ==
    ASSUME NEW s \in Sessions, s.ratchet # None
    PROVE  /\ advance(s) \in Sessions
           /\ advance(s).ratchet # None
<1>1. s.ratchet \in Ratchets
  BY DEF Sessions
<1>2. next_outbound_key(s.ratchet) \in Ratchets
  BY <1>1 DEF next_outbound_key, Ratchets
<1> QED
  BY <1>2, ValuesAssumption DEF advance, Sessions

\* begin_epoch leaves a session with a ratchet.
LEMMA BeginEpochType ==
    ASSUME NEW s \in Sessions, NEW e \in Epochs, NEW secret \in Secrets, NEW kam \in Kams,
           now \in Nat
    PROVE  /\ begin_epoch(s, e, secret, kam) \in Sessions
           /\ begin_epoch(s, e, secret, kam).ratchet \in Ratchets
<1>1. with_bounds(e, secret, now) \in Ratchets
  BY DEF with_bounds, Ratchets
<1>2. [s.epoch_secrets EXCEPT ![e] = secret] \in SecretMaps
  BY DEF Sessions, SecretMaps
<1> QED
  BY <1>1, <1>2 DEF begin_epoch, Sessions

\* Accepting a KAM that unwraps keeps a session a session, and touches nothing
\* but its secrets.
LEMMA AcceptKamType ==
    ASSUME NEW s \in Sessions, NEW f \in Frames, NEW priv,
           kam_wanted(s, f) => unwrap_dm_epoch_secret(f.kam, priv) # None
    PROVE  accept_kam(s, f, priv) \in Sessions
<1>1. CASE ~ kam_wanted(s, f)
  BY <1>1 DEF accept_kam
<1>2. CASE kam_wanted(s, f)
  <2>1. unwrap_dm_epoch_secret(f.kam, priv) \in Secrets
    BY <1>2 DEF unwrap_dm_epoch_secret, Kams
  <2>2. [s.epoch_secrets EXCEPT ![f.epoch] = unwrap_dm_epoch_secret(f.kam, priv)] \in SecretMaps
    BY <2>1 DEF Sessions, SecretMaps, Frames
  <2> QED
    BY <1>2, <2>2 DEF accept_kam, Sessions
<1> QED
  BY <1>1, <1>2

\* A snapshot of a session is a snapshot.
LEMMA SnapshotType ==
    ASSUME NEW s \in Sessions
    PROVE  snapshot(s) \in Snapshots
BY DEF snapshot, Snapshots, Sessions, Ratchets

\* What restore builds, if it succeeds, is a session.
LEMMA RestoreType ==
    ASSUME NEW snp \in Snapshots, restore(snp) # None
    PROVE  restore(snp) \in Sessions
<1>1. CASE snp.ratchet = None
  BY <1>1 DEF restore, Snapshots, Sessions
<1>2. CASE snp.ratchet # None
  <2>1. snp.epoch_secrets[snp.ratchet.epoch] # None
    BY <1>2 DEF restore
  <2>2. snp.epoch_secrets[snp.ratchet.epoch] \in Secrets
    BY <1>2, <2>1 DEF Snapshots, SecretMaps
  <2> QED
    BY <1>2, <2>1, <2>2 DEF restore, Snapshots, Sessions, Ratchets
<1> QED
  BY <1>1, <1>2

-----------------------------------------------------------------------------
(* The type invariant.                                                       *)

\* begin_at answers None only for a session that has a ratchet.
LEMMA BeginAtNone ==
    ASSUME NEW s \in Sessions, begin_at(s) = None
    PROVE  /\ s.ratchet \in Ratchets
           /\ ~ should_rekey(s.ratchet.message_index, s.ratchet.epoch_started_at, now,
                             RekeyMsgBound, RekeyAge)
<1>1. s.ratchet # None
  BY ValuesAssumption DEF begin_at
<1>2. s.ratchet \in Ratchets
  BY <1>1 DEF Sessions
<1>3. s.ratchet.epoch + 1 # None
  BY <1>2, ValuesAssumption, BoundsAssumption DEF Ratchets, Epochs
<1> QED
  BY <1>1, <1>2, <1>3 DEF begin_at

\* The party at the other end is a party.
LEMMA PeerType == \A p \in Parties : Peer(p) \in Parties /\ Peer(p) # p /\ Peer(Peer(p)) = p
BY PartiesAssumption DEF Peer, Parties

\* The second half of seal preserves the types.
LEMMA SealInType ==
    ASSUME TypeOK, NEW p \in Parties, NEW s \in Sessions, s.ratchet \in Ratchets,
           NEW msg \in Plaintexts, SealIn(p, s, msg), drawn' \in SUBSET Secrets
    PROVE  TypeOK'
<1> USE DEF TypeOK
<1>1. s.ratchet # None
  BY ValuesAssumption
<1>2. advance(s) \in Sessions
  BY <1>1, AdvanceType
<1>3. session' \in [Parties -> Sessions]
  BY <1>2 DEF SealIn
<1>4. seal_frame(s, nonces, msg) \in Frames
  BY <1>1, SealFrameType
<1>5. nonces' \in Nat /\ faults' \in Nat
  BY DEF SealIn
<1>6. sent' \in [Parties -> SUBSET Frames] /\ net' \in [Parties -> SUBSET Frames]
  BY <1>4, PeerType DEF SealIn
<1> QED
  BY <1>3, <1>5, <1>6 DEF SealIn

\* A re-key that wraps: the session begin_epoch leaves, and what it wraps.
LEMMA RekeySession ==
    ASSUME TypeOK, NEW p \in Parties, NEW pub, NEW secret \in Secrets,
           begin_at(session[p]) \in Epochs, wrap_dm_epoch_secret(secret, pub) # None
    PROVE  LET kam == wrap_dm_epoch_secret(secret, pub)
               s == begin_epoch(session[p], begin_at(session[p]), secret, kam)
           IN  s \in Sessions /\ s.ratchet \in Ratchets /\ kam \in Kams
<1>1. wrap_dm_epoch_secret(secret, pub) \in Kams
  BY DEF wrap_dm_epoch_secret, Kams
<1>2. session[p] \in Sessions /\ now \in Nat
  BY DEF TypeOK
<1> QED
  BY <1>1, <1>2, BeginEpochType

\* open preserves the types.
LEMMA OpenType ==
    ASSUME TypeOK, NEW q \in Parties, NEW f \in net[q], NEW priv, Open(q, f, priv)
    PROVE  TypeOK'
<1> USE DEF TypeOK
<1>1. f \in Frames /\ session[q] \in Sessions
  OBVIOUS
<1>2. ASSUME NoteKam(q, f, priv)
      PROVE  kamSeen' \in [Parties -> SUBSET (Epochs \X Secrets)]
  <2>1. \A x \in {unwrap_dm_epoch_secret(f.kam, priv)} \ {None} :
            <<f.epoch, x>> \in Epochs \X Secrets
    BY <1>1 DEF Frames, unwrap_dm_epoch_secret, Kams
  <2> QED
    BY <1>2, <2>1 DEF NoteKam
<1>3. CASE OpenOk(q, f, priv)
  <2>1. accept_kam(session[q], f, priv) \in Sessions
    BY <1>1, <1>3, AcceptKamType DEF OpenOk
  <2>2. session' \in [Parties -> Sessions]
    BY <1>3, <2>1 DEF OpenOk
  <2>3. f.body \in Bodies
    BY <1>1, <1>3 DEF OpenOk, body_opens, Frames
  <2>4. Item(f) \in [epoch : Epochs, index : Nat, nonce : Nat, msg : Plaintexts]
    BY <1>1, <2>3 DEF Item, Frames, Bodies
  <2>5. opened' \in [Parties -> SUBSET
                     [epoch : Epochs, index : Nat, nonce : Nat, msg : Plaintexts]]
    BY <1>3, <2>4 DEF OpenOk
  <2> QED
    BY <1>2, <1>3, <2>2, <2>5 DEF OpenOk
<1>4. CASE OpenFailed(q, f, priv)
  <2>1. accept_kam(session[q], f, priv) \in Sessions
    BY <1>1, <1>4, AcceptKamType DEF OpenFailed
  <2>2. session' \in [Parties -> Sessions]
    BY <1>4, <2>1 DEF OpenFailed
  <2> QED
    BY <1>2, <1>4, <2>2 DEF OpenFailed
<1>5. CASE OpenRatchetError(q, f, priv)
  BY <1>2, <1>5 DEF OpenRatchetError
<1>6. CASE OpenMissingSecret(q, f)
  BY <1>6 DEF OpenMissingSecret, vars
<1> QED
  BY <1>3, <1>4, <1>5, <1>6 DEF Open

\* The damaged forms of a frame are frames, with its body or none.
LEMMA DamagedType ==
    ASSUME TypeOK, NEW q \in Parties, NEW f \in Frames, NEW g \in DamagedForms(q, f)
    PROVE  /\ g \in Frames
           /\ g.body = f.body \/ g.body = Garbled
           /\ g.nonce = f.nonce
<1>1. CASE g = [f EXCEPT !.body = Garbled]
  BY <1>1 DEF Frames
<1>2. CASE g = [f EXCEPT !.kam = Garbled]
  BY <1>2 DEF Frames
<1>3. CASE \E h \in sent[Peer(q)] : g = [f EXCEPT !.epoch = h.epoch, !.index = h.index]
  <2>1. PICK h \in sent[Peer(q)] : g = [f EXCEPT !.epoch = h.epoch, !.index = h.index]
    BY <1>3
  <2>2. h \in Frames
    BY PeerType DEF TypeOK
  <2> QED
    BY <2>1, <2>2 DEF Frames
<1>4. \/ g = [f EXCEPT !.body = Garbled]
      \/ g = [f EXCEPT !.kam = Garbled]
      \/ \E h \in sent[Peer(q)] : g = [f EXCEPT !.epoch = h.epoch, !.index = h.index]
  BY DEF DamagedForms
<1> QED
  BY <1>1, <1>2, <1>3, <1>4, Zenon

\* Types are preserved by every step.
LEMMA TypeStep == TypeOK /\ [Next]_vars => TypeOK'
<1> SUFFICES ASSUME TypeOK, [Next]_vars PROVE TypeOK'
  OBVIOUS
<1> USE DEF TypeOK
<1>1. ASSUME NEW p \in Parties, NEW msg \in Plaintexts, Seal(p, msg) PROVE TypeOK'
  BY <1>1, BeginAtNone, SealInType DEF Seal
<1>2. ASSUME NEW p \in Parties, NEW msg \in Plaintexts, NEW pub, SealRekey(p, msg, pub)
      PROVE  TypeOK'
  <2>1. PICK secret \in Secrets \ drawn :
          LET kam == wrap_dm_epoch_secret(secret, pub)
          IN  /\ drawn' = drawn \cup {secret}
              /\ \/ /\ kam # None
                    /\ SealIn(p, begin_epoch(session[p], begin_at(session[p]), secret, kam), msg)
                 \/ /\ kam = None
                    /\ UNCHANGED <<session, snap, net, now, nonces, faults, sent, kamSeen, opened>>
    BY <1>2 DEF SealRekey
  <2>2. drawn' \in SUBSET Secrets
    BY <2>1
  <2>3. CASE wrap_dm_epoch_secret(secret, pub) = None
    BY <2>1, <2>2, <2>3
  <2>4. CASE wrap_dm_epoch_secret(secret, pub) # None
    <3>1. begin_at(session[p]) \in Epochs
      BY <1>2 DEF SealRekey
    <3> QED
      BY <2>1, <2>2, <2>4, <3>1, RekeySession, SealInType
  <2> QED
    BY <2>3, <2>4
<1>3. ASSUME NEW q \in Parties, NEW f \in net[q], NEW priv, Open(q, f, priv) PROVE TypeOK'
  BY <1>3, OpenType
<1>4. ASSUME NEW q \in Parties, NEW f \in net[q], Lose(q, f) PROVE TypeOK'
  BY <1>4 DEF Lose
<1>5. ASSUME NEW q \in Parties, NEW f \in net[q], Damage(q, f) PROVE TypeOK'
  <2>1. PICK g \in DamagedForms(q, f) : net' = [net EXCEPT ![q] = (@ \ {f}) \cup {g}]
    BY <1>5 DEF Damage
  <2>2. g \in Frames
    BY DamagedType
  <2>3. net' \in [Parties -> SUBSET Frames]
    BY <2>1, <2>2
  <2> QED
    BY <1>5, <2>3 DEF Damage
<1>6. ASSUME NEW p \in Parties, Snapshot(p) PROVE TypeOK'
  BY <1>6, SnapshotType DEF Snapshot
<1>7. ASSUME NEW p \in Parties, Restore(p) PROVE TypeOK'
  <2>1. restore(snap[p]) \in Sessions
    BY <1>7, RestoreType DEF Restore
  <2> QED
    BY <1>7, <2>1 DEF Restore
<1>8. ASSUME NEW p \in Parties, Restart(p) PROVE TypeOK'
  <2>1. restore(snapshot(session[p])) \in Sessions
    BY <1>8, RestoreType, SnapshotType DEF Restart
  <2> QED
    BY <1>8, <2>1 DEF Restart
<1>9. CASE ClockStep
  BY <1>9, BoundsAssumption DEF ClockStep
<1>10. CASE UNCHANGED vars
  BY <1>10 DEF vars
<1> QED
  BY <1>1, <1>2, <1>3, <1>4, <1>5, <1>6, <1>7, <1>8, <1>9, <1>10 DEF Next

\* Every variable keeps its type: in particular no error result of wrap, unwrap
\* or restore (None) ever reaches a session, and no epoch is beyond the last.
THEOREM TypeInvariant == Spec => []TypeOK
<1>1. Init => TypeOK
  <2>1. NewSession \in Sessions
    BY DEF NewSession, Sessions, SecretMaps
  <2> QED
    BY <2>1 DEF Init, TypeOK
<1> QED
  BY <1>1, TypeStep, PTL DEF Spec

-----------------------------------------------------------------------------
(* The ratchet seals with the secret stored under its epoch.                 *)

Coherent(s) == s.ratchet # None => s.epoch_secrets[s.ratchet.epoch] = s.ratchet.epoch_secret

CoherentInv == \A p \in Parties : Coherent(session[p])

\* A coherent session survives the round trip through its snapshot.
LEMMA RoundTrip ==
    ASSUME NEW s \in Sessions, Coherent(s)
    PROVE  restore(snapshot(s)) = s
<1>1. CASE s.ratchet = None
  BY <1>1 DEF restore, snapshot, Sessions
<1>2. CASE s.ratchet # None
  <2>1. s.ratchet \in Ratchets /\ s.epoch_secrets[s.ratchet.epoch] # None
    BY <1>2, ValuesAssumption DEF Coherent, Sessions, Ratchets
  <2>2. snapshot(s).ratchet = [epoch |-> s.ratchet.epoch,
                               message_index |-> s.ratchet.message_index,
                               epoch_started_at |-> s.ratchet.epoch_started_at]
    BY <1>2 DEF snapshot
  <2>3. snapshot(s).ratchet # None
    BY <2>1, <2>2, ValuesAssumption DEF Ratchets
  <2>4. restore(snapshot(s)) =
          [ratchet |-> [epoch |-> s.ratchet.epoch, epoch_secret |-> s.epoch_secrets[s.ratchet.epoch],
                        message_index |-> s.ratchet.message_index,
                        epoch_started_at |-> s.ratchet.epoch_started_at],
           epoch_secrets |-> s.epoch_secrets, current_kam |-> s.current_kam]
    BY <2>1, <2>2, <2>3 DEF restore, snapshot
  <2>5. s.ratchet = [epoch |-> s.ratchet.epoch, epoch_secret |-> s.epoch_secrets[s.ratchet.epoch],
                     message_index |-> s.ratchet.message_index,
                     epoch_started_at |-> s.ratchet.epoch_started_at]
    BY <1>2, <2>1 DEF Coherent, Ratchets
  <2> QED
    BY <2>4, <2>5 DEF Sessions
<1> QED
  BY <1>1, <1>2

\* Each operation leaves a coherent session behind.
LEMMA CoherentOps ==
    /\ \A s \in Sessions : Coherent(s) /\ s.ratchet # None => Coherent(advance(s))
    /\ \A s \in Sessions, e \in Epochs, x \in Secrets, k \in Kams :
         Coherent(begin_epoch(s, e, x, k))
    /\ \A s \in Sessions, f \in Frames : \A priv :
         Coherent(s) => Coherent(accept_kam(s, f, priv))
    /\ \A snp \in Snapshots : restore(snp) # None => Coherent(restore(snp))
<1>1. ASSUME NEW s \in Sessions, Coherent(s), s.ratchet # None PROVE Coherent(advance(s))
  <2>1. s.ratchet \in Ratchets
    BY <1>1 DEF Sessions
  <2>2. /\ advance(s).ratchet.epoch = s.ratchet.epoch
        /\ advance(s).ratchet.epoch_secret = s.ratchet.epoch_secret
        /\ advance(s).epoch_secrets = s.epoch_secrets
    BY <2>1 DEF advance, next_outbound_key, Sessions, Ratchets
  <2> QED
    BY <1>1, <2>2 DEF Coherent
<1>2. ASSUME NEW s \in Sessions, NEW e \in Epochs, NEW x \in Secrets, NEW k \in Kams
      PROVE  Coherent(begin_epoch(s, e, x, k))
  BY DEF Coherent, begin_epoch, with_bounds, Sessions, SecretMaps
<1>3. ASSUME NEW s \in Sessions, NEW f \in Frames, NEW priv, Coherent(s)
      PROVE  Coherent(accept_kam(s, f, priv))
  <2>1. CASE ~ kam_wanted(s, f) \/ s.ratchet = None
    BY <1>3, <2>1 DEF accept_kam, Coherent, Sessions
  <2>2. CASE kam_wanted(s, f) /\ s.ratchet # None
    <3>1. s.ratchet \in Ratchets /\ s.epoch_secrets[s.ratchet.epoch] # None
      BY <1>3, <2>2, ValuesAssumption DEF Coherent, Sessions, Ratchets
    <3>2. f.epoch # s.ratchet.epoch
      BY <2>2, <3>1 DEF kam_wanted
    <3>3. accept_kam(s, f, priv).ratchet = s.ratchet
      BY <2>2 DEF accept_kam, Sessions
    <3>4. accept_kam(s, f, priv).epoch_secrets[s.ratchet.epoch] = s.epoch_secrets[s.ratchet.epoch]
      BY <2>2, <3>1, <3>2 DEF accept_kam, Sessions, SecretMaps, Ratchets
    <3> QED
      BY <1>3, <3>3, <3>4 DEF Coherent
  <2> QED
    BY <2>1, <2>2
<1>4. ASSUME NEW snp \in Snapshots, restore(snp) # None PROVE Coherent(restore(snp))
  BY <1>4 DEF Coherent, restore
<1> QED
  BY <1>1, <1>2, <1>3, <1>4

\* Every step changes each session by a call on it, or not at all.
LEMMA CoherentStep == TypeOK /\ CoherentInv /\ [Next]_vars => CoherentInv'
<1> SUFFICES ASSUME TypeOK, CoherentInv, [Next]_vars PROVE CoherentInv'
  OBVIOUS
<1> USE DEF TypeOK, CoherentInv
<1>0. ASSUME NEW p \in Parties, NEW s, session' = [session EXCEPT ![p] = s], Coherent(s)
      PROVE  CoherentInv'
  BY <1>0
<1>1. ASSUME NEW p \in Parties, NEW msg \in Plaintexts, Seal(p, msg) PROVE CoherentInv'
  <2>1. session[p].ratchet # None
    BY <1>1, BeginAtNone, ValuesAssumption DEF Seal
  <2> QED
    BY <1>0, <1>1, <2>1, CoherentOps DEF Seal, SealIn
<1>2. ASSUME NEW p \in Parties, NEW msg \in Plaintexts, NEW pub, SealRekey(p, msg, pub)
      PROVE  CoherentInv'
  <2>1. PICK secret \in Secrets \ drawn :
          LET kam == wrap_dm_epoch_secret(secret, pub)
          IN  \/ /\ kam # None
                 /\ SealIn(p, begin_epoch(session[p], begin_at(session[p]), secret, kam), msg)
              \/ UNCHANGED session
    BY <1>2 DEF SealRekey
  <2> DEFINE kam == wrap_dm_epoch_secret(secret, pub)
             s == begin_epoch(session[p], begin_at(session[p]), secret, kam)
  <2>2. CASE UNCHANGED session
    BY <2>2
  <2>3. CASE kam # None /\ SealIn(p, s, msg)
    <3>1. begin_at(session[p]) \in Epochs
      BY <1>2 DEF SealRekey
    <3>2. s \in Sessions /\ s.ratchet # None /\ kam \in Kams
      BY <2>3, <3>1, RekeySession, ValuesAssumption
    <3>3. Coherent(s)
      BY <3>1, <3>2, CoherentOps
    <3>4. Coherent(advance(s))
      BY <3>2, <3>3, CoherentOps
    <3> HIDE DEF s
    <3> QED
      BY <1>0, <2>3, <3>4 DEF SealIn
  <2> QED
    BY <2>1, <2>2, <2>3
<1>3. ASSUME NEW q \in Parties, NEW f \in net[q], NEW priv, Open(q, f, priv) PROVE CoherentInv'
  <2>1. Coherent(accept_kam(session[q], f, priv))
    BY CoherentOps
  <2>2. \/ session' = [session EXCEPT ![q] = accept_kam(session[q], f, priv)]
        \/ UNCHANGED session
    BY <1>3 DEF Open, OpenOk, OpenFailed, OpenRatchetError, OpenMissingSecret, vars
  <2> QED
    BY <1>0, <2>1, <2>2
<1>4. ASSUME NEW p \in Parties, Restore(p) PROVE CoherentInv'
  BY <1>0, <1>4, CoherentOps DEF Restore
<1>5. ASSUME NEW p \in Parties, Restart(p) PROVE CoherentInv'
  BY <1>0, <1>5, CoherentOps, SnapshotType DEF Restart
<1>6. CASE UNCHANGED session
  BY <1>6
<1> QED
  BY <1>1, <1>2, <1>3, <1>4, <1>5, <1>6 DEF Next, Lose, Damage, Snapshot, ClockStep, vars

\* The sessions stay typed and coherent.
LEMMA Coherence == Spec => [](TypeOK /\ CoherentInv)
<1>1. Init => CoherentInv
  BY DEF Init, CoherentInv, Coherent, NewSession
<1> QED
  BY <1>1, CoherentStep, TypeInvariant, PTL DEF Spec

\* A session restored from its own snapshot is the same session, in every
\* reachable state: two-way use, damaged frames and stale restores included.
THEOREM SnapshotRoundTripHolds == Spec => []SnapshotRoundTrip
<1>1. TypeOK /\ CoherentInv => SnapshotRoundTrip
  BY RoundTrip DEF TypeOK, CoherentInv, SnapshotRoundTrip
<1> QED
  BY <1>1, Coherence, PTL

-----------------------------------------------------------------------------
(* Steps that seal a frame, and steps that do not.                           *)

\* Session s is the one seal takes its key from: p's own, or the one a re-key
\* with a fresh secret has just left.
SealsFrom(p, s) ==
    \/ /\ begin_at(session[p]) = None
       /\ s = session[p]
       /\ drawn' = drawn
    \/ /\ begin_at(session[p]) \in Epochs
       /\ \E secret \in Secrets \ drawn :
            /\ s = begin_epoch(session[p], begin_at(session[p]), secret,
                               [to |-> Peer(p), secret |-> secret])
            /\ drawn' = drawn \cup {secret}

SealStep(p, s, msg) ==
    p \in Senders /\ s.ratchet \in Ratchets /\ SealsFrom(p, s) /\ SealIn(p, s, msg)

\* Party p's ratchet and KAM stay as they are.
SameRatchet(p) ==
    /\ session'[p].ratchet = session[p].ratchet
    /\ session'[p].current_kam = session[p].current_kam

\* Frames on the way and results of open change only by a fault or an open.
TransportStep ==
    \/ UNCHANGED <<net, opened>>
    \/ \E q \in Parties : \E f \in net[q] : Lose(q, f) \/ Damage(q, f)
    \/ \E q \in Parties : \E f \in net[q] : \E priv : OpenOk(q, f, priv)

\* No frame is sealed, and only a stale restore touches a ratchet.
QuietStep ==
    /\ sent' = sent
    /\ drawn \subseteq drawn'
    /\ \A p \in Parties \ StaleRestorers : SameRatchet(p)
    /\ TransportStep

\* Only the application of a stale restorer keeps a snapshot.
SnapInv == \A p \in Parties \ StaleRestorers : snap[p] = None

\* A call of seal is a seal step, unless the wrap of a new secret fails.
LEMMA SealCalls ==
    ASSUME TypeOK, NEW p \in Parties, NEW msg \in Plaintexts
    PROVE  /\ Seal(p, msg) => \E s \in Sessions : SealStep(p, s, msg)
           /\ \A pub \in {Peer(p), BadKey} : SealRekey(p, msg, pub) =>
                \/ \E s \in Sessions : SealStep(p, s, msg)
                \/ /\ UNCHANGED <<session, snap, net, now, nonces, faults, sent, kamSeen, opened>>
                   /\ drawn \subseteq drawn'
<1> USE DEF TypeOK
<1>1. ASSUME Seal(p, msg) PROVE \E s \in Sessions : SealStep(p, s, msg)
  <2>1. session[p] \in Sessions /\ session[p].ratchet \in Ratchets
    BY <1>1, BeginAtNone DEF Seal
  <2>2. SealStep(p, session[p], msg)
    BY <1>1, <2>1 DEF Seal, SealStep, SealsFrom
  <2> QED
    BY <2>1, <2>2
<1>2. ASSUME NEW pub \in {Peer(p), BadKey}, SealRekey(p, msg, pub)
      PROVE  \/ \E s \in Sessions : SealStep(p, s, msg)
             \/ /\ UNCHANGED <<session, snap, net, now, nonces, faults, sent, kamSeen, opened>>
                /\ drawn \subseteq drawn'
  <2>1. PICK secret \in Secrets \ drawn :
          LET kam == wrap_dm_epoch_secret(secret, pub)
          IN  /\ drawn' = drawn \cup {secret}
              /\ \/ /\ kam # None
                    /\ SealIn(p, begin_epoch(session[p], begin_at(session[p]), secret, kam), msg)
                 \/ /\ kam = None
                    /\ UNCHANGED <<session, snap, net, now, nonces, faults, sent, kamSeen, opened>>
    BY <1>2 DEF SealRekey
  <2> DEFINE kam == wrap_dm_epoch_secret(secret, pub)
             s == begin_epoch(session[p], begin_at(session[p]), secret, kam)
  <2>2. CASE kam = None
    BY <2>1, <2>2
  <2>3. CASE kam # None
    <3>1. begin_at(session[p]) \in Epochs /\ p \in Senders
      BY <1>2 DEF SealRekey
    <3>2. s \in Sessions /\ s.ratchet \in Ratchets
      BY <2>3, <3>1, RekeySession
    <3>3. kam = [to |-> Peer(p), secret |-> secret]
      BY <2>3, PartiesAssumption DEF wrap_dm_epoch_secret
    <3>4. SealsFrom(p, s)
      BY <2>1, <3>1, <3>3 DEF SealsFrom
    <3>5. SealIn(p, s, msg)
      BY <2>1, <2>3
    <3> QED
      BY <3>1, <3>2, <3>4, <3>5 DEF SealStep
  <2> QED
    BY <2>2, <2>3
<1> QED
  BY <1>1, <1>2

\* Each step seals one frame or is quiet.
LEMMA StepCases ==
    ASSUME TypeOK, CoherentInv, SnapInv, [Next]_vars
    PROVE  \/ \E p \in Parties, msg \in Plaintexts, s \in Sessions : SealStep(p, s, msg)
           \/ QuietStep
<1> USE DEF TypeOK
<1>1. ASSUME NEW p \in Parties, NEW msg \in Plaintexts, Seal(p, msg)
      PROVE  \E s \in Sessions : SealStep(p, s, msg)
  BY <1>1, SealCalls
<1>2. ASSUME NEW p \in Parties, NEW msg \in Plaintexts, NEW pub \in {Peer(p), BadKey},
             SealRekey(p, msg, pub)
      PROVE  (\E s \in Sessions : SealStep(p, s, msg)) \/ QuietStep
  BY <1>2, SealCalls DEF QuietStep, SameRatchet, TransportStep
<1>3. ASSUME NEW q \in Parties, NEW f \in net[q], NEW priv, Open(q, f, priv) PROVE QuietStep
  <2>1. /\ accept_kam(session[q], f, priv).ratchet = session[q].ratchet
        /\ accept_kam(session[q], f, priv).current_kam = session[q].current_kam
    BY DEF accept_kam, Sessions
  <2>2. \/ session' = [session EXCEPT ![q] = accept_kam(session[q], f, priv)]
        \/ UNCHANGED session
    BY <1>3 DEF Open, OpenOk, OpenFailed, OpenRatchetError, OpenMissingSecret, vars
  <2>3. UNCHANGED <<sent, drawn>>
    BY <1>3 DEF Open, OpenOk, OpenFailed, OpenRatchetError, OpenMissingSecret, vars
  <2>4. UNCHANGED <<net, opened>> \/ OpenOk(q, f, priv)
    BY <1>3 DEF Open, OpenFailed, OpenRatchetError, OpenMissingSecret, vars
  <2>5. TransportStep
    BY <2>4 DEF TransportStep
  <2> QED
    BY <2>1, <2>2, <2>3, <2>5 DEF QuietStep, SameRatchet
<1>4. ASSUME NEW q \in Parties, NEW f \in net[q], Lose(q, f) \/ Damage(q, f) PROVE QuietStep
  BY <1>4 DEF Lose, Damage, QuietStep, SameRatchet, TransportStep
<1>5. ASSUME NEW p \in Parties, Snapshot(p) PROVE QuietStep
  BY <1>5 DEF Snapshot, QuietStep, SameRatchet, TransportStep
<1>6. ASSUME NEW p \in Parties, Restore(p) PROVE QuietStep
  <2>1. p \in StaleRestorers
    BY <1>6 DEF Restore, SnapInv
  <2> QED
    BY <1>6, <2>1 DEF Restore, QuietStep, SameRatchet, TransportStep
<1>7. ASSUME NEW p \in Parties, Restart(p) PROVE QuietStep
  <2>1. restore(snapshot(session[p])) = session[p]
    BY RoundTrip DEF CoherentInv
  <2> QED
    BY <1>7, <2>1 DEF Restart, QuietStep, SameRatchet, TransportStep
<1>8. CASE ClockStep \/ UNCHANGED vars
  BY <1>8 DEF ClockStep, vars, QuietStep, SameRatchet, TransportStep
<1> QED
  BY <1>1, <1>2, <1>3, <1>4, <1>5, <1>6, <1>7, <1>8 DEF Next

\* Snapshots stay with the stale restorers.
LEMMA SnapStep == TypeOK /\ SnapInv /\ [Next]_vars => SnapInv'
<1> SUFFICES ASSUME TypeOK, SnapInv, [Next]_vars PROVE SnapInv'
  OBVIOUS
<1>1. ASSUME NEW p \in Parties, Snapshot(p) PROVE SnapInv'
  BY <1>1 DEF Snapshot, SnapInv, TypeOK
<1>2. CASE UNCHANGED snap
  BY <1>2 DEF SnapInv
<1> QED
  BY <1>1, <1>2 DEF Next, Seal, SealRekey, SealIn, Open, OpenOk, OpenFailed, OpenRatchetError,
        OpenMissingSecret, Lose, Damage, Restore, Restart, ClockStep, vars

\* The invariants so far, together.
BaseInv == TypeOK /\ CoherentInv /\ SnapInv

LEMMA Base == Spec => []BaseInv
<1>1. Init => SnapInv
  BY DEF Init, SnapInv
<1> QED
  BY <1>1, SnapStep, Coherence, PTL DEF Spec, BaseInv

\* What seal puts into a frame, and how far it moves the counter.
LEMMA SealFacts ==
    ASSUME NEW s \in Sessions, s.ratchet \in Ratchets, NEW n \in Nat, NEW msg \in Plaintexts
    PROVE  LET f == seal_frame(s, n, msg)
               r == s.ratchet
           IN  /\ f.epoch = r.epoch /\ f.index = r.message_index /\ f.nonce = n
               /\ f.body.key.secret = r.epoch_secret
               /\ f.body.key.epoch = r.epoch /\ f.body.key.index = r.message_index
               /\ f.body.nonce = n /\ f.body.msg = msg
               /\ f.body.aad = frame_aad(r.epoch, r.message_index)
               /\ advance(s).ratchet =
                    [epoch |-> r.epoch, epoch_secret |-> r.epoch_secret,
                     message_index |-> r.message_index + 1,
                     epoch_started_at |-> r.epoch_started_at]
               /\ advance(s).ratchet # None
<1>1. advance(s).ratchet # None
  BY AdvanceType, ValuesAssumption
<1>2. advance(s).ratchet =
        [epoch |-> s.ratchet.epoch, epoch_secret |-> s.ratchet.epoch_secret,
         message_index |-> s.ratchet.message_index + 1,
         epoch_started_at |-> s.ratchet.epoch_started_at]
  BY DEF advance, next_outbound_key, Sessions, Ratchets
<1> QED
  BY <1>1, <1>2 DEF seal_frame, message_key, derive_dm_message_key

-----------------------------------------------------------------------------
(* The frames as sealed, and what is opened.                                 *)

\* A sealed frame's body is under the key, nonce and AAD of its own slot.
AsSealed(f) ==
    /\ f.body \in Bodies
    /\ f.body.key.epoch = f.epoch /\ f.body.key.index = f.index
    /\ f.body.nonce = f.nonce
    /\ f.body.aad = frame_aad(f.epoch, f.index)

SentInv == \A p \in Parties : \A f \in sent[p] : AsSealed(f)

\* A body that is not damaged is the body of some frame the peer sealed, if in
\* another slot.
NetInv ==
    \A q \in Parties : \A f \in net[q] :
        f.body # Garbled => \E g \in sent[Peer(q)] : g.body = f.body

\* No slot is beyond those an epoch may seal.
SlotsBounded == \A p \in Parties : \A f \in sent[p] : f.index < EpochFrames

HistoryInv == SlotsBounded /\ SentInv /\ NetInv /\ OpenedAsSealed

\* A seal step adds at most one frame, built from session s.
LEMMA SealAdds ==
    ASSUME TypeOK, NEW p \in Parties, NEW s \in Sessions, NEW msg \in Plaintexts,
           SealStep(p, s, msg)
    PROVE  /\ session' = [session EXCEPT ![p] = advance(s)]
           /\ UNCHANGED <<snap, now, kamSeen, opened>>
           /\ \/ /\ sent' = [sent EXCEPT ![p] = @ \cup {seal_frame(s, nonces, msg)}]
                 /\ net' = [net EXCEPT ![Peer(p)] = @ \cup {seal_frame(s, nonces, msg)}]
                 /\ faults' = faults
              \/ UNCHANGED <<sent, net>> /\ faults' = faults + 1
           /\ nonces \in Nat
BY DEF SealStep, SealIn, TypeOK

\* A new frame's slot is one that its epoch may seal.
LEMMA SealBudget ==
    ASSUME TypeOK, NEW p \in Parties, NEW s \in Sessions, SealsFrom(p, s)
    PROVE  s.ratchet.message_index < EpochFrames
<1>1. CASE begin_at(session[p]) = None /\ s = session[p]
  <2>1. /\ s.ratchet \in Ratchets
        /\ ~ should_rekey(s.ratchet.message_index, s.ratchet.epoch_started_at, now,
                          RekeyMsgBound, RekeyAge)
    BY <1>1, BeginAtNone
  <2> QED
    BY <2>1, BoundsAssumption DEF should_rekey, Ratchets, EpochFrames
<1>2. CASE \E e, secret, kam : s = begin_epoch(session[p], e, secret, kam)
  BY <1>2, BoundsAssumption DEF begin_epoch, with_bounds, EpochFrames
<1> QED
  BY <1>1, <1>2 DEF SealsFrom

\* A seal step preserves the history invariants.
LEMMA HistorySeal ==
    ASSUME TypeOK, HistoryInv, NEW p \in Parties, NEW s \in Sessions, NEW msg \in Plaintexts,
           SealStep(p, s, msg)
    PROVE  HistoryInv'
<1> DEFINE f == seal_frame(s, nonces, msg)
<1>1. CASE UNCHANGED <<sent, net, opened>>
  BY <1>1 DEF HistoryInv, SlotsBounded, SentInv, NetInv, OpenedAsSealed
<1>2. CASE /\ sent' = [sent EXCEPT ![p] = @ \cup {f}]
           /\ net' = [net EXCEPT ![Peer(p)] = @ \cup {f}]
           /\ opened' = opened
  <2>1. nonces \in Nat /\ s.ratchet \in Ratchets
    BY DEF TypeOK, SealStep
  <2>2. f.body \in Bodies
    BY <2>1, SealFrameType, ValuesAssumption
  <2>3. AsSealed(f)
    <3>1. /\ f.epoch = s.ratchet.epoch /\ f.index = s.ratchet.message_index
          /\ f.nonce = nonces /\ f.body.nonce = nonces
          /\ f.body.key.epoch = s.ratchet.epoch /\ f.body.key.index = s.ratchet.message_index
          /\ f.body.aad = frame_aad(s.ratchet.epoch, s.ratchet.message_index)
      BY DEF seal_frame, message_key, derive_dm_message_key
    <3> HIDE DEF f
    <3> QED
      BY <2>2, <3>1 DEF AsSealed
  <2>4. f.index < EpochFrames
    <3>1. f.index = s.ratchet.message_index
      BY DEF seal_frame
    <3> QED
      BY <3>1, SealBudget DEF SealStep
  <2> HIDE DEF f
  <2>5. \A q \in Parties : sent'[q] = IF q = p THEN sent[q] \cup {f} ELSE sent[q]
    BY <1>2 DEF TypeOK
  <2>6. \A q \in Parties : net'[q] = IF q = Peer(p) THEN net[q] \cup {f} ELSE net[q]
    BY <1>2, PeerType DEF TypeOK
  <2>7. SlotsBounded'
    BY <2>4, <2>5 DEF HistoryInv, SlotsBounded
  <2>8. SentInv'
    BY <2>3, <2>5 DEF HistoryInv, SentInv, AsSealed
  <2>9. \A q \in Parties : sent[Peer(q)] \subseteq sent'[Peer(q)]
    BY <2>5, PeerType
  <2>10. NetInv'
    <3> SUFFICES ASSUME NEW q \in Parties, NEW h \in net'[q], h.body # Garbled
                 PROVE  \E g \in sent'[Peer(q)] : g.body = h.body
      BY DEF NetInv
    <3>1. CASE h \in net[q]
      BY <3>1, <2>9 DEF HistoryInv, NetInv
    <3>2. CASE h = f /\ q = Peer(p)
      BY <3>2, <2>5, PeerType
    <3> QED
      BY <3>1, <3>2, <2>6
  <2>11. OpenedAsSealed'
    BY <1>2, <2>9 DEF HistoryInv, OpenedAsSealed
  <2> QED
    BY <2>7, <2>8, <2>10, <2>11 DEF HistoryInv
<1> QED
  BY <1>1, <1>2, SealAdds

\* What open returns was sealed in that slot: the key and the AAD bind the body
\* to the slot and the nonce the frame carries.
LEMMA OpenAuthentic ==
    ASSUME TypeOK, SentInv, NetInv, NEW q \in Parties, NEW f \in net[q], NEW s, body_opens(s, f)
    PROVE  \E g \in sent[Peer(q)] :
              /\ <<g.epoch, g.index, g.nonce>> = <<f.epoch, f.index, f.nonce>>
              /\ g.body.msg = f.body.msg
              /\ g.body = f.body
<1>1. PICK g \in sent[Peer(q)] : g.body = f.body
  BY DEF NetInv, body_opens
<1>2. AsSealed(g)
  BY PeerType DEF SentInv
<1>3. f.body.key.epoch = f.epoch /\ f.body.key.index = f.index /\ f.body.nonce = f.nonce
  BY DEF body_opens, derive_dm_message_key
<1> QED
  BY <1>1, <1>2, <1>3 DEF AsSealed

\* Every step preserves the history invariants.
LEMMA HistoryStep == BaseInv /\ HistoryInv /\ [Next]_vars => HistoryInv'
<1> SUFFICES ASSUME BaseInv, HistoryInv, [Next]_vars PROVE HistoryInv'
  OBVIOUS
<1> USE DEF BaseInv
<1>1. ASSUME NEW p \in Parties, NEW msg \in Plaintexts, NEW s \in Sessions, SealStep(p, s, msg)
      PROVE  HistoryInv'
  BY <1>1, HistorySeal
<1>2. ASSUME NEW q \in Parties, NEW f \in net[q], NEW priv, OpenOk(q, f, priv)
      PROVE  HistoryInv'
  <2>1. PICK g \in sent[Peer(q)] :
              /\ <<g.epoch, g.index, g.nonce>> = <<f.epoch, f.index, f.nonce>>
              /\ g.body.msg = f.body.msg
    BY <1>2, OpenAuthentic DEF OpenOk, HistoryInv
  <2>2. UNCHANGED <<sent, net>>
    BY <1>2 DEF OpenOk
  <2>3. OpenedAsSealed'
    <3> SUFFICES ASSUME NEW x \in Parties, NEW o \in opened'[x]
                 PROVE  \E h \in sent[Peer(x)] :
                          /\ <<h.epoch, h.index, h.nonce>> = <<o.epoch, o.index, o.nonce>>
                          /\ h.body.msg = o.msg
      BY <2>2 DEF OpenedAsSealed
    <3>1. CASE o \in opened[x]
      BY <3>1 DEF HistoryInv, OpenedAsSealed
    <3>2. CASE x = q /\ o = Item(f)
      BY <2>1, <3>2 DEF Item
    <3> QED
      BY <1>2, <3>1, <3>2 DEF OpenOk, TypeOK
  <2> QED
    BY <2>2, <2>3 DEF HistoryInv, SlotsBounded, SentInv, NetInv
<1>3. ASSUME NEW q \in Parties, NEW f \in net[q], Damage(q, f) PROVE HistoryInv'
  <2>1. PICK g \in DamagedForms(q, f) : net' = [net EXCEPT ![q] = (@ \ {f}) \cup {g}]
    BY <1>3 DEF Damage
  <2>2. UNCHANGED <<sent, opened>>
    BY <1>3 DEF Damage
  <2>3. g.body = f.body \/ g.body = Garbled
    BY DamagedType DEF TypeOK
  <2>4. NetInv'
    BY <2>1, <2>2, <2>3 DEF HistoryInv, NetInv, TypeOK
  <2> QED
    BY <2>2, <2>4 DEF HistoryInv, SlotsBounded, SentInv, OpenedAsSealed
<1>4. ASSUME NEW q \in Parties, NEW f \in net[q], Lose(q, f) PROVE HistoryInv'
  BY <1>4 DEF Lose, HistoryInv, SlotsBounded, SentInv, NetInv, OpenedAsSealed, TypeOK
<1>5. CASE UNCHANGED <<sent, net, opened>>
  BY <1>5 DEF HistoryInv, SlotsBounded, SentInv, NetInv, OpenedAsSealed
<1>6. CASE QuietStep
  BY <1>2, <1>3, <1>4, <1>5, <1>6 DEF QuietStep, TransportStep
<1> QED
  BY <1>1, <1>6, StepCases

\* The history invariants hold throughout.
LEMMA History == Spec => [](BaseInv /\ HistoryInv)
<1>1. Init => HistoryInv
  BY DEF Init, HistoryInv, SlotsBounded, SentInv, NetInv, OpenedAsSealed
<1> QED
  BY <1>1, HistoryStep, Base, PTL DEF Spec

\* open returns nothing but what the peer sealed in that slot, with every kind
\* of damage, in two-way use and after stale restores.
THEOREM OpenedAsSealedHolds == Spec => []OpenedAsSealed
BY History, PTL DEF HistoryInv

-----------------------------------------------------------------------------
(* No message key is used twice.                                             *)

Steady == Parties \ StaleRestorers

\* Frame f was sealed before ratchet r reached its present slot.
Behind(f, r) ==
    \/ f.epoch < r.epoch /\ f.body.key.secret # r.epoch_secret
    \/ /\ f.epoch = r.epoch /\ f.body.key.secret = r.epoch_secret
       /\ f.index < r.message_index

\* Every secret in use was drawn; all of p's frames are behind p's ratchet.
RatchetAhead ==
    \A p \in Steady :
        /\ session[p].ratchet # None => session[p].ratchet.epoch_secret \in drawn
        /\ \A f \in sent[p] :
             /\ f.body.key.secret \in drawn
             /\ session[p].ratchet # None
             /\ Behind(f, session[p].ratchet)

\* The parties' secrets are apart.
SecretsApart ==
    \A p, q \in Steady : p # q /\ session[q].ratchet # None =>
        /\ session[p].ratchet # None =>
             session[p].ratchet.epoch_secret # session[q].ratchet.epoch_secret
        /\ \A f \in sent[p] : f.body.key.secret # session[q].ratchet.epoch_secret

KeyInv == RatchetAhead /\ SecretsApart /\ KeysNeverReused

\* Where the frame sealed next lies: the ratchet's secret in session s is fresh,
\* or it is the one p was already using, at the counter's present value.
LEMMA SealPoint ==
    ASSUME TypeOK, KeyInv, NEW p \in Steady, NEW s \in Sessions, SealsFrom(p, s)
    PROVE  /\ drawn \subseteq drawn'
           /\ s.ratchet.epoch_secret \in drawn'
           /\ \A f \in sent[p] : Behind(f, s.ratchet)
           /\ \A q \in Steady : q # p =>
                /\ session[q].ratchet # None =>
                     session[q].ratchet.epoch_secret # s.ratchet.epoch_secret
                /\ \A f \in sent[q] : f.body.key.secret # s.ratchet.epoch_secret
           /\ (session[p].ratchet # None /\ s.ratchet.epoch_secret # session[p].ratchet.epoch_secret)
                => s.ratchet.epoch_secret \notin drawn
           /\ session[p].ratchet = None => s.ratchet.epoch_secret \notin drawn
<1> USE DEF Steady
<1>1. CASE begin_at(session[p]) = None /\ s = session[p] /\ drawn' = drawn
  <2>1. session[p].ratchet # None
    BY <1>1, BeginAtNone, ValuesAssumption DEF TypeOK
  <2> QED
    BY <1>1, <2>1 DEF KeyInv, RatchetAhead, SecretsApart
<1>2. CASE /\ begin_at(session[p]) \in Epochs
           /\ \E secret \in Secrets \ drawn :
                /\ s = begin_epoch(session[p], begin_at(session[p]), secret,
                                   [to |-> Peer(p), secret |-> secret])
                /\ drawn' = drawn \cup {secret}
  <2>1. PICK secret \in Secrets \ drawn :
           /\ s = begin_epoch(session[p], begin_at(session[p]), secret,
                              [to |-> Peer(p), secret |-> secret])
           /\ drawn' = drawn \cup {secret}
    BY <1>2
  <2>2. s.ratchet.epoch_secret = secret /\ s.ratchet.epoch = begin_at(session[p])
    BY <2>1 DEF begin_epoch, with_bounds
  <2>3. \A f \in sent[p] : f.epoch < s.ratchet.epoch
    <3> SUFFICES ASSUME NEW f \in sent[p] PROVE f.epoch < s.ratchet.epoch
      OBVIOUS
    <3>1. session[p].ratchet # None /\ Behind(f, session[p].ratchet)
      BY DEF KeyInv, RatchetAhead
    <3>2. session[p].ratchet \in Ratchets /\ f \in Frames
      BY <3>1 DEF TypeOK, Sessions
    <3>3. begin_at(session[p]) = session[p].ratchet.epoch + 1
      BY <1>2, <3>1, ValuesAssumption DEF begin_at, Epochs
    <3> QED
      BY <2>2, <3>1, <3>2, <3>3, BoundsAssumption DEF Behind, Ratchets, Frames, Epochs
  <2>4. \A f \in sent[p] : f.body.key.secret # secret
    BY DEF KeyInv, RatchetAhead
  <2>5. \A f \in sent[p] : Behind(f, s.ratchet)
    BY <2>2, <2>3, <2>4 DEF Behind
  <2> QED
    BY <2>1, <2>2, <2>5 DEF KeyInv, RatchetAhead
<1> QED
  BY <1>1, <1>2 DEF SealsFrom

\* Being behind is kept when the counter moves on.
LEMMA BehindAdvance ==
    ASSUME NEW s \in Sessions, s.ratchet \in Ratchets, NEW f \in Frames, Behind(f, s.ratchet)
    PROVE  Behind(f, advance(s).ratchet)
<1>1. advance(s).ratchet =
        [epoch |-> s.ratchet.epoch, epoch_secret |-> s.ratchet.epoch_secret,
         message_index |-> s.ratchet.message_index + 1,
         epoch_started_at |-> s.ratchet.epoch_started_at]
  BY DEF advance, next_outbound_key, Sessions, Ratchets
<1> QED
  BY <1>1 DEF Behind, Ratchets, Frames

\* A seal step of a steady party preserves the key invariant: its frame is at
\* the slot the ratchet leaves behind.
LEMMA KeySeal ==
    ASSUME TypeOK, SentInv, KeyInv, NEW p \in Steady, NEW s \in Sessions, NEW msg \in Plaintexts,
           SealStep(p, s, msg)
    PROVE  KeyInv'
<1> DEFINE f == seal_frame(s, nonces, msg)
           r == advance(s).ratchet
<1>1. p \in Parties /\ s.ratchet \in Ratchets /\ SealsFrom(p, s) /\ nonces \in Nat
  BY DEF Steady, SealStep, TypeOK
<1>2. /\ drawn \subseteq drawn'
      /\ s.ratchet.epoch_secret \in drawn'
      /\ \A g \in sent[p] : Behind(g, s.ratchet)
      /\ \A q \in Steady : q # p =>
           /\ session[q].ratchet # None =>
                session[q].ratchet.epoch_secret # s.ratchet.epoch_secret
           /\ \A g \in sent[q] : g.body.key.secret # s.ratchet.epoch_secret
  BY <1>1, SealPoint
<1>3. /\ f.epoch = s.ratchet.epoch /\ f.index = s.ratchet.message_index
      /\ f.body.key.secret = s.ratchet.epoch_secret
      /\ f.body.key.epoch = s.ratchet.epoch /\ f.body.key.index = s.ratchet.message_index
      /\ r = [epoch |-> s.ratchet.epoch, epoch_secret |-> s.ratchet.epoch_secret,
              message_index |-> s.ratchet.message_index + 1,
              epoch_started_at |-> s.ratchet.epoch_started_at]
      /\ r # None
  BY <1>1, SealFacts
<1>4. \A g \in sent[p] : Behind(g, r)
  BY <1>1, <1>2, BehindAdvance DEF TypeOK
<1>5. \A q \in Parties : session'[q].ratchet = IF q = p THEN r ELSE session[q].ratchet
  BY <1>1, SealAdds DEF TypeOK
<1> HIDE DEF f, r
<1>6. Behind(f, r)
  BY <1>1, <1>3 DEF Behind, Ratchets
<1>7. /\ \A q \in Parties : q # p => sent'[q] = sent[q]
      /\ sent[p] \subseteq sent'[p]
      /\ sent'[p] \subseteq sent[p] \cup {f}
  <2>1. \/ sent' = [sent EXCEPT ![p] = @ \cup {f}]
        \/ sent' = sent
    BY <1>1, SealAdds DEF f
  <2> QED
    BY <1>1, <2>1 DEF TypeOK
<1>8. RatchetAhead'
  <2> SUFFICES ASSUME NEW q \in Steady
               PROVE  /\ session'[q].ratchet # None => session'[q].ratchet.epoch_secret \in drawn'
                      /\ \A g \in sent'[q] :
                           /\ g.body.key.secret \in drawn'
                           /\ session'[q].ratchet # None
                           /\ Behind(g, session'[q].ratchet)
    BY DEF RatchetAhead, Behind, Steady
  <2>1. CASE q # p
    BY <1>2, <1>5, <1>7, <2>1 DEF KeyInv, RatchetAhead, Steady
  <2>2. CASE q = p
    <3>1. session'[p].ratchet = r
      BY <1>1, <1>5
    <3>2. r.epoch_secret \in drawn'
      BY <1>2, <1>3
    <3>3. \A g \in sent[p] : g.body.key.secret \in drawn'
      BY <1>2 DEF KeyInv, RatchetAhead
    <3> QED
      BY <1>2, <1>3, <1>4, <1>6, <1>7, <2>2, <3>1, <3>2, <3>3
  <2> QED
    BY <2>1, <2>2
<1>9. SecretsApart'
  <2> SUFFICES ASSUME NEW x \in Steady, NEW q \in Steady, x # q, session'[q].ratchet # None
               PROVE  /\ session'[x].ratchet # None =>
                           session'[x].ratchet.epoch_secret # session'[q].ratchet.epoch_secret
                      /\ \A g \in sent'[x] :
                           g.body.key.secret # session'[q].ratchet.epoch_secret
    BY DEF SecretsApart, Steady
  <2>0. x \in Parties /\ q \in Parties
    BY DEF Steady
  <2>1. CASE x # p /\ q # p
    BY <1>5, <1>7, <2>0, <2>1 DEF KeyInv, SecretsApart
  <2>2. CASE q = p
    <3>1. session'[q].ratchet.epoch_secret = s.ratchet.epoch_secret
      BY <1>3, <1>5, <2>0, <2>2
    <3> QED
      BY <1>2, <1>5, <1>7, <2>0, <2>2, <3>1
  <2>3. CASE x = p
    <3>1. session'[q].ratchet = session[q].ratchet
      BY <1>5, <2>0, <2>3
    <3>2. session'[x].ratchet.epoch_secret = s.ratchet.epoch_secret
      BY <1>3, <1>5, <2>0, <2>3
    <3>3. \A g \in sent[p] : g.body.key.secret # session[q].ratchet.epoch_secret
      BY <2>3, <3>1 DEF KeyInv, SecretsApart
    <3> QED
      BY <1>2, <1>3, <1>7, <2>3, <3>1, <3>2, <3>3
  <2> QED
    BY <2>1, <2>2, <2>3
<1>10. KeysNeverReused'
  <2> SUFFICES ASSUME NEW x \in Steady, NEW q \in Steady, NEW g \in sent'[x], NEW h \in sent'[q]
               PROVE  /\ g.body.key = h.body.key => x = q /\ g = h
                      /\ g.body.key.secret = h.body.key.secret => x = q /\ g.epoch = h.epoch
    BY DEF KeysNeverReused, Steady
  <2>0. x \in Parties /\ q \in Parties
    BY DEF Steady
  <2>1. CASE g \in sent[x] /\ h \in sent[q]
    BY <2>1 DEF KeyInv, KeysNeverReused, Steady
  <2>2. ASSUME NEW y \in Steady, NEW k \in sent[y]
        PROVE  /\ k.body.key # f.body.key
               /\ k.body.key.secret = f.body.key.secret => y = p /\ k.epoch = f.epoch
    <3>1. CASE y # p
      BY <1>2, <1>3, <2>2, <3>1
    <3>2. CASE y = p
      <4>1. Behind(k, s.ratchet)
        BY <1>2, <3>2
      <4>2. k.body.key.index = k.index /\ k \in Frames
        BY <1>1, <3>2 DEF SentInv, AsSealed, TypeOK
      <4> QED
        BY <1>1, <1>3, <3>2, <4>1, <4>2 DEF Behind, Ratchets, Frames
    <3> QED
      BY <3>1, <3>2
  <2>3. CASE g \notin sent[x] /\ h \notin sent[q]
    BY <1>7, <2>0, <2>3
  <2>4. CASE g \in sent[x] /\ h \notin sent[q]
    BY <1>7, <2>0, <2>2, <2>4
  <2>5. CASE g \notin sent[x] /\ h \in sent[q]
    BY <1>7, <2>0, <2>2, <2>5
  <2> QED
    BY <2>1, <2>3, <2>4, <2>5
<1> QED
  BY <1>8, <1>9, <1>10 DEF KeyInv

\* Every step preserves the key invariant.
LEMMA KeyStep == BaseInv /\ HistoryInv /\ KeyInv /\ [Next]_vars => KeyInv'
<1> SUFFICES ASSUME BaseInv, HistoryInv, KeyInv, [Next]_vars PROVE KeyInv'
  OBVIOUS
<1>1. ASSUME NEW p \in Parties, NEW msg \in Plaintexts, NEW s \in Sessions, SealStep(p, s, msg)
      PROVE  KeyInv'
  <2>1. CASE p \in Steady
    BY <1>1, <2>1, KeySeal DEF BaseInv, HistoryInv
  <2>2. CASE p \notin Steady
    <3>1. \A q \in Steady : session'[q] = session[q] /\ sent'[q] = sent[q]
      BY <1>1, <2>2, SealAdds DEF Steady, BaseInv, TypeOK
    <3>2. drawn \subseteq drawn'
      BY <1>1 DEF SealStep, SealsFrom
    <3> QED
      BY <3>1, <3>2 DEF KeyInv, RatchetAhead, SecretsApart, KeysNeverReused, Steady, Behind
  <2> QED
    BY <2>1, <2>2
<1>2. CASE QuietStep
  <2>1. \A q \in Steady : session'[q].ratchet = session[q].ratchet
    BY <1>2 DEF QuietStep, SameRatchet, Steady
  <2>2. sent' = sent /\ drawn \subseteq drawn'
    BY <1>2 DEF QuietStep
  <2> QED
    BY <2>1, <2>2 DEF KeyInv, RatchetAhead, SecretsApart, KeysNeverReused, Steady, Behind
<1> QED
  BY <1>1, <1>2, StepCases DEF BaseInv

\* The key invariant holds throughout.
LEMMA KeyInvariant == Spec => [](BaseInv /\ HistoryInv /\ KeyInv)
<1>1. Init => KeyInv
  BY DEF Init, KeyInv, RatchetAhead, SecretsApart, KeysNeverReused, Steady, NewSession
<1> QED
  BY <1>1, KeyStep, History, PTL DEF Spec

\* No message key ever seals two frames, and no epoch secret serves two epochs
\* or two parties, as long as the sealing application restores current
\* snapshots only: for all bounds, with failed wraps and encryptions, clock
\* changes and restarts.
THEOREM KeysNeverReusedHolds == Spec => []KeysNeverReused
BY KeyInvariant, PTL DEF KeyInv

-----------------------------------------------------------------------------
(* How much is sealed under one epoch.                                       *)

\* A steady party seals no slot again.
SlotsApart ==
    \A p \in Steady : \A f, g \in sent[p] : f.epoch = g.epoch /\ f.index = g.index => f = g

\* A seal step of a steady party puts its frame into a slot beyond all others.
LEMMA SlotsSeal ==
    ASSUME TypeOK, KeyInv, SlotsApart, NEW p \in Parties, NEW s \in Sessions,
           NEW msg \in Plaintexts, SealStep(p, s, msg)
    PROVE  SlotsApart'
<1> SUFFICES ASSUME NEW q \in Steady, NEW g \in sent'[q], NEW h \in sent'[q],
                    g.epoch = h.epoch, g.index = h.index
             PROVE  g = h
  BY DEF SlotsApart
<1>1. CASE sent'[q] = sent[q]
  BY <1>1 DEF SlotsApart
<1>2. CASE q = p /\ sent'[q] = sent[q] \cup {seal_frame(s, nonces, msg)}
  <2>1. PICK f : f = seal_frame(s, nonces, msg)
    OBVIOUS
  <2>2. s.ratchet \in Ratchets /\ f.epoch = s.ratchet.epoch /\ f.index = s.ratchet.message_index
    BY <2>1 DEF SealStep, seal_frame
  <2>3. \A k \in sent[p] : Behind(k, s.ratchet)
    BY <1>2, SealPoint DEF SealStep
  <2>4. \A k \in sent[p] : ~ (k.epoch = f.epoch /\ k.index = f.index)
    <3> SUFFICES ASSUME NEW k \in sent[p], k.epoch = f.epoch, k.index = f.index PROVE FALSE
      OBVIOUS
    <3>1. k \in Frames /\ Behind(k, s.ratchet)
      BY <2>3 DEF TypeOK
    <3> QED
      BY <2>2, <3>1 DEF Behind, Ratchets, Frames, Epochs
  <2> QED
    BY <1>2, <2>1, <2>4 DEF SlotsApart
<1>3. sent'[q] = sent[q] \/ (q = p /\ sent'[q] = sent[q] \cup {seal_frame(s, nonces, msg)})
  BY SealAdds DEF TypeOK, Steady
<1> QED
  BY <1>1, <1>2, <1>3

\* Every step keeps the slots of steady parties apart.
LEMMA SlotsStep == BaseInv /\ HistoryInv /\ KeyInv /\ SlotsApart /\ [Next]_vars => SlotsApart'
<1> SUFFICES ASSUME BaseInv, HistoryInv, KeyInv, SlotsApart, [Next]_vars PROVE SlotsApart'
  OBVIOUS
<1>1. ASSUME NEW p \in Parties, NEW msg \in Plaintexts, NEW s \in Sessions, SealStep(p, s, msg)
      PROVE  SlotsApart'
  BY <1>1, SlotsSeal DEF BaseInv
<1>2. CASE QuietStep
  BY <1>2 DEF QuietStep, SlotsApart
<1> QED
  BY <1>1, <1>2, StepCases DEF BaseInv

\* Frames in different slots below a bound are no more than the bound.
LEMMA FramesCounted ==
    ASSUME TypeOK, SlotsBounded, SlotsApart, NEW p \in Steady, NEW e \in Epochs
    PROVE  Cardinality({f \in sent[p] : f.epoch = e}) <= EpochFrames
<1> DEFINE S == {f \in sent[p] : f.epoch = e}
           T == 0 .. EpochFrames - 1
           place == [f \in S |-> f.index]
<1>1. place \in [S -> T]
  <2> SUFFICES ASSUME NEW f \in S PROVE f.index \in T
    OBVIOUS
  <2>1. f \in Frames /\ f.index < EpochFrames
    BY DEF TypeOK, SlotsBounded, Steady
  <2> QED
    BY <2>1, BoundsAssumption DEF Frames, EpochFrames
<1>2. \A f, g \in S : place[f] = place[g] => f = g
  BY DEF SlotsApart
<1>3. place \in Injection(S, T)
  BY <1>1, <1>2 DEF Injection, IsInjective
<1>4. IsFiniteSet(T) /\ Cardinality(T) = EpochFrames
  <2>1. PICK z \in Int : z = EpochFrames - 1 /\ EpochFrames \in Nat
    BY BoundsAssumption DEF EpochFrames
  <2>2. IsFiniteSet(0 .. z) /\ Cardinality(0 .. z) = IF 0 > z THEN 0 ELSE z - 0 + 1
    BY FS_Interval
  <2>3. (IF 0 > z THEN 0 ELSE z - 0 + 1) = EpochFrames
    BY <2>1
  <2> QED
    BY <2>1, <2>2, <2>3, Zenon
<1>5. Cardinality(S) <= Cardinality(T)
  BY <1>3, <1>4, FS_Injection
<1> QED
  BY <1>4, <1>5

\* A party whose application saves after every call seals at most its bound of
\* frames in an epoch, for every bound, whatever the clock, the failures and the
\* restarts: the frames are in different slots, none beyond the bound.  Parties
\* that restore old snapshots seal no slot beyond the bound either.
THEOREM EpochBudgetHolds == Spec => []EpochBudget
<1>1. Init => SlotsApart
  BY DEF Init, SlotsApart, Steady
<1>2. Spec => []SlotsApart
  BY <1>1, SlotsStep, KeyInvariant, PTL DEF Spec
<1>3. BaseInv /\ HistoryInv /\ SlotsApart => EpochBudget
  BY FramesCounted DEF BaseInv, HistoryInv, SlotsBounded, EpochBudget, Steady
<1> QED
  BY <1>2, <1>3, History, PTL

-----------------------------------------------------------------------------
(* The sessions implement the slot channel.                                  *)

\* A party's items, in the channel's terms.
SealedItems(p) == {Item(f) : f \in sent[p]}

\* A seal step puts an item into a later slot, or is invisible.
LEMMA SealPuts ==
    ASSUME BaseInv, HistoryInv, KeyInv, StaleRestorers = {}, NEW p \in Parties,
           NEW s \in Sessions, NEW msg \in Plaintexts, SealStep(p, s, msg)
    PROVE  [Channel!ChNext]_(Channel!chvars)
<1> DEFINE f == seal_frame(s, nonces, msg)
<1>1. TypeOK /\ p \in Steady /\ s.ratchet \in Ratchets /\ SealsFrom(p, s) /\ nonces \in Nat
  BY DEF BaseInv, Steady, SealStep, TypeOK
<1>2. CASE UNCHANGED <<sent, opened>>
  BY <1>2 DEF Channel!chvars
<1>3. CASE sent' = [sent EXCEPT ![p] = @ \cup {f}] /\ opened' = opened
  <2>1. f.epoch = s.ratchet.epoch /\ f.index = s.ratchet.message_index
    BY DEF seal_frame
  <2>2. f \in Frames /\ f.body \in Bodies
    BY <1>1, SealFrameType, ValuesAssumption
  <2> HIDE DEF f
  <2>3. \A g \in sent[p] : Behind(g, s.ratchet)
    BY <1>1, SealPoint DEF BaseInv
  <2>4. Item(f) \in Channel!Items
    BY <2>2, BoundsAssumption DEF Item, Channel!Items, Frames, Bodies, Epochs
  <2>5. \A old \in SealedItems(p) : Channel!Later(Item(f), old)
    <3> SUFFICES ASSUME NEW g \in sent[p] PROVE Channel!Later(Item(f), Item(g))
      BY DEF SealedItems
    <3>1. g \in Frames
      BY <1>1 DEF TypeOK
    <3> QED
      BY <1>1, <2>1, <2>3, <3>1, BoundsAssumption
         DEF Behind, Channel!Later, Item, Frames, Ratchets, Epochs
  <2>6. SealedItems(p)' = SealedItems(p) \cup {Item(f)}
    BY <1>1, <1>3 DEF SealedItems, TypeOK, Item
  <2>7. \A q \in Parties : q # p => SealedItems(q)' = SealedItems(q)
    BY <1>1, <1>3 DEF SealedItems, TypeOK, Item
  <2>8. [q \in Parties |-> SealedItems(q)]' =
          [[q \in Parties |-> SealedItems(q)] EXCEPT ![p] = @ \cup {Item(f)}]
    BY <2>6, <2>7
  <2>9. PICK it : it = Item(f)
    OBVIOUS
  <2>10. Channel!Put(p, it)
    BY <1>3, <2>4, <2>5, <2>8, <2>9 DEF Channel!Put, SealedItems
  <2>11. it \in [q \in Parties |-> {Item(g) : g \in sent[q]}]'[p]
    BY <2>6, <2>9 DEF SealedItems
  <2>12. p \in {Alice, Bob}
    BY DEF Parties
  <2> QED
    BY <2>10, <2>11, <2>12 DEF Channel!ChNext
<1> QED
  BY <1>1, <1>2, <1>3, SealAdds

\* An open that succeeds reads an item the peer put.
LEMMA OpenReads ==
    ASSUME BaseInv, HistoryInv, NEW q \in Parties, NEW f \in net[q], NEW priv,
           OpenOk(q, f, priv)
    PROVE  Channel!ChNext
<1>1. PICK g \in sent[Peer(q)] :
         /\ <<g.epoch, g.index, g.nonce>> = <<f.epoch, f.index, f.nonce>>
         /\ g.body.msg = f.body.msg
  BY OpenAuthentic DEF OpenOk, BaseInv, HistoryInv
<1>2. Item(f) \in SealedItems(Peer(q))
  BY <1>1 DEF SealedItems, Item
<1>3. Channel!PeerOf(q) = Peer(q)
  BY DEF Channel!PeerOf, Peer
<1>4. sent' = sent /\ opened' = [opened EXCEPT ![q] = @ \cup {Item(f)}]
  BY DEF OpenOk
<1>5. Channel!Read(q, Item(f))
  BY <1>2, <1>3, <1>4, PeerType DEF Channel!Read, SealedItems
<1> QED
  BY <1>2, <1>3, <1>5, PeerType DEF Channel!ChNext, SealedItems, Parties

\* Provided both applications restore current snapshots only, the two sessions
\* implement the slot channel: each party's slots only move forward, and open
\* returns what the peer sealed in that slot.
THEOREM Refinement == ASSUME StaleRestorers = {} PROVE Spec => ImplementsSlotChannel
<1>1. Init => Channel!ChInit
  BY DEF Init, Channel!ChInit, Parties
<1>2. BaseInv /\ HistoryInv /\ KeyInv /\ [Next]_vars => [Channel!ChNext]_(Channel!chvars)
  <2> SUFFICES ASSUME BaseInv, HistoryInv, KeyInv, [Next]_vars
               PROVE  [Channel!ChNext]_(Channel!chvars)
    OBVIOUS
  <2>1. ASSUME NEW p \in Parties, NEW msg \in Plaintexts, NEW s \in Sessions,
               SealStep(p, s, msg)
        PROVE  [Channel!ChNext]_(Channel!chvars)
    BY <2>1, SealPuts
  <2>2. CASE QuietStep
    <3>1. ASSUME NEW q \in Parties, NEW f \in net[q], NEW priv, OpenOk(q, f, priv)
          PROVE  Channel!ChNext
      BY <3>1, OpenReads
    <3>2. CASE opened' = opened
      BY <2>2, <3>2 DEF QuietStep, Channel!chvars
    <3> QED
      BY <2>2, <3>1, <3>2 DEF QuietStep, TransportStep, Lose, Damage
  <2> QED
    BY <2>1, <2>2, StepCases DEF BaseInv
<1> QED
  BY <1>1, <1>2, KeyInvariant, PTL DEF Spec, ImplementsSlotChannel, Channel!ChSpec
-----------------------------------------------------------------------------
(* Conversations in one direction.                                           *)

\* At most one of the two parties seals.
OneWay == Alice \notin Senders \/ Bob \notin Senders

\* The parties that never seal.
Listeners == Parties \ Senders

\* Nothing is on its way from a listener.
SilentInv == \A q \in Listeners : sent[q] = {} /\ net[Peer(q)] = {} /\ kamSeen[Peer(q)] = {}

\* A speaker stores secrets of its own epochs only, up to the current one, whose
\* KAM is addressed to the listener.
SpeakerInv ==
    \A q \in Listeners : LET s == session[Peer(q)] IN
        /\ \A e \in Epochs : s.epoch_secrets[e] # None => s.ratchet # None /\ e <= s.ratchet.epoch
        /\ s.ratchet # None => s.current_kam = [to |-> q, secret |-> s.ratchet.epoch_secret]
        /\ \A f \in sent[Peer(q)] : f.body.key.secret = s.epoch_secrets[f.epoch]

\* A KAM on its way is that of its frame's epoch.
KamInv ==
    \A q \in Listeners : \A f \in net[q] :
        f.kam \in Kams => f.kam = [to |-> q, secret |-> session[Peer(q)].epoch_secrets[f.epoch]]

\* A listener's secrets are the speaker's, and those of all KAMs seen are stored.
ListenerInv ==
    \A q \in Listeners :
        /\ \A e \in Epochs : session[q].epoch_secrets[e] # None =>
             session[q].epoch_secrets[e] = session[Peer(q)].epoch_secrets[e]
        /\ \A x \in kamSeen[q] : session[q].epoch_secrets[x[1]] = x[2]

\* Slot i of epoch e has been given to a frame, sent or not.
Given(p, e, i) ==
    \/ \E f \in sent[p] : f.epoch = e /\ i <= f.index
    \/ /\ session[p].ratchet # None
       /\ session[p].ratchet.epoch = e
       /\ i < session[p].ratchet.message_index

\* The transport still offers the KAM that the frame of that slot carries.
Carried(q, e, i) == \E g \in net[q] : g.epoch = e /\ g.index = i /\ g.kam \in Kams

\* The slots whose copy of the KAM is gone.
Missing(q, e) == {i \in 0..(KamRepeat - 1) : Given(Peer(q), e, i) /\ ~ Carried(q, e, i)}

\* Each copy that is gone was a fault.
MissingInv == \A q \in Listeners : \A e \in Epochs : Cardinality(Missing(q, e)) <= faults

OneWayInv == SilentInv /\ SpeakerInv /\ KamInv /\ ListenerInv /\ MissingInv

-----------------------------------------------------------------------------
(* The steps of sessions whose applications save after every call.           *)

\* Neither a session nor the transport changes.
IdleStep == UNCHANGED <<session, net, faults, sent, kamSeen>>

\* A frame meets a fault.
FaultStep(q, f) == Lose(q, f) \/ Damage(q, f)

\* Each step seals, opens, is a fault or is idle.
LEMMA DirectSteps ==
    ASSUME BaseInv, StaleRestorers = {}, [Next]_vars
    PROVE  \/ \E p \in Parties, msg \in Plaintexts, s \in Sessions : SealStep(p, s, msg)
           \/ \E q \in Parties : \E f \in net[q], priv \in {q, BadKey} : Open(q, f, priv)
           \/ \E q \in Parties : \E f \in net[q] : FaultStep(q, f)
           \/ IdleStep
<1> USE DEF BaseInv
<1>1. ASSUME NEW p \in Parties, NEW msg \in Plaintexts, Seal(p, msg)
      PROVE  \E s \in Sessions : SealStep(p, s, msg)
  BY <1>1, SealCalls
<1>2. ASSUME NEW p \in Parties, NEW msg \in Plaintexts, NEW pub \in {Peer(p), BadKey},
             SealRekey(p, msg, pub)
      PROVE  (\E s \in Sessions : SealStep(p, s, msg)) \/ IdleStep
  BY <1>2, SealCalls DEF IdleStep
<1>3. ASSUME NEW p \in Parties, Restore(p) PROVE FALSE
  BY <1>3 DEF Restore, SnapInv
<1>4. ASSUME NEW p \in Parties, Restart(p) PROVE IdleStep
  <2>1. restore(snapshot(session[p])) = session[p]
    BY RoundTrip DEF CoherentInv, TypeOK
  <2> QED
    BY <1>4, <2>1 DEF Restart, IdleStep, TypeOK
<1>5. ASSUME NEW p \in Parties, Snapshot(p) PROVE IdleStep
  BY <1>5 DEF Snapshot, IdleStep
<1>6. CASE ClockStep \/ UNCHANGED vars
  BY <1>6 DEF ClockStep, vars, IdleStep
<1> QED
  BY <1>1, <1>2, <1>3, <1>4, <1>5, <1>6 DEF Next, FaultStep

\* What a fault changes: frame f is withdrawn, perhaps for a damaged form.
LEMMA FaultFacts ==
    ASSUME TypeOK, NEW q \in Parties, NEW f \in net[q], FaultStep(q, f)
    PROVE  /\ UNCHANGED <<session, sent, kamSeen>>
           /\ faults' = faults + 1
           /\ \A x \in Parties : x # q => net'[x] = net[x]
           /\ net[q] \ {f} \subseteq net'[q]
           /\ \A g \in net'[q] : g \in net[q] \/ g \in DamagedForms(q, f)
BY DEF FaultStep, Lose, Damage, TypeOK

\* What an open changes: perhaps a vacant secret, and the KAMs seen.
LEMMA OpenFacts ==
    ASSUME TypeOK, NEW q \in Parties, NEW f \in net[q], NEW priv, Open(q, f, priv)
    PROVE  /\ UNCHANGED <<net, faults, sent>>
           /\ \A x \in Parties : x # q => session'[x] = session[x] /\ kamSeen'[x] = kamSeen[x]
           /\ \/ session'[q] = session[q]
              \/ session'[q] = accept_kam(session[q], f, priv)
           /\ kamSeen[q] \subseteq kamSeen'[q]
           /\ \A x \in kamSeen'[q] :
                \/ x \in kamSeen[q]
                \/ /\ x = <<f.epoch, unwrap_dm_epoch_secret(f.kam, priv)>>
                   /\ unwrap_dm_epoch_secret(f.kam, priv) # None
                   /\ session'[q] = accept_kam(session[q], f, priv)
<1> USE DEF TypeOK
<1>1. ASSUME NoteKam(q, f, priv)
      PROVE  /\ \A x \in Parties : x # q => kamSeen'[x] = kamSeen[x]
             /\ kamSeen[q] \subseteq kamSeen'[q]
             /\ \A x \in kamSeen'[q] :
                  \/ x \in kamSeen[q]
                  \/ /\ x = <<f.epoch, unwrap_dm_epoch_secret(f.kam, priv)>>
                     /\ unwrap_dm_epoch_secret(f.kam, priv) # None
  BY <1>1 DEF NoteKam
<1>2. CASE OpenOk(q, f, priv)
  BY <1>1, <1>2 DEF OpenOk
<1>3. CASE OpenFailed(q, f, priv)
  BY <1>1, <1>3 DEF OpenFailed
<1>4. CASE OpenRatchetError(q, f, priv)
  BY <1>1, <1>4 DEF OpenRatchetError
<1>5. CASE OpenMissingSecret(q, f)
  BY <1>5 DEF OpenMissingSecret, vars
<1> QED
  BY <1>2, <1>3, <1>4, <1>5 DEF Open

\* What a seal step leaves of the two sessions.
LEMMA SealSession ==
    ASSUME TypeOK, NEW p \in Parties, NEW s \in Sessions, NEW msg \in Plaintexts,
           SealStep(p, s, msg)
    PROVE  /\ session'[p].epoch_secrets = s.epoch_secrets
           /\ session'[p].current_kam = s.current_kam
           /\ session'[p].ratchet # None
           /\ session'[p].ratchet.epoch = s.ratchet.epoch
           /\ session'[p].ratchet.epoch_secret = s.ratchet.epoch_secret
           /\ session'[p].ratchet.message_index = s.ratchet.message_index + 1
           /\ \A x \in Parties : x # p => session'[x] = session[x]
<1>1. s.ratchet \in Ratchets /\ nonces \in Nat
  BY DEF SealStep, TypeOK
<1>2. session' = [session EXCEPT ![p] = advance(s)]
  BY SealAdds
<1>3. /\ advance(s).epoch_secrets = s.epoch_secrets
      /\ advance(s).current_kam = s.current_kam
  BY DEF advance, Sessions
<1>4. advance(s).ratchet =
        [epoch |-> s.ratchet.epoch, epoch_secret |-> s.ratchet.epoch_secret,
         message_index |-> s.ratchet.message_index + 1,
         epoch_started_at |-> s.ratchet.epoch_started_at]
      /\ advance(s).ratchet # None
  BY <1>1, SealFacts
<1>5. session'[p] = advance(s) /\ \A x \in Parties : x # p => session'[x] = session[x]
  BY <1>2 DEF TypeOK
<1> QED
  BY <1>3, <1>4, <1>5

\* The session a speaker seals from: beginning an epoch replaces no secret.
LEMMA SpeakerSeals ==
    ASSUME BaseInv, SpeakerInv, NEW p \in Parties, Peer(p) \in Listeners, NEW s \in Sessions,
           s.ratchet \in Ratchets, SealsFrom(p, s)
    PROVE  /\ \A e \in Epochs : session[p].epoch_secrets[e] # None =>
                s.epoch_secrets[e] = session[p].epoch_secrets[e]
           /\ \A e \in Epochs : s.epoch_secrets[e] # None => e <= s.ratchet.epoch
           /\ s.epoch_secrets[s.ratchet.epoch] = s.ratchet.epoch_secret
           /\ s.current_kam = [to |-> Peer(p), secret |-> s.ratchet.epoch_secret]
           /\ s = session[p] \/ s.ratchet.message_index = 0
<1> DEFINE t == session[p]
<1>1. t \in Sessions /\ Coherent(t) /\ Peer(Peer(p)) = p
  BY PeerType DEF BaseInv, TypeOK, CoherentInv
<1>2. /\ \A e \in Epochs : t.epoch_secrets[e] # None => t.ratchet # None /\ e <= t.ratchet.epoch
      /\ t.ratchet # None => t.current_kam = [to |-> Peer(p), secret |-> t.ratchet.epoch_secret]
  BY <1>1 DEF SpeakerInv
<1>3. CASE s = t
  <2>1. s.ratchet # None
    BY ValuesAssumption
  <2> QED
    BY <1>1, <1>2, <1>3, <2>1 DEF Coherent
<1>4. ASSUME NEW secret \in Secrets, begin_at(t) \in Epochs,
             s = begin_epoch(t, begin_at(t), secret, [to |-> Peer(p), secret |-> secret])
      PROVE  /\ \A e \in Epochs : t.epoch_secrets[e] # None =>
                  s.epoch_secrets[e] = t.epoch_secrets[e]
             /\ \A e \in Epochs : s.epoch_secrets[e] # None => e <= s.ratchet.epoch
             /\ s.epoch_secrets[s.ratchet.epoch] = s.ratchet.epoch_secret
             /\ s.current_kam = [to |-> Peer(p), secret |-> s.ratchet.epoch_secret]
             /\ s.ratchet.message_index = 0
  <2> DEFINE b == begin_at(t)
  <2>1. \A e \in Epochs : t.epoch_secrets[e] # None => e < b
    <3> SUFFICES ASSUME NEW e \in Epochs, t.epoch_secrets[e] # None PROVE e < b
      OBVIOUS
    <3>1. t.ratchet # None /\ e <= t.ratchet.epoch
      BY <1>2
    <3>2. t.ratchet \in Ratchets
      BY <1>1, <3>1 DEF Sessions
    <3>3. b = t.ratchet.epoch + 1
      BY <1>4, <3>1, ValuesAssumption DEF begin_at, Epochs
    <3> QED
      BY <3>1, <3>2, <3>3, BoundsAssumption DEF Ratchets, Epochs
  <2>2. t.epoch_secrets \in SecretMaps
    BY <1>1 DEF Sessions
  <2> HIDE DEF t, b
  <2>3. /\ s.epoch_secrets = [t.epoch_secrets EXCEPT ![b] = secret]
        /\ s.current_kam = [to |-> Peer(p), secret |-> secret]
        /\ s.ratchet.epoch = b /\ s.ratchet.epoch_secret = secret /\ s.ratchet.message_index = 0
    BY <1>4 DEF begin_epoch, with_bounds, b
  <2>4. b \in Epochs
    BY <1>4 DEF b
  <2> QED
    BY <2>1, <2>2, <2>3, <2>4, BoundsAssumption DEF SecretMaps, Epochs
<1> QED
  BY <1>3, <1>4 DEF SealsFrom

\* Nothing ever comes from a listener.
LEMMA SilentStep ==
    ASSUME BaseInv, SilentInv, StaleRestorers = {}, [Next]_vars
    PROVE  SilentInv'
<1> USE DEF BaseInv
<1> SUFFICES ASSUME NEW q \in Listeners
             PROVE  sent'[q] = {} /\ net'[Peer(q)] = {} /\ kamSeen'[Peer(q)] = {}
  BY DEF SilentInv, Listeners
<1>0. /\ q \in Parties /\ Peer(q) \in Parties /\ q # Peer(q) /\ q \notin Senders
      /\ sent[q] = {} /\ net[Peer(q)] = {} /\ kamSeen[Peer(q)] = {}
  BY PeerType DEF Listeners, SilentInv
<1>1. ASSUME NEW p \in Parties, NEW msg \in Plaintexts, NEW s \in Sessions, SealStep(p, s, msg)
      PROVE  sent'[q] = {} /\ net'[Peer(q)] = {} /\ kamSeen'[Peer(q)] = {}
  <2>1. p # q /\ Peer(p) # Peer(q)
    BY <1>0, <1>1, PeerType DEF SealStep
  <2> QED
    BY <1>0, <1>1, <2>1, SealAdds DEF TypeOK
<1>2. ASSUME NEW x \in Parties, NEW f \in net[x], NEW priv, Open(x, f, priv)
      PROVE  sent'[q] = {} /\ net'[Peer(q)] = {} /\ kamSeen'[Peer(q)] = {}
  <2>1. x # Peer(q)
    BY <1>0
  <2> QED
    BY <1>0, <1>2, <2>1, OpenFacts
<1>3. ASSUME NEW x \in Parties, NEW f \in net[x], FaultStep(x, f)
      PROVE  sent'[q] = {} /\ net'[Peer(q)] = {} /\ kamSeen'[Peer(q)] = {}
  <2>1. x # Peer(q)
    BY <1>0
  <2> QED
    BY <1>0, <1>3, <2>1, FaultFacts
<1>4. CASE IdleStep
  BY <1>0, <1>4 DEF IdleStep
<1> QED
  BY <1>1, <1>2, <1>3, <1>4, DirectSteps

\* A speaker's session changes by sealing only.
LEMMA SpeakerSession ==
    ASSUME BaseInv, SilentInv, StaleRestorers = {}, [Next]_vars, NEW q \in Listeners
    PROVE  \/ \E msg \in Plaintexts, s \in Sessions : SealStep(Peer(q), s, msg)
           \/ session'[Peer(q)] = session[Peer(q)] /\ sent' = sent
<1> USE DEF BaseInv
<1>0. /\ q \in Parties /\ Peer(q) \in Parties /\ q # Peer(q) /\ q \notin Senders
      /\ net[Peer(q)] = {}
  BY PeerType DEF Listeners, SilentInv
<1>1. ASSUME NEW p \in Parties, NEW msg \in Plaintexts, NEW s \in Sessions, SealStep(p, s, msg)
      PROVE  SealStep(Peer(q), s, msg)
  <2>1. p = Peer(q)
    BY <1>0, <1>1 DEF SealStep, Parties, Peer
  <2> QED
    BY <1>1, <2>1
<1>2. ASSUME NEW x \in Parties, NEW f \in net[x], NEW priv, Open(x, f, priv)
      PROVE  session'[Peer(q)] = session[Peer(q)] /\ sent' = sent
  <2>1. x # Peer(q)
    BY <1>0
  <2> QED
    BY <1>0, <1>2, <2>1, OpenFacts
<1>3. ASSUME NEW x \in Parties, NEW f \in net[x], FaultStep(x, f)
      PROVE  session'[Peer(q)] = session[Peer(q)] /\ sent' = sent
  BY <1>3, FaultFacts
<1>4. CASE IdleStep
  BY <1>4 DEF IdleStep
<1> QED
  BY <1>1, <1>2, <1>3, <1>4, DirectSteps

\* The speaker's side is preserved, and none of its secrets is replaced.
LEMMA SpeakerStep ==
    ASSUME BaseInv, SentInv, SilentInv, SpeakerInv, StaleRestorers = {}, [Next]_vars
    PROVE  /\ SpeakerInv'
           /\ \A q \in Listeners, e \in Epochs : session[Peer(q)].epoch_secrets[e] # None =>
                session'[Peer(q)].epoch_secrets[e] = session[Peer(q)].epoch_secrets[e]
<1> DEFINE Good(q, s, t) ==
        /\ \A e \in Epochs : t.epoch_secrets[e] # None => t.ratchet # None /\ e <= t.ratchet.epoch
        /\ t.ratchet # None => t.current_kam = [to |-> q, secret |-> t.ratchet.epoch_secret]
        /\ \A f \in sent'[Peer(q)] : f.body.key.secret = t.epoch_secrets[f.epoch]
        /\ \A e \in Epochs : s.epoch_secrets[e] # None => t.epoch_secrets[e] = s.epoch_secrets[e]
<1> SUFFICES ASSUME NEW q \in Listeners
             PROVE  Good(q, session[Peer(q)], session'[Peer(q)])
  BY DEF SpeakerInv, Listeners
<1>0. /\ q \in Parties /\ Peer(q) \in Parties /\ Peer(Peer(q)) = q
      /\ TypeOK
  BY PeerType DEF Listeners, BaseInv
<1>1. CASE session'[Peer(q)] = session[Peer(q)] /\ sent' = sent
  BY <1>1 DEF SpeakerInv
<1>2. ASSUME NEW msg \in Plaintexts, NEW s \in Sessions, SealStep(Peer(q), s, msg)
      PROVE  Good(q, session[Peer(q)], session'[Peer(q)])
  <2> DEFINE p == Peer(q)
             f == seal_frame(s, nonces, msg)
             t == session'[p]
  <2>1. /\ t.epoch_secrets = s.epoch_secrets
        /\ t.current_kam = s.current_kam
        /\ t.ratchet # None
        /\ t.ratchet.epoch = s.ratchet.epoch
        /\ t.ratchet.epoch_secret = s.ratchet.epoch_secret
    BY <1>0, <1>2, SealSession
  <2>2. /\ \A e \in Epochs : session[p].epoch_secrets[e] # None =>
                s.epoch_secrets[e] = session[p].epoch_secrets[e]
        /\ \A e \in Epochs : s.epoch_secrets[e] # None => e <= s.ratchet.epoch
        /\ s.epoch_secrets[s.ratchet.epoch] = s.ratchet.epoch_secret
        /\ s.current_kam = [to |-> q, secret |-> s.ratchet.epoch_secret]
    BY <1>0, <1>2, SpeakerSeals DEF SealStep
  <2>3. f.epoch = s.ratchet.epoch /\ f.body.key.secret = s.ratchet.epoch_secret
    BY <1>0, <1>2, SealFacts DEF SealStep, TypeOK
  <2>4. \A g \in sent'[p] : g \in sent[p] \/ g = f
    BY <1>0, <1>2, SealAdds DEF TypeOK
  <2>5. \A g \in sent[p] : /\ g.body.key.secret = session[p].epoch_secrets[g.epoch]
                           /\ g.body.key.secret # None
                           /\ g.epoch \in Epochs
    <3> SUFFICES ASSUME NEW g \in sent[p]
                 PROVE  /\ g.body.key.secret = session[p].epoch_secrets[g.epoch]
                        /\ g.body.key.secret # None
                        /\ g.epoch \in Epochs
      OBVIOUS
    <3>1. g.body.key.secret = session[p].epoch_secrets[g.epoch]
      BY DEF SpeakerInv
    <3>2. g \in Frames /\ g.body \in Bodies
      BY <1>0 DEF TypeOK, SentInv, AsSealed
    <3>3. g.epoch \in Epochs /\ g.body.key.secret \in Secrets
      BY <3>2 DEF Frames, Bodies, MessageKeys
    <3> QED
      BY <3>1, <3>3, ValuesAssumption
  <2> HIDE DEF f, t, p
  <2>6. \A g \in sent'[p] : g.body.key.secret = t.epoch_secrets[g.epoch]
    BY <2>1, <2>2, <2>3, <2>4, <2>5
  <2> QED
    BY <2>1, <2>2, <2>6 DEF t, p
<1> HIDE DEF Good
<1> QED
  BY <1>1, <1>2, SpeakerSession

\* What a listener stores under a vacant epoch is the secret of the KAM.
LEMMA AcceptFills ==
    ASSUME NEW s \in Sessions, NEW f \in Frames, NEW priv
    PROVE  /\ \A e \in Epochs : s.epoch_secrets[e] # None =>
                accept_kam(s, f, priv).epoch_secrets[e] = s.epoch_secrets[e]
           /\ \A e \in Epochs :
                \/ accept_kam(s, f, priv).epoch_secrets[e] = s.epoch_secrets[e]
                \/ /\ e = f.epoch
                   /\ accept_kam(s, f, priv).epoch_secrets[e] = unwrap_dm_epoch_secret(f.kam, priv)
           /\ f.kam # None /\ s.epoch_secrets[f.epoch] = None =>
                accept_kam(s, f, priv).epoch_secrets[f.epoch] = unwrap_dm_epoch_secret(f.kam, priv)
<1>1. s.epoch_secrets \in SecretMaps /\ f.epoch \in Epochs
  BY DEF Sessions, Frames
<1>2. CASE ~ kam_wanted(s, f)
  BY <1>2 DEF accept_kam, kam_wanted
<1>3. CASE kam_wanted(s, f)
  <2>1. accept_kam(s, f, priv).epoch_secrets =
          [s.epoch_secrets EXCEPT ![f.epoch] = unwrap_dm_epoch_secret(f.kam, priv)]
    BY <1>3 DEF accept_kam, Sessions
  <2> QED
    BY <1>1, <1>3, <2>1 DEF kam_wanted, SecretMaps
<1> QED
  BY <1>2, <1>3

\* The KAMs on their way stay those of their epochs.
LEMMA KamStep ==
    ASSUME BaseInv, SentInv, SilentInv, SpeakerInv, KamInv, StaleRestorers = {},
           "slot" \notin Damages, [Next]_vars
    PROVE  KamInv'
<1> SUFFICES ASSUME NEW q \in Listeners, NEW f \in net'[q], f.kam \in Kams
             PROVE  f.kam = [to |-> q, secret |-> session'[Peer(q)].epoch_secrets[f.epoch]]
  BY DEF KamInv, Listeners
<1>0. /\ q \in Parties /\ Peer(q) \in Parties /\ Peer(Peer(q)) = q
      /\ TypeOK
  BY PeerType DEF Listeners, BaseInv
<1>1. ASSUME NEW g \in net[q], g.kam = f.kam, g.epoch = f.epoch
      PROVE  f.kam = [to |-> q, secret |-> session'[Peer(q)].epoch_secrets[f.epoch]]
  <2>1. g.kam = [to |-> q, secret |-> session[Peer(q)].epoch_secrets[f.epoch]]
    BY <1>1 DEF KamInv
  <2>2. f.epoch \in Epochs
    BY <1>0, <1>1 DEF TypeOK, Frames
  <2>3. session[Peer(q)].epoch_secrets[f.epoch] \in Secrets
    BY <1>1, <2>1 DEF Kams
  <2>4. session'[Peer(q)].epoch_secrets[f.epoch] = session[Peer(q)].epoch_secrets[f.epoch]
    BY <2>2, <2>3, SpeakerStep, ValuesAssumption
  <2> QED
    BY <1>1, <2>1, <2>4
<1>2. ASSUME NEW p \in Parties, NEW msg \in Plaintexts, NEW s \in Sessions, SealStep(p, s, msg)
      PROVE  f.kam = [to |-> q, secret |-> session'[Peer(q)].epoch_secrets[f.epoch]]
  <2>1. p = Peer(q)
    BY <1>0, <1>2 DEF SealStep, Parties, Peer, Listeners
  <2>2. f \in net[q] \/ f = seal_frame(s, nonces, msg)
    BY <1>0, <1>2, SealAdds DEF TypeOK
  <2>3. CASE f = seal_frame(s, nonces, msg)
    <3>1. f.epoch = s.ratchet.epoch /\ (f.kam = s.current_kam \/ f.kam = None)
      BY <2>3 DEF seal_frame
    <3>2. /\ s.epoch_secrets[s.ratchet.epoch] = s.ratchet.epoch_secret
          /\ s.current_kam = [to |-> q, secret |-> s.ratchet.epoch_secret]
      BY <1>0, <1>2, <2>1, SpeakerSeals DEF SealStep
    <3>3. session'[Peer(q)].epoch_secrets = s.epoch_secrets
      BY <1>0, <1>2, <2>1, SealSession
    <3> QED
      BY <3>1, <3>2, <3>3, ValuesAssumption
  <2> QED
    BY <1>1, <2>2, <2>3
<1>3. ASSUME NEW x \in Parties, NEW g \in net[x], NEW priv, Open(x, g, priv)
      PROVE  f.kam = [to |-> q, secret |-> session'[Peer(q)].epoch_secrets[f.epoch]]
  BY <1>0, <1>1, <1>3, OpenFacts
<1>4. ASSUME NEW x \in Parties, NEW g \in net[x], FaultStep(x, g)
      PROVE  f.kam = [to |-> q, secret |-> session'[Peer(q)].epoch_secrets[f.epoch]]
  <2>1. CASE f \in net[q]
    BY <1>1, <2>1
  <2>2. CASE x = q /\ f \in DamagedForms(q, g)
    <3>1. g \in Frames
      BY <1>0 DEF TypeOK
    <3>2. f = [g EXCEPT !.body = Garbled] \/ f = [g EXCEPT !.kam = Garbled]
      BY <2>2 DEF DamagedForms
    <3>3. f.epoch = g.epoch /\ (f.kam = g.kam \/ f.kam = Garbled)
      BY <3>1, <3>2 DEF Frames
    <3> QED
      BY <1>1, <2>2, <3>3, ValuesAssumption
  <2> QED
    BY <1>0, <1>4, <2>1, <2>2, FaultFacts
<1>5. CASE IdleStep
  BY <1>1, <1>5 DEF IdleStep
<1> QED
  BY <1>2, <1>3, <1>4, <1>5, DirectSteps

\* The listener's secrets stay the speaker's.
LEMMA ListenerStep ==
    ASSUME BaseInv, SentInv, SilentInv, SpeakerInv, KamInv, ListenerInv, StaleRestorers = {},
           [Next]_vars
    PROVE  ListenerInv'
<1> DEFINE Good(q) ==
        /\ \A e \in Epochs : session'[q].epoch_secrets[e] # None =>
             session'[q].epoch_secrets[e] = session'[Peer(q)].epoch_secrets[e]
        /\ \A x \in kamSeen'[q] : session'[q].epoch_secrets[x[1]] = x[2]
<1> SUFFICES ASSUME NEW q \in Listeners PROVE Good(q)
  BY DEF ListenerInv, Listeners
<1>0. /\ q \in Parties /\ Peer(q) \in Parties /\ Peer(Peer(q)) = q /\ q # Peer(q)
      /\ q \notin Senders /\ TypeOK /\ session[q] \in Sessions
  BY PeerType DEF Listeners, BaseInv, TypeOK
<1>1. \A e \in Epochs : session[q].epoch_secrets[e] # None =>
         /\ session[q].epoch_secrets[e] = session[Peer(q)].epoch_secrets[e]
         /\ session'[Peer(q)].epoch_secrets[e] = session[Peer(q)].epoch_secrets[e]
  BY SpeakerStep DEF ListenerInv
<1>2. ASSUME session'[q] = session[q], kamSeen'[q] = kamSeen[q] PROVE Good(q)
  BY <1>1, <1>2 DEF ListenerInv
<1>3. ASSUME NEW p \in Parties, NEW msg \in Plaintexts, NEW s \in Sessions, SealStep(p, s, msg)
      PROVE  Good(q)
  <2>1. p # q
    BY <1>0, <1>3 DEF SealStep
  <2>2. session'[q] = session[q] /\ kamSeen' = kamSeen
    BY <1>0, <1>3, <2>1, SealAdds, SealSession
  <2> QED
    BY <1>2, <2>2
<1>4. ASSUME NEW x \in Parties, NEW f \in net[x], NEW priv, Open(x, f, priv)
      PROVE  Good(q)
  <2>1. CASE x # q
    BY <1>0, <1>2, <1>4, <2>1, OpenFacts
  <2>2. CASE x = q
    <3> DEFINE u == unwrap_dm_epoch_secret(f.kam, priv)
    <3>1. f \in Frames /\ f.epoch \in Epochs /\ f \in net[q]
      BY <1>0, <2>2 DEF TypeOK, Frames
    <3>2. u # None => f.kam \in Kams /\ u = f.kam.secret
      BY DEF unwrap_dm_epoch_secret
    <3>3. u # None => u = session[Peer(q)].epoch_secrets[f.epoch]
      <4> HIDE DEF u
      <4>1. ASSUME u # None
            PROVE  f.kam = [to |-> q, secret |-> session[Peer(q)].epoch_secrets[f.epoch]]
        BY <3>1, <3>2, <4>1 DEF KamInv
      <4> QED
        BY <3>2, <4>1
    <3>4. u # None => session'[Peer(q)].epoch_secrets[f.epoch] = u
      BY <3>1, <3>3, SpeakerStep
    <3>5. f.kam \in Kams => f.kam # None
      BY ValuesAssumption
    <3> HIDE DEF u
    <3>6. /\ session'[q] = session[q] \/ session'[q] = accept_kam(session[q], f, priv)
          /\ \A y \in kamSeen'[q] :
               \/ y \in kamSeen[q]
               \/ /\ y = <<f.epoch, u>> /\ u # None
                  /\ session'[q] = accept_kam(session[q], f, priv)
      BY <1>0, <1>4, <2>2, OpenFacts DEF u
    <3>7. /\ \A e \in Epochs : session[q].epoch_secrets[e] # None =>
               session'[q].epoch_secrets[e] = session[q].epoch_secrets[e]
          /\ \A e \in Epochs :
               \/ session'[q].epoch_secrets[e] = session[q].epoch_secrets[e]
               \/ e = f.epoch /\ session'[q].epoch_secrets[e] = u
      BY <1>0, <3>1, <3>6, AcceptFills DEF u
    <3>8. \A e \in Epochs : session'[q].epoch_secrets[e] # None =>
             session'[q].epoch_secrets[e] = session'[Peer(q)].epoch_secrets[e]
      BY <1>1, <3>4, <3>7
    <3>9. ASSUME NEW y \in kamSeen'[q] PROVE session'[q].epoch_secrets[y[1]] = y[2]
      <4>1. CASE y \in kamSeen[q]
        <5>1. y \in Epochs \X Secrets
          BY <1>0, <4>1 DEF TypeOK
        <5>2. y[1] \in Epochs /\ y[2] # None
          BY <5>1, ValuesAssumption
        <5>3. session[q].epoch_secrets[y[1]] = y[2]
          BY <4>1 DEF ListenerInv
        <5> QED
          BY <3>7, <5>2, <5>3
      <4>2. CASE /\ y = <<f.epoch, u>> /\ u # None
                 /\ session'[q] = accept_kam(session[q], f, priv)
        <5>1. CASE session[q].epoch_secrets[f.epoch] = None
          BY <1>0, <3>1, <3>2, <3>5, <4>2, <5>1, AcceptFills DEF u
        <5>2. CASE session[q].epoch_secrets[f.epoch] # None
          BY <1>1, <3>1, <3>3, <3>7, <4>2, <5>2
        <5> QED
          BY <5>1, <5>2
      <4> QED
        BY <3>6, <4>1, <4>2
    <3> QED
      BY <3>8, <3>9
  <2> QED
    BY <2>1, <2>2
<1>5. ASSUME NEW x \in Parties, NEW f \in net[x], FaultStep(x, f)
      PROVE  Good(q)
  BY <1>0, <1>2, <1>5, FaultFacts
<1>6. CASE IdleStep
  BY <1>2, <1>6 DEF IdleStep
<1> HIDE DEF Good
<1> QED
  BY <1>3, <1>4, <1>5, <1>6, DirectSteps

\* The slots of an epoch whose KAM is gone are finitely many.
LEMMA MissingFinite ==
    ASSUME NEW q, NEW e
    PROVE  /\ IsFiniteSet(Missing(q, e))
           /\ Cardinality(Missing(q, e)) \in Nat
<1>1. IsFiniteSet(0..(KamRepeat - 1))
  BY FS_Interval, BoundsAssumption
<1>2. Missing(q, e) \in SUBSET (0..(KamRepeat - 1))
  BY DEF Missing
<1> QED
  BY <1>1, <1>2, FS_Subset, FS_CardinalityType

\* A set with at most one member more than another has at most that one more.
LEMMA OneMoreAtMost ==
    ASSUME NEW S, IsFiniteSet(S), NEW T, NEW x, T \subseteq S \cup {x}, NEW n \in Nat,
           Cardinality(S) <= n
    PROVE  Cardinality(T) <= n + 1
<1>1. /\ IsFiniteSet(S \cup {x})
      /\ Cardinality(S \cup {x}) = IF x \in S THEN Cardinality(S) ELSE Cardinality(S) + 1
  BY FS_AddElement
<1>2. Cardinality(T) <= Cardinality(S \cup {x}) /\ IsFiniteSet(T)
  BY <1>1, FS_Subset
<1>3. Cardinality(S) \in Nat /\ Cardinality(T) \in Nat /\ Cardinality(S \cup {x}) \in Nat
  BY <1>1, <1>2, FS_CardinalityType
<1> QED
  BY <1>1, <1>2, <1>3

\* A seal that goes out makes no KAM go missing; one whose cipher fails makes
\* one copy go missing, that of its slot.
LEMMA MissingSeal ==
    ASSUME BaseInv, SpeakerInv, NEW q \in Listeners, NEW msg \in Plaintexts,
           NEW s \in Sessions, SealStep(Peer(q), s, msg), NEW e \in Epochs
    PROVE  \/ Missing(q, e)' \subseteq Missing(q, e) /\ faults' = faults
           \/ /\ Missing(q, e)' \subseteq Missing(q, e) \cup {s.ratchet.message_index}
              /\ faults' = faults + 1
<1> DEFINE p == Peer(q)
           f == seal_frame(s, nonces, msg)
           r == s.ratchet
<1>0. /\ q \in Parties /\ p \in Parties /\ Peer(p) = q /\ TypeOK
      /\ r \in Ratchets
  BY PeerType DEF Listeners, BaseInv, SealStep
<1>1. /\ f.epoch = r.epoch /\ f.index = r.message_index
  BY DEF seal_frame
<1>2. \/ /\ sent' = [sent EXCEPT ![p] = @ \cup {f}]
         /\ net' = [net EXCEPT ![q] = @ \cup {f}]
         /\ faults' = faults
      \/ UNCHANGED <<sent, net>> /\ faults' = faults + 1
  BY <1>0, SealAdds
<1>3. /\ session'[p].ratchet # None
      /\ session'[p].ratchet.epoch = r.epoch
      /\ session'[p].ratchet.message_index = r.message_index + 1
  BY <1>0, SealSession
<1>4. /\ s.current_kam = [to |-> q, secret |-> r.epoch_secret]
      /\ s = session[p] \/ r.message_index = 0
  BY <1>0, SpeakerSeals DEF SealStep
<1>5. s.current_kam \in Kams
  BY <1>0, <1>4, PartiesAssumption DEF Kams, Ratchets
<1>6. r.message_index < KamRepeat => f.kam \in Kams
  BY <1>5 DEF seal_frame
<1>7. r # None
  BY <1>0, ValuesAssumption
<1> HIDE DEF f, p
<1>8. \A i \in Nat : Given(p, e, i)' =>
         \/ Given(p, e, i)
         \/ e = r.epoch /\ i = r.message_index
  <2> SUFFICES ASSUME NEW i \in Nat, Given(p, e, i)'
               PROVE  Given(p, e, i) \/ (e = r.epoch /\ i = r.message_index)
    OBVIOUS
  <2>0. r.message_index \in Nat
    BY <1>0 DEF Ratchets
  <2>1. CASE \E g \in sent[p] : g.epoch = e /\ i <= g.index
    BY <2>1 DEF Given
  <2>2. CASE e = r.epoch /\ i <= r.message_index
    <3>1. CASE i < r.message_index
      <4>1. s = session[p]
        BY <1>4, <2>0, <3>1
      <4> QED
        BY <1>7, <2>2, <3>1, <4>1 DEF Given
    <3> QED
      BY <2>0, <2>2, <3>1
  <2>3. ASSUME NEW g \in sent'[p], g.epoch = e, i <= g.index
        PROVE  g \in sent[p] \/ (e = r.epoch /\ i <= r.message_index)
    BY <1>0, <1>1, <1>2, <2>3 DEF TypeOK
  <2>4. ASSUME session'[p].ratchet.epoch = e, i < session'[p].ratchet.message_index
        PROVE  e = r.epoch /\ i <= r.message_index
    BY <1>3, <2>0, <2>4
  <2> QED
    BY <2>1, <2>2, <2>3, <2>4 DEF Given
<1>9. net[q] \subseteq net'[q]
  BY <1>0, <1>2 DEF TypeOK
<1>10. \A i : Carried(q, e, i) => Carried(q, e, i)'
  BY <1>9 DEF Carried
<1>11. CASE faults' = faults + 1
  BY <1>8, <1>10, <1>11, BoundsAssumption DEF Missing, p
<1>12. CASE net' = [net EXCEPT ![q] = @ \cup {f}] /\ faults' = faults
  <2>1. f \in net'[q]
    BY <1>0, <1>12 DEF TypeOK
  <2>2. r.message_index < KamRepeat /\ e = r.epoch => Carried(q, e, r.message_index)'
    BY <1>1, <1>6, <2>1 DEF Carried
  <2>3. \A i \in 0..(KamRepeat - 1) : i \in Nat /\ i < KamRepeat
    BY BoundsAssumption
  <2> QED
    BY <1>8, <1>10, <1>12, <2>2, <2>3 DEF Missing, p
<1> QED
  BY <1>2, <1>11, <1>12

\* Every step keeps the number of missing copies within the number of faults.
LEMMA MissingStep ==
    ASSUME BaseInv, SilentInv, SpeakerInv, MissingInv, StaleRestorers = {}, [Next]_vars
    PROVE  MissingInv'
<1> SUFFICES ASSUME NEW q \in Listeners, NEW e \in Epochs
             PROVE  Cardinality(Missing(q, e)') <= faults'
  BY DEF MissingInv, Listeners, Epochs
<1> DEFINE S == Missing(q, e)
           T == Missing(q, e)'
<1>0. /\ q \in Parties /\ Peer(q) \in Parties /\ q # Peer(q) /\ q \notin Senders
      /\ TypeOK /\ faults \in Nat
  BY PeerType DEF Listeners, BaseInv, TypeOK
<1>1. IsFiniteSet(S) /\ Cardinality(S) \in Nat /\ Cardinality(S) <= faults
  BY MissingFinite DEF MissingInv
<1>2. ASSUME T \subseteq S, faults' = faults PROVE Cardinality(T) <= faults'
  <2>1. Cardinality(T) <= Cardinality(S) /\ IsFiniteSet(T)
    BY <1>1, <1>2, FS_Subset
  <2>2. Cardinality(T) \in Nat
    BY <2>1, FS_CardinalityType
  <2> QED
    BY <1>0, <1>1, <1>2, <2>1, <2>2
<1>3. ASSUME NEW x, T \subseteq S \cup {x}, faults' = faults + 1 PROVE Cardinality(T) <= faults'
  BY <1>0, <1>1, <1>3, OneMoreAtMost
<1>4. ASSUME UNCHANGED <<session, sent>> PROVE \A i : Given(Peer(q), e, i)' <=> Given(Peer(q), e, i)
  BY <1>4 DEF Given
<1>5. ASSUME NEW p \in Parties, NEW msg \in Plaintexts, NEW s \in Sessions, SealStep(p, s, msg)
      PROVE  Cardinality(T) <= faults'
  <2>1. p = Peer(q)
    BY <1>0, <1>5 DEF SealStep, Parties, Peer
  <2> HIDE DEF S, T
  <2>2. \/ T \subseteq S /\ faults' = faults
        \/ T \subseteq S \cup {s.ratchet.message_index} /\ faults' = faults + 1
    BY <1>5, <2>1, MissingSeal DEF S, T
  <2> QED
    BY <1>2, <1>3, <2>2
<1>6. ASSUME NEW x \in Parties, NEW f \in net[x], NEW priv, Open(x, f, priv)
      PROVE  Cardinality(T) <= faults'
  <2>1. x # Peer(q)
    BY <1>0 DEF SilentInv
  <2>2. UNCHANGED <<net, sent, faults>> /\ session'[Peer(q)] = session[Peer(q)]
    BY <1>0, <1>6, <2>1, OpenFacts
  <2>3. T \subseteq S
    BY <2>2 DEF Missing, Given, Carried
  <2> QED
    BY <1>2, <2>2, <2>3
<1>7. ASSUME NEW x \in Parties, NEW f \in net[x], FaultStep(x, f)
      PROVE  Cardinality(T) <= faults'
  <2>1. /\ UNCHANGED <<session, sent>> /\ faults' = faults + 1
        /\ net[q] \ {f} \subseteq net'[q]
    BY <1>0, <1>7, FaultFacts
  <2>2. \A i : Carried(q, e, i) /\ i # f.index => Carried(q, e, i)'
    BY <2>1 DEF Carried
  <2>3. T \subseteq S \cup {f.index}
    BY <1>4, <2>1, <2>2 DEF Missing
  <2> QED
    BY <1>3, <2>1, <2>3
<1>8. CASE IdleStep
  <2>1. T \subseteq S
    BY <1>8 DEF IdleStep, Missing, Given, Carried
  <2> QED
    BY <1>2, <1>8, <2>1 DEF IdleStep
<1> QED
  BY <1>5, <1>6, <1>7, <1>8, DirectSteps

\* With no stale restores, the two ends and the transport stay in agreement.
LEMMA DirectInvariant ==
    ASSUME StaleRestorers = {}
    PROVE  Spec => [](BaseInv /\ HistoryInv /\ SilentInv /\ SpeakerInv)
<1>1. Init => SilentInv /\ SpeakerInv
  BY PeerType DEF Init, SilentInv, SpeakerInv, Listeners, NewSession
<1>2. BaseInv /\ HistoryInv /\ SilentInv /\ SpeakerInv /\ [Next]_vars => SilentInv' /\ SpeakerInv'
  BY SilentStep, SpeakerStep DEF HistoryInv
<1> QED
  BY <1>1, <1>2, History, PTL DEF Spec

\* With slots that arrive as sealed, so do the secrets and the KAMs.
LEMMA OneWayInvariant ==
    ASSUME StaleRestorers = {}, "slot" \notin Damages
    PROVE  Spec => [](BaseInv /\ HistoryInv /\ OneWayInv)
<1>1. Init => KamInv /\ ListenerInv /\ MissingInv
  <2> SUFFICES ASSUME Init PROVE KamInv /\ ListenerInv /\ MissingInv
    OBVIOUS
  <2>1. KamInv /\ ListenerInv
    BY DEF Init, KamInv, ListenerInv, Listeners, NewSession
  <2>2. \A q \in Listeners, e \in Epochs : Missing(q, e) = {}
    BY PeerType DEF Init, Missing, Given, NewSession, Listeners
  <2>3. MissingInv
    BY <2>2, FS_EmptySet DEF Init, MissingInv
  <2> QED
    BY <2>1, <2>3
<1>2. BaseInv /\ HistoryInv /\ SilentInv /\ SpeakerInv /\ KamInv /\ ListenerInv /\ MissingInv
        /\ [Next]_vars => KamInv' /\ ListenerInv' /\ MissingInv'
  BY KamStep, ListenerStep, MissingStep DEF HistoryInv
<1> QED
  BY <1>1, <1>2, DirectInvariant, PTL DEF Spec, OneWayInv

\* The party at the other end of a one-way conversation from a party that seals
\* is a listener.
LEMMA PeerListens ==
    ASSUME OneWay, NEW p \in Parties, p \in Senders
    PROVE  Peer(p) \in Listeners
BY PartiesAssumption DEF OneWay, Listeners, Parties, Peer

\* In a conversation where one party seals and the applications save after
\* every call, no stored epoch secret is ever replaced or forgotten: for all
\* bounds, with failures, restarts and every kind of damage.  Where both parties
\* seal this fails: begin_epoch replaces the secret that a KAM of the peer brought.
THEOREM SecretsKeptHolds ==
    ASSUME OneWay, StaleRestorers = {}
    PROVE  Spec => SecretsKept
<1> DEFINE Kept == \A p \in Parties : \A e \in Epochs :
                     session[p].epoch_secrets[e] # None =>
                         session'[p].epoch_secrets[e] = session[p].epoch_secrets[e]
<1>1. BaseInv /\ HistoryInv /\ SilentInv /\ SpeakerInv /\ [Next]_vars => Kept
  <2> SUFFICES ASSUME BaseInv, HistoryInv, SilentInv, SpeakerInv, [Next]_vars,
                      NEW p \in Parties, NEW e \in Epochs, session[p].epoch_secrets[e] # None
               PROVE  session'[p].epoch_secrets[e] = session[p].epoch_secrets[e]
    OBVIOUS
  <2>0. TypeOK /\ session[p] \in Sessions
    BY DEF BaseInv, TypeOK
  <2>1. ASSUME NEW x \in Parties, NEW msg \in Plaintexts, NEW s \in Sessions, SealStep(x, s, msg)
        PROVE  session'[p].epoch_secrets[e] = session[p].epoch_secrets[e]
    <3>1. CASE x # p
      BY <2>0, <2>1, <3>1, SealSession
    <3>2. CASE x = p
      <4>1. Peer(p) \in Listeners /\ Peer(Peer(p)) = p
        BY <2>1, <3>2, PeerListens, PeerType DEF SealStep
      <4> QED
        BY <4>1, SpeakerStep DEF HistoryInv
    <3> QED
      BY <3>1, <3>2
  <2>2. ASSUME NEW x \in Parties, NEW f \in net[x], NEW priv, Open(x, f, priv)
        PROVE  session'[p].epoch_secrets[e] = session[p].epoch_secrets[e]
    <3>1. CASE x # p
      BY <2>0, <2>2, <3>1, OpenFacts
    <3>2. CASE x = p
      <4>1. f \in Frames
        BY <2>0 DEF TypeOK
      <4>2. session'[p] = session[p] \/ session'[p] = accept_kam(session[p], f, priv)
        BY <2>0, <2>2, <3>2, OpenFacts
      <4> QED
        BY <2>0, <4>1, <4>2, AcceptFills
    <3> QED
      BY <3>1, <3>2
  <2>3. ASSUME NEW x \in Parties, NEW f \in net[x], FaultStep(x, f)
        PROVE  session'[p].epoch_secrets[e] = session[p].epoch_secrets[e]
    BY <2>0, <2>3, FaultFacts
  <2>4. CASE IdleStep
    BY <2>4 DEF IdleStep
  <2> QED
    BY <2>1, <2>2, <2>3, <2>4, DirectSteps
<1> QED
  BY <1>1, DirectInvariant, PTL DEF Spec, SecretsKept

\* A frame whose body and slot are as sealed opens with the secret it was
\* sealed under.
LEMMA IntactOpens ==
    ASSUME BaseInv, SentInv, NEW q \in Parties, NEW f \in Intact(q),
           session[q].epoch_secrets[f.epoch] = f.body.key.secret
    PROVE  OpensAt(q, f)
<1>1. PICK g \in sent[Peer(q)] :
        <<f.epoch, f.index, f.nonce, f.body>> = <<g.epoch, g.index, g.nonce, g.body>>
  BY DEF Intact
<1>2. AsSealed(g)
  BY PeerType DEF SentInv
<1>3. /\ f.body \in Bodies
      /\ f.body.key.epoch = f.epoch /\ f.body.key.index = f.index
      /\ f.body.nonce = f.nonce /\ f.body.aad = frame_aad(f.epoch, f.index)
  BY <1>1, <1>2 DEF AsSealed
<1>4. f.body.key \in MessageKeys
  BY <1>3 DEF Bodies
<1>5. f.body.key = derive_dm_message_key(session[q].epoch_secrets[f.epoch], f.epoch, f.index)
  BY <1>3, <1>4 DEF MessageKeys, derive_dm_message_key
<1>6. f.body.key.secret # None
  BY <1>4, ValuesAssumption DEF MessageKeys
<1> QED
  BY <1>3, <1>5, <1>6, ValuesAssumption DEF OpensAt, body_opens

\* What q may still be handed undamaged comes from a party that seals, so that
\* in a one-way conversation q is a listener.
LEMMA IntactAtListener ==
    ASSUME OneWay, SilentInv, NEW q \in Parties, NEW f \in Intact(q)
    PROVE  q \in Listeners
<1>1. CASE q \in Senders
  <2>1. sent[Peer(q)] = {}
    BY <1>1, PeerListens DEF SilentInv
  <2> QED
    BY <2>1 DEF Intact
<1> QED
  BY <1>1 DEF Listeners

\* "A frame for any epoch whose KAM has been seen opens": for all bounds, with
\* losses, reordering, damaged bodies and KAMs, failures and restarts, provided
\* that one party seals, that the applications save after every call and that
\* the slot fields arrive as sealed.  Runs dm_twoway and dm_slot_damage show that
\* the first and the last condition are needed.
THEOREM KamSeenOpensHolds ==
    ASSUME OneWay, StaleRestorers = {}, "slot" \notin Damages
    PROVE  Spec => []KamSeenOpens
<1>1. BaseInv /\ HistoryInv /\ OneWayInv => KamSeenOpens
  <2> SUFFICES ASSUME BaseInv, HistoryInv, OneWayInv, NEW q \in Parties, NEW f \in Intact(q),
                      <<f.epoch, f.body.key.secret>> \in kamSeen[q]
               PROVE  OpensAt(q, f)
    BY DEF KamSeenOpens
  <2>1. q \in Listeners
    BY IntactAtListener DEF OneWayInv
  <2>2. session[q].epoch_secrets[f.epoch] = f.body.key.secret
    BY <2>1 DEF OneWayInv, ListenerInv
  <2> QED
    BY <2>2, IntactOpens DEF HistoryInv
<1> QED
  BY <1>1, OneWayInvariant, PTL

\* An epoch is not stranded while fewer frames have met a fault than copies of
\* its KAM were sealed: for all bounds, under the same conditions.
THEOREM NotStrandedHolds ==
    ASSUME OneWay, StaleRestorers = {}, "slot" \notin Damages
    PROVE  Spec => []NotStranded
<1>1. BaseInv /\ HistoryInv /\ OneWayInv => NotStranded
  <2> SUFFICES ASSUME BaseInv, HistoryInv, OneWayInv, NEW q \in Parties, NEW f \in Intact(q),
                      faults < KamCopies(f)
               PROVE  \E g \in net[q] :
                        g.epoch = f.epoch /\ g.kam = [to |-> q, secret |-> f.body.key.secret]
    BY DEF NotStranded, Recoverable
  <2>0. q \in Listeners /\ TypeOK /\ faults \in Nat /\ Peer(q) \in Parties
    BY IntactAtListener, PeerType DEF OneWayInv, BaseInv, TypeOK
  <2>1. PICK h \in sent[Peer(q)] :
          <<f.epoch, f.index, f.nonce, f.body>> = <<h.epoch, h.index, h.nonce, h.body>>
    BY DEF Intact
  <2>2. f.epoch \in Epochs /\ f.index \in Nat
    BY <2>0, <2>1 DEF TypeOK, Frames
  <2>3. f.body.key.secret = session[Peer(q)].epoch_secrets[f.epoch]
    BY <2>0, <2>1 DEF OneWayInv, SpeakerInv
  <2> DEFINE n == KamCopies(f)
             M == Missing(q, f.epoch)
  <2>4. n \in Nat /\ n <= KamRepeat /\ n <= f.index + 1
    BY <2>2, BoundsAssumption DEF KamCopies
  <2>5. \A i \in 0..(n - 1) : Given(Peer(q), f.epoch, i) /\ i \in 0..(KamRepeat - 1)
    <3> HIDE DEF n
    <3> SUFFICES ASSUME NEW i \in 0..(n - 1)
                 PROVE  Given(Peer(q), f.epoch, i) /\ i \in 0..(KamRepeat - 1)
      OBVIOUS
    <3>1. i <= f.index /\ i \in 0..(KamRepeat - 1)
      BY <2>2, <2>4, BoundsAssumption
    <3> QED
      BY <2>1, <3>1 DEF Given
  <2>6. PICK i \in 0..(n - 1) : Carried(q, f.epoch, i)
    <3> HIDE DEF n
    <3> SUFFICES ASSUME \A i \in 0..(n - 1) : ~ Carried(q, f.epoch, i)
                 PROVE  FALSE
      OBVIOUS
    <3>1. (0..(n - 1)) \in SUBSET M
      BY <2>5 DEF Missing
    <3>2. IsFiniteSet(M) /\ Cardinality(M) \in Nat
      BY MissingFinite
    <3>3. Cardinality(M) <= faults
      BY <2>0, <2>2 DEF OneWayInv, MissingInv
    <3> HIDE DEF M
    <3>4. Cardinality(0..(n - 1)) <= Cardinality(M)
      BY <3>1, <3>2, FS_Subset
    <3>5. Cardinality(0..(n - 1)) = n
      BY <2>4, FS_Interval
    <3>6. faults < n
      BY DEF n
    <3> QED
      BY <2>0, <2>4, <3>2, <3>3, <3>4, <3>5, <3>6
  <2>7. PICK g \in net[q] : g.epoch = f.epoch /\ g.kam \in Kams
    BY <2>6 DEF Carried
  <2>8. g.kam = [to |-> q, secret |-> session[Peer(q)].epoch_secrets[f.epoch]]
    BY <2>0, <2>7 DEF OneWayInv, KamInv
  <2> QED
    BY <2>3, <2>7, <2>8
<1> QED
  BY <1>1, OneWayInvariant, PTL
=============================================================================
