------------------------- MODULE GroupRatchetProofs ------------------------
(***************************************************************************)
(* Proofs about GroupRatchet for every value of its constants: any group,  *)
(* any bounds, any number of epochs, messages, faults and restarts.        *)
(***************************************************************************)
EXTENDS GroupRatchet, FiniteSetTheorems, TLAPS

-----------------------------------------------------------------------------
(* Facts about the library's pieces.                                       *)

\* What unwrap_epoch_secret returns, if it is no error, is the secret in a whole
\* payload that was wrapped to the member.
LEMMA UnwrapOwn ==
    ASSUME NEW p \in Payloads, NEW m, unwrap_epoch_secret(p, m) \notin Errors
    PROVE  p.to = m /\ unwrap_epoch_secret(p, m) = p.secret
  BY DEF unwrap_epoch_secret, Errors, Payloads

\* The members of a sequence with one more element.
LEMMA AppendMembers ==
    ASSUME NEW S, NEW s \in Seq(S), NEW x \in S
    PROVE  /\ Append(s, x) \in Seq(S)
           /\ ToSet(Append(s, x)) = ToSet(s) \cup {x}
<1>1. Append(s, x) \in Seq(S)
  OBVIOUS
<1>2. DOMAIN Append(s, x) = DOMAIN s \cup {Len(s) + 1} /\ Append(s, x)[Len(s) + 1] = x
  OBVIOUS
<1>3. \A i \in DOMAIN s : Append(s, x)[i] = s[i]
  OBVIOUS
<1> QED
  BY <1>1, <1>2, <1>3, Zenon DEF ToSet

\* Its elements are the old ones at their places and the new one at the end.
LEMMA AppendPlaces ==
    ASSUME NEW S, NEW s \in Seq(S), NEW x \in S, NEW i \in DOMAIN Append(s, x)
    PROVE  \/ i \in DOMAIN s /\ Append(s, x)[i] = s[i]
           \/ i = Len(s) + 1 /\ Append(s, x)[i] = x
<1>1. i \in 1 .. Len(s) + 1 /\ DOMAIN s = 1 .. Len(s) /\ Len(s) \in Nat
  OBVIOUS
<1>2. CASE i \in 1 .. Len(s)
  BY <1>1, <1>2
<1>3. CASE i = Len(s) + 1
  BY <1>3
<1> QED
  BY <1>1, <1>2, <1>3

-----------------------------------------------------------------------------
(* Types.                                                                  *)

\* A restart is one of the faults, so lives are bounded.
LivesBounded == \A m \in Members : life[m] <= faults

\* The new ratchets and the message of a step have their types.
LEMMA SendType ==
    ASSUME TypeOK, LivesBounded, NEW m \in Members, Send(m)
    PROVE  /\ ratchet[m] \in EpochRatchets
           /\ next_outbound_key(ratchet[m]).ratchet \in EpochRatchets
           /\ [from |-> m, life |-> life[m], epoch |-> ratchet[m].epoch,
               index |-> next_outbound_key(ratchet[m]).index,
               key |-> next_outbound_key(ratchet[m]).key] \in Messages
<1>1. ratchet[m] \in EpochRatchets
  BY DEF TypeOK, Send, HasRatchet
<1>2. life[m] \in 0 .. MaxFaults
  BY DEF TypeOK
<1> QED
  BY <1>1, <1>2 DEF next_outbound_key, message_key, derive_message_key, EpochRatchets, Messages

\* Every step keeps the types.
LEMMA TypeStep == TypeOK /\ LivesBounded /\ [Next]_vars => TypeOK' /\ LivesBounded'
<1> SUFFICES ASSUME TypeOK, LivesBounded, [Next]_vars PROVE TypeOK' /\ LivesBounded'
  OBVIOUS
<1> USE GroupAssumption
<1>1. ASSUME NEW to \in SUBSET Members, Rekey(to) PROVE TypeOK' /\ LivesBounded'
  <2>1. epoch + 1 \in Epochs
    BY <1>1 DEF Rekey, TypeOK, Epochs
  <2>2. roster' \in [Epochs -> SUBSET Members] /\ epoch' \in Epochs
    BY <1>1, <2>1 DEF Rekey, TypeOK
  <2>3. drawn' \subseteq Secrets /\ payloads' \subseteq Payloads
    BY <1>1, <2>1 DEF Rekey, TypeOK, new_epoch_secret, wrap_epoch_secret, Payloads
  <2> QED
    BY <1>1, <2>2, <2>3 DEF Rekey, TypeOK, LivesBounded
<1>2. ASSUME NEW m \in Members, NEW p \in payloads, Accept(m, p)
      PROVE  TypeOK' /\ LivesBounded'
  <2>1. p \in Payloads
    BY DEF TypeOK
  <2>2. unwrap_epoch_secret(p, m) \in Secrets
    BY <1>2, <2>1, UnwrapOwn DEF Accept, Payloads
  <2>3. EpochRatchet_new(p.epoch, unwrap_epoch_secret(p, m), now) \in EpochRatchets
    BY <2>1, <2>2 DEF EpochRatchet_new, EpochRatchets, Payloads, TypeOK
  <2>4. ratchet' \in [Members -> EpochRatchets \cup {None}]
    BY <1>2, <2>3 DEF Accept, TypeOK
  <2>5. learned' \in [Members -> SUBSET Secrets]
    BY <1>2, <2>2 DEF Accept, TypeOK
  <2> QED
    BY <1>2, <2>4, <2>5 DEF Accept, TypeOK, LivesBounded
<1>3. ASSUME NEW m \in Members, Send(m) PROVE TypeOK' /\ LivesBounded'
  <2>1. ratchet' \in [Members -> EpochRatchets \cup {None}]
    BY <1>3, SendType DEF Send, TypeOK
  <2>2. sent' \in Seq(Messages)
    BY <1>3, SendType, AppendMembers DEF Send, TypeOK
  <2> QED
    BY <1>3, <2>1, <2>2 DEF Send, TypeOK, LivesBounded
<1>4. ASSUME NEW p \in payloads, Damage(p) PROVE TypeOK' /\ LivesBounded'
  <2>1. \A f \in {"damaged", "short"} : [p EXCEPT !.form = f] \in Payloads
    BY DEF TypeOK, Payloads
  <2>2. payloads' \subseteq Payloads
    BY <1>4, <2>1 DEF Damage, TypeOK
  <2> QED
    BY <1>4, <2>2 DEF Damage, TypeOK, LivesBounded
<1>5. ASSUME NEW m \in Members, Restart(m) PROVE TypeOK' /\ LivesBounded'
  <2>1. ratchet' \in [Members -> EpochRatchets \cup {None}]
    BY <1>5 DEF Restart, TypeOK
  <2>2. life[m] + 1 \in 0 .. MaxFaults /\ faults + 1 \in 0 .. MaxFaults
    BY <1>5 DEF Restart, TypeOK, LivesBounded
  <2>3. life' \in [Members -> 0 .. MaxFaults] /\ LivesBounded'
    BY <1>5, <2>2 DEF Restart, TypeOK, LivesBounded
  <2> QED
    BY <1>5, <2>1, <2>2, <2>3 DEF Restart, TypeOK
<1>6. CASE ClockStep
  BY <1>6 DEF ClockStep, TypeOK, LivesBounded
<1>7. CASE UNCHANGED vars
  BY <1>7 DEF vars, TypeOK, LivesBounded
<1> QED
  BY <1>1, <1>2, <1>3, <1>4, <1>5, <1>6, <1>7 DEF Next

\* Initially everything has its type.
LEMMA TypeInit == Init => TypeOK /\ LivesBounded
  BY GroupAssumption DEF Init, TypeOK, LivesBounded, Epochs

\* The types are right in every state of every group: no error and no
\* unauthenticated bytes of unwrap_epoch_secret reach a ratchet or a key.
THEOREM TypeInvariant == Spec => []TypeOK
  BY TypeInit, TypeStep, PTL DEF Spec

-----------------------------------------------------------------------------
(* Which secret belongs to which epoch.                                    *)

\* A payload was wrapped for a member of its epoch's roster, and payloads have
\* one secret exactly if they are of one epoch.
PayloadInv ==
    /\ \A p \in payloads :
        p.epoch <= epoch /\ p.secret \in drawn /\ p.to \in roster[p.epoch]
    /\ \A p, q \in payloads : p.epoch = q.epoch <=> p.secret = q.secret

\* A secret that belongs to an epoch is in one of its payloads, perhaps a damaged one.
OfEpoch(secret, e) == \E p \in payloads : p.epoch = e /\ p.secret = secret

\* Members have learned secrets from payloads wrapped to them.
LearnedInv ==
    \A m \in Members : \A s \in learned[m] : \E p \in payloads : p.to = m /\ p.secret = s

\* Ratchets have the secret of their epoch.
RatchetInv ==
    \A m \in Members : HasRatchet(m) => OfEpoch(ratchet[m].epoch_secret, ratchet[m].epoch)

\* Messages were sealed with the key of their slot.
SentInv ==
    \A i \in DOMAIN sent :
        LET x == sent[i]
        IN  OfEpoch(x.key.secret, x.epoch) /\ x.key.epoch = x.epoch /\ x.key.index = x.index

SecretInv == PayloadInv /\ LearnedInv /\ RatchetInv /\ SentInv

\* What a payload says survives every step, though it may be damaged.
LEMMA PayloadsStay ==
    ASSUME TypeOK, [Next]_vars, NEW p \in payloads
    PROVE  \E q \in payloads' : q.epoch = p.epoch /\ q.to = p.to /\ q.secret = p.secret
<1>1. ASSUME NEW k \in payloads, Damage(k)
      PROVE  \E q \in payloads' : q.epoch = p.epoch /\ q.to = p.to /\ q.secret = p.secret
  <2>1. PICK f \in {"damaged", "short"} :
            payloads' = (payloads \ {k}) \cup {[k EXCEPT !.form = f]}
    BY <1>1 DEF Damage
  <2>2. CASE p = k
    <3>1. k \in Payloads
      BY DEF TypeOK
    <3>2. PICK q : q = [k EXCEPT !.form = f]
      OBVIOUS
    <3>3. q.epoch = k.epoch /\ q.to = k.to /\ q.secret = k.secret
      BY <3>1, <3>2 DEF Payloads
    <3> QED
      BY <2>1, <2>2, <3>2, <3>3
  <2>3. CASE p # k
    BY <2>1, <2>3
  <2> QED
    BY <2>2, <2>3
<1>2. ASSUME NEW to \in SUBSET Members, Rekey(to) PROVE p \in payloads'
  BY <1>2 DEF Rekey
<1>3. CASE payloads' = payloads
  BY <1>3
<1> QED
  BY <1>1, <1>2, <1>3 DEF Next, Accept, Send, Restart, ClockStep, vars

\* So a secret stays with its epoch.
LEMMA EpochStays ==
    ASSUME TypeOK, [Next]_vars, NEW secret, NEW e, OfEpoch(secret, e)
    PROVE  OfEpoch(secret, e)'
  BY PayloadsStay DEF OfEpoch

\* A new epoch draws a secret that no payload has, so the epochs stay apart.
LEMMA PayloadRekey ==
    ASSUME TypeOK, PayloadInv, NEW to \in SUBSET Members, Rekey(to)
    PROVE  PayloadInv'
<1> USE GroupAssumption
<1>1. PICK s \in Secrets \ drawn :
         /\ drawn' = drawn \cup {s}
         /\ payloads' = payloads \cup wrap_epoch_secret(s, epoch + 1, to)
  BY DEF Rekey, new_epoch_secret
<1>2. epoch \in Nat /\ epoch + 1 \in Epochs /\ epoch' = epoch + 1
  BY DEF Rekey, TypeOK, Epochs
<1>3. roster' = [roster EXCEPT ![epoch + 1] = to]
  BY DEF Rekey
<1>4. ASSUME NEW p \in payloads'
      PROVE  \/ p \in payloads /\ p.epoch \in Nat /\ p.epoch <= epoch /\ p.secret \in drawn
             \/ p.epoch = epoch + 1 /\ p.secret = s /\ p.to \in to
  <2>1. CASE p \in payloads
    BY <2>1 DEF PayloadInv, TypeOK, Payloads, Epochs
  <2>2. CASE p \in wrap_epoch_secret(s, epoch + 1, to)
    BY <2>2 DEF wrap_epoch_secret
  <2> QED
    BY <1>1, <2>1, <2>2
<1>5. ASSUME NEW p \in payloads'
      PROVE  p.epoch <= epoch' /\ p.secret \in drawn' /\ p.to \in roster'[p.epoch]
  <2>1. CASE p \in payloads
    <3>1. p.epoch \in Epochs /\ p.epoch <= epoch /\ p.epoch \in Nat
      BY <2>1 DEF PayloadInv, TypeOK, Payloads, Epochs
    <3>2. p.secret \in drawn /\ p.to \in roster[p.epoch]
      BY <2>1 DEF PayloadInv
    <3> QED
      BY <1>1, <1>2, <1>3, <3>1, <3>2 DEF TypeOK
  <2>2. CASE p.epoch = epoch + 1 /\ p.secret = s /\ p.to \in to
    BY <1>1, <1>2, <1>3, <2>2 DEF TypeOK
  <2> QED
    BY <1>4, <2>1, <2>2
<1>6. ASSUME NEW p \in payloads', NEW q \in payloads'
      PROVE  p.epoch = q.epoch <=> p.secret = q.secret
  BY <1>1, <1>2, <1>4 DEF PayloadInv
<1> QED
  BY <1>5, <1>6 DEF PayloadInv

\* Damage changes the form of a payload only.
LEMMA PayloadDamage ==
    ASSUME TypeOK, PayloadInv, NEW k \in payloads, Damage(k)
    PROVE  PayloadInv'
<1>1. ASSUME NEW q \in payloads'
      PROVE  \E p \in payloads : q.epoch = p.epoch /\ q.to = p.to /\ q.secret = p.secret
  BY <1>1 DEF Damage, TypeOK, Payloads
<1>2. epoch' = epoch /\ roster' = roster /\ drawn' = drawn
  BY DEF Damage
<1> QED
  BY <1>1, <1>2 DEF PayloadInv

\* The secrets of payloads, members, ratchets and messages stay in their epochs.
LEMMA SecretStep ==
    ASSUME TypeOK, LivesBounded, SecretInv, [Next]_vars
    PROVE  SecretInv'
<1> USE GroupAssumption
<1>1. PayloadInv'
  <2>1. CASE UNCHANGED <<epoch, roster, drawn, payloads>>
    BY <2>1 DEF PayloadInv, SecretInv
  <2> QED
    BY <2>1, PayloadRekey, PayloadDamage
       DEF SecretInv, Next, Accept, Send, Restart, ClockStep, vars
<1>2. LearnedInv'
  <2>1. CASE learned' = learned
    BY <2>1, PayloadsStay DEF SecretInv, LearnedInv
  <2>2. ASSUME NEW m \in Members, NEW p \in payloads, Accept(m, p) PROVE LearnedInv'
    <3>1. p.to = m /\ unwrap_epoch_secret(p, m) = p.secret
      BY <2>2, UnwrapOwn DEF Accept, TypeOK
    <3>2. learned' = [learned EXCEPT ![m] = @ \cup {p.secret}] /\ payloads' = payloads
      BY <2>2, <3>1 DEF Accept
    <3> QED
      BY <3>1, <3>2 DEF SecretInv, LearnedInv, TypeOK
  <2> QED
    BY <2>1, <2>2 DEF Next, Rekey, Send, Damage, Restart, ClockStep, vars
<1>3. RatchetInv'
  <2>1. CASE ratchet' = ratchet
    BY <2>1, EpochStays DEF SecretInv, RatchetInv, HasRatchet
  <2>2. ASSUME NEW m \in Members, NEW p \in payloads, Accept(m, p) PROVE RatchetInv'
    <3>1. unwrap_epoch_secret(p, m) = p.secret
      BY <2>2, UnwrapOwn DEF Accept, TypeOK
    <3>2. /\ ratchet' = [ratchet EXCEPT ![m] = EpochRatchet_new(p.epoch, p.secret, now)]
          /\ payloads' = payloads
      BY <2>2, <3>1 DEF Accept
    <3>3. /\ ratchet'[m].epoch = p.epoch /\ ratchet'[m].epoch_secret = p.secret
          /\ \A n \in Members \ {m} : ratchet'[n] = ratchet[n]
      BY <3>2 DEF EpochRatchet_new, TypeOK
    <3> QED
      BY <3>2, <3>3 DEF SecretInv, RatchetInv, OfEpoch, HasRatchet
  <2>3. ASSUME NEW m \in Members, Send(m) PROVE RatchetInv'
    <3>1. ratchet' = [ratchet EXCEPT ![m] = next_outbound_key(ratchet[m]).ratchet]
          /\ payloads' = payloads /\ HasRatchet(m)
      BY <2>3 DEF Send
    <3>2. ratchet[m] \in EpochRatchets
      BY <2>3, SendType
    <3>3. /\ ratchet'[m].epoch = ratchet[m].epoch
          /\ ratchet'[m].epoch_secret = ratchet[m].epoch_secret
          /\ \A n \in Members \ {m} : ratchet'[n] = ratchet[n]
      BY <3>1, <3>2 DEF next_outbound_key, EpochRatchets, TypeOK
    <3> QED
      BY <3>1, <3>3 DEF SecretInv, RatchetInv, OfEpoch, HasRatchet
  <2>4. ASSUME NEW m \in Members, Restart(m) PROVE RatchetInv'
    BY <2>4 DEF Restart, SecretInv, RatchetInv, OfEpoch, HasRatchet, TypeOK
  <2> QED
    BY <2>1, <2>2, <2>3, <2>4 DEF Next, Rekey, Damage, ClockStep, vars
<1>4. SentInv'
  <2>1. CASE sent' = sent
    BY <2>1, EpochStays DEF SecretInv, SentInv
  <2>2. ASSUME NEW m \in Members, Send(m) PROVE SentInv'
    <3> DEFINE r == ratchet[m]
    <3>1. OfEpoch(r.epoch_secret, r.epoch)
      BY <2>2 DEF Send, SecretInv, RatchetInv
    <3>2. PICK x : /\ sent' = Append(sent, x)
                   /\ x = [from |-> m, life |-> life[m], epoch |-> r.epoch,
                           index |-> r.message_index,
                           key |-> [secret |-> r.epoch_secret, epoch |-> r.epoch,
                                    index |-> r.message_index]]
      BY <2>2 DEF Send, next_outbound_key, message_key, derive_message_key
    <3>3. x.key.secret = r.epoch_secret /\ x.epoch = r.epoch /\ x.key.epoch = x.epoch
          /\ x.key.index = x.index
      BY <3>2
    <3>4. OfEpoch(x.key.secret, x.epoch)'
      BY <2>2, <3>1, <3>3 DEF OfEpoch, Send
    <3>5. \A i \in DOMAIN sent' : (i \in DOMAIN sent /\ sent'[i] = sent[i]) \/ sent'[i] = x
      BY <3>2 DEF TypeOK
    <3>6. payloads' = payloads
      BY <2>2 DEF Send
    <3> QED
      BY <3>3, <3>4, <3>5, <3>6 DEF SentInv, SecretInv, OfEpoch
  <2> QED
    BY <2>1, <2>2 DEF Next, Rekey, Accept, Damage, Restart, ClockStep, vars
<1> QED
  BY <1>1, <1>2, <1>3, <1>4 DEF SecretInv

\* Initially there are no secrets to keep apart.
LEMMA SecretInit == Init => SecretInv
  BY DEF Init, SecretInv, PayloadInv, LearnedInv, RatchetInv, SentInv, HasRatchet

\* The types and the places of secrets, in every state.
LEMMA SecretInvariant == Spec => [](TypeOK /\ LivesBounded /\ SecretInv)
<1>1. TypeOK /\ LivesBounded /\ SecretInv /\ [Next]_vars
        => (TypeOK /\ LivesBounded /\ SecretInv)'
  BY TypeStep, SecretStep
<1> QED
  BY <1>1, TypeInit, SecretInit, PTL DEF Spec

\* "A removed member cannot derive any future epoch's keys", nor a new member
\* those of earlier epochs, for every group and every number of epochs, faults
\* and restarts: unwrap_epoch_secret gives a secret to its roster only, and no
\* secret serves two epochs.
THEOREM EpochIsolationHolds == Spec => []EpochIsolation
<1>1. TypeOK /\ SecretInv => EpochIsolation
  <2> SUFFICES ASSUME TypeOK, SecretInv, NEW i \in DOMAIN sent, NEW m \in Members,
                      sent[i].key.secret \in learned[m]
               PROVE  m \in roster[sent[i].epoch]
    BY DEF EpochIsolation, ToSet
  <2>1. PICK p \in payloads : p.epoch = sent[i].epoch /\ p.secret = sent[i].key.secret
    BY DEF SecretInv, SentInv, OfEpoch
  <2>2. PICK q \in payloads : q.to = m /\ q.secret = sent[i].key.secret
    BY DEF SecretInv, LearnedInv
  <2> QED
    BY <2>1, <2>2 DEF SecretInv, PayloadInv
<1> QED
  BY <1>1, SecretInvariant, PTL

\* Every member in a message's epoch derives the key it was sealed with from the
\* index it carries, however its own counter stands.
THEOREM ReadersAgreeHolds == Spec => []ReadersAgree
<1>1. TypeOK /\ SecretInv => ReadersAgree
  <2> SUFFICES ASSUME TypeOK, SecretInv, NEW i \in DOMAIN sent, NEW m \in Members,
                      HasRatchet(m), ratchet[m].epoch = sent[i].epoch
               PROVE  message_key(ratchet[m], sent[i].index) = sent[i].key
    BY DEF ReadersAgree, ToSet
  <2>1. ratchet[m].epoch_secret = sent[i].key.secret
    BY DEF SecretInv, SentInv, RatchetInv, PayloadInv, OfEpoch
  <2>2. sent[i].key.epoch = sent[i].epoch /\ sent[i].key.index = sent[i].index
    BY DEF SecretInv, SentInv
  <2>3. sent[i] \in Messages
    BY DEF TypeOK
  <2>4. sent[i].key \in [secret : Secrets, epoch : Epochs, index : Nat]
    BY <2>3 DEF Messages
  <2> QED
    BY <2>1, <2>2, <2>4 DEF message_key, derive_message_key
<1> QED
  BY <1>1, SecretInvariant, PTL

-----------------------------------------------------------------------------
(* How far keys are shared.                                                *)

\* A message is of an earlier life, or of a slot before the one its sender's
\* ratchet is at.
Behind(x) ==
    /\ x.life <= life[x.from]
    /\ x.life = life[x.from] =>
        /\ ratchet[x.from] # None
        /\ \/ x.epoch < ratchet[x.from].epoch
           \/ x.epoch = ratchet[x.from].epoch /\ x.index < ratchet[x.from].message_index

SlotInv == \A i \in DOMAIN sent : Behind(sent[i])

\* A message behind its sender's ratchet stays behind it: ratchets go forward
\* within a life, and a restart begins another.
LEMMA BehindStays ==
    ASSUME TypeOK, LivesBounded, [Next]_vars, NEW x \in Messages, Behind(x)
    PROVE  Behind(x)'
<1> USE GroupAssumption
<1>0. /\ x.from \in Members /\ x.life \in Nat /\ x.epoch \in Nat /\ x.index \in Nat
      /\ life[x.from] \in Nat
  BY DEF Messages, Epochs, TypeOK
<1>1. CASE UNCHANGED <<ratchet, life>>
  BY <1>1 DEF Behind
<1>2. ASSUME NEW m \in Members, NEW p \in payloads, Accept(m, p) PROVE Behind(x)'
  <2>1. CASE x.from # m
    BY <1>2, <2>1 DEF Accept, Behind, TypeOK
  <2>2. CASE x.from = m
    <3>1. ratchet'[m] = EpochRatchet_new(p.epoch, unwrap_epoch_secret(p, m), now)
          /\ life' = life
      BY <1>2 DEF Accept, TypeOK
    <3>2. ratchet'[m] \in EpochRatchets /\ ratchet'[m].epoch = p.epoch /\ p.epoch \in Nat
      <4>1. p \in Payloads
        BY DEF TypeOK
      <4>2. unwrap_epoch_secret(p, m) \in Secrets
        BY <1>2, <4>1, UnwrapOwn DEF Accept, Payloads
      <4> QED
        BY <3>1, <4>1, <4>2 DEF EpochRatchet_new, EpochRatchets, Payloads, Epochs, TypeOK
    <3>3. CASE x.life = life[m]
      <4>1. HasRatchet(m) /\ x.epoch <= ratchet[m].epoch /\ ratchet[m].epoch \in Nat
        BY <1>0, <2>2, <3>3 DEF Behind, HasRatchet, TypeOK, EpochRatchets, Epochs
      <4>2. x.epoch < p.epoch
        BY <1>0, <1>2, <3>2, <4>1 DEF Accept
      <4>3. ratchet'[m] # None
        BY <3>2, NoneAssumption
      <4> QED
        BY <2>2, <3>1, <3>2, <4>2, <4>3 DEF Behind
    <3>4. CASE x.life # life[m]
      BY <2>2, <3>1, <3>4 DEF Behind
    <3> QED
      BY <3>3, <3>4
  <2> QED
    BY <2>1, <2>2
<1>3. ASSUME NEW m \in Members, Send(m) PROVE Behind(x)'
  <2>1. /\ ratchet' = [ratchet EXCEPT ![m] = next_outbound_key(ratchet[m]).ratchet]
        /\ life' = life
    BY <1>3 DEF Send
  <2>2. ratchet[m] \in EpochRatchets
    BY <1>3, SendType
  <2>3. CASE x.from # m
    BY <2>1, <2>3 DEF Behind, TypeOK
  <2>4. CASE x.from = m
    <3>1. ratchet'[m] = [ratchet[m] EXCEPT !.message_index = @ + 1]
      BY <2>1 DEF next_outbound_key, TypeOK
    <3>2. /\ ratchet'[m].epoch = ratchet[m].epoch
          /\ ratchet'[m].message_index = ratchet[m].message_index + 1
          /\ ratchet[m].message_index \in Nat
      BY <2>2, <3>1 DEF EpochRatchets
    <3>3. ratchet'[m] # None
      BY <1>3, SendType, <2>1, NoneAssumption DEF TypeOK
    <3> QED
      BY <1>0, <2>1, <2>4, <3>2, <3>3 DEF Behind
  <2> QED
    BY <2>3, <2>4
<1>4. ASSUME NEW m \in Members, Restart(m) PROVE Behind(x)'
  <2>1. CASE x.from # m
    BY <1>4, <2>1 DEF Restart, Behind, TypeOK
  <2>2. CASE x.from = m
    <3>1. life'[m] = life[m] + 1
      BY <1>4 DEF Restart, TypeOK
    <3> QED
      BY <1>0, <2>2, <3>1 DEF Behind
  <2> QED
    BY <2>1, <2>2
<1> QED
  BY <1>1, <1>2, <1>3, <1>4 DEF Next, Rekey, Damage, ClockStep, vars

\* The message that is sent is behind the ratchet after it.
LEMMA SentBehind ==
    ASSUME TypeOK, LivesBounded, NEW m \in Members, Send(m)
    PROVE  \E x \in Messages :
             /\ sent' = Append(sent, x)
             /\ Behind(x)'
             /\ x.from = m /\ x.life = life[m] /\ x.epoch = ratchet[m].epoch
             /\ x.index = ratchet[m].message_index
<1>0. PICK x : x = [from |-> m, life |-> life[m], epoch |-> ratchet[m].epoch,
                    index |-> next_outbound_key(ratchet[m]).index,
                    key |-> next_outbound_key(ratchet[m]).key]
  OBVIOUS
<1>1. x \in Messages /\ ratchet[m] \in EpochRatchets
  BY <1>0, SendType
<1>2. sent' = Append(sent, x) /\ life' = life
      /\ ratchet' = [ratchet EXCEPT ![m] = next_outbound_key(ratchet[m]).ratchet]
  BY <1>0 DEF Send
<1>3. x.from = m /\ x.life = life[m] /\ x.epoch = ratchet[m].epoch
      /\ x.index = ratchet[m].message_index
  BY <1>0 DEF next_outbound_key
<1>4. ratchet'[m] = [ratchet[m] EXCEPT !.message_index = @ + 1]
  BY <1>2 DEF next_outbound_key, TypeOK
<1>5. ratchet'[m] \in EpochRatchets /\ ratchet'[m].epoch = ratchet[m].epoch
      /\ ratchet'[m].message_index = ratchet[m].message_index + 1
      /\ ratchet[m].message_index \in Nat
  BY <1>1, <1>4 DEF EpochRatchets
<1>6. ratchet'[m] # None
  BY <1>5, NoneAssumption
<1>7. life[m] \in Nat
  BY GroupAssumption DEF TypeOK
<1>8. Behind(x)'
  BY <1>2, <1>3, <1>5, <1>6, <1>7 DEF Behind
<1> QED
  BY <1>1, <1>2, <1>3, <1>8

\* Keys are shared as KeySharing says and no further, and slots are left behind.
LEMMA KeyStep ==
    ASSUME TypeOK, LivesBounded, SecretInv, SecretInv', SlotInv, KeySharing, [Next]_vars
    PROVE  SlotInv' /\ KeySharing'
<1>1. \A x \in Messages : Behind(x) => Behind(x)'
  BY BehindStays
<1>0. \A i \in DOMAIN sent : sent[i] \in Messages
  BY DEF TypeOK
<1>2. CASE sent' = sent
  BY <1>0, <1>1, <1>2 DEF SlotInv, KeySharing
<1>3. ASSUME NEW m \in Members, Send(m) PROVE SlotInv' /\ KeySharing'
  <2>1. PICK x \in Messages :
           /\ sent' = Append(sent, x)
           /\ Behind(x)'
           /\ x.from = m /\ x.life = life[m] /\ x.epoch = ratchet[m].epoch
           /\ x.index = ratchet[m].message_index
    BY <1>3, SentBehind
  <2>2. \A i \in DOMAIN sent' :
            \/ i \in DOMAIN sent /\ sent'[i] = sent[i]
            \/ i = Len(sent) + 1 /\ sent'[i] = x
    BY <2>1, AppendPlaces DEF TypeOK
  <2>3. SlotInv'
    BY <1>0, <1>1, <2>1, <2>2 DEF SlotInv, Behind
  <2>4. ASSUME NEW i \in DOMAIN sent
        PROVE  <<sent[i].from, sent[i].life, sent[i].epoch, sent[i].index>>
                  # <<x.from, x.life, x.epoch, x.index>>
    <3>1. ratchet[m] \in EpochRatchets
      BY <1>3, SendType
    <3>2. Behind(sent[i])
      BY DEF SlotInv
    <3> QED
      BY <2>1, <3>1, <3>2, GroupAssumption DEF Behind, EpochRatchets, Epochs
  <2>5. \A i \in DOMAIN sent' : /\ sent'[i].key.epoch = sent'[i].epoch
                              /\ sent'[i].key.index = sent'[i].index
    BY DEF SecretInv, SentInv
  <2>6. ASSUME NEW i \in DOMAIN sent', NEW j \in DOMAIN sent', i # j, sent'[i].key = sent'[j].key
        PROVE  /\ sent'[i].epoch = sent'[j].epoch /\ sent'[i].index = sent'[j].index
               /\ <<sent'[i].from, sent'[i].life>> # <<sent'[j].from, sent'[j].life>>
    <3>1. sent'[i].epoch = sent'[j].epoch /\ sent'[i].index = sent'[j].index
      BY <2>5, <2>6
    <3>2. CASE i \in DOMAIN sent /\ j \in DOMAIN sent /\ sent'[i] = sent[i] /\ sent'[j] = sent[j]
      BY <2>6, <3>2 DEF KeySharing
    <3>3. CASE i \in DOMAIN sent /\ sent'[i] = sent[i] /\ sent'[j] = x
      BY <2>4, <3>1, <3>3
    <3>4. CASE j \in DOMAIN sent /\ sent'[j] = sent[j] /\ sent'[i] = x
      BY <2>4, <3>1, <3>4
    <3> QED
      BY <2>2, <2>6, <3>2, <3>3, <3>4
  <2> QED
    BY <2>3, <2>6 DEF KeySharing
<1> QED
  BY <1>2, <1>3 DEF Next, Rekey, Accept, Damage, Restart, ClockStep, vars

\* Slots are left behind and keys are shared no further, in every state.
LEMMA SlotInvariant == Spec => [](SlotInv /\ KeySharing)
<1>1. Init => SlotInv /\ KeySharing
  BY DEF Init, SlotInv, KeySharing
<1>2. TypeOK /\ LivesBounded /\ SecretInv /\ SecretInv' /\ SlotInv /\ KeySharing /\ [Next]_vars
        => (SlotInv /\ KeySharing)'
  BY KeyStep
<1> QED
  BY <1>1, <1>2, SecretInvariant, PTL DEF Spec

\* A message key is shared by messages of one epoch and index only, each of
\* another sender or of another life of a sender: within a life, whatever the
\* order of payloads, clock steps and rekeys, next_outbound_key never gives a
\* key again.
THEOREM KeySharingHolds == Spec => []KeySharing
  BY SlotInvariant, PTL

-----------------------------------------------------------------------------
(* What an epoch carries before anybody is told.                           *)

\* A member's ratchet has a secret that the member has unwrapped.
OwnInv == \A m \in Members : HasRatchet(m) => ratchet[m].epoch_secret \in learned[m]

\* Every step keeps it: Accept stores the secret it unwraps, Send leaves it.
LEMMA OwnStep ==
    ASSUME TypeOK, LivesBounded, OwnInv, [Next]_vars
    PROVE  OwnInv'
<1> SUFFICES ASSUME NEW q \in Members, HasRatchet(q)'
             PROVE  ratchet'[q].epoch_secret \in learned'[q]
  BY DEF OwnInv
<1>1. ASSUME NEW m \in Members, NEW p \in payloads, Accept(m, p)
      PROVE  ratchet'[q].epoch_secret \in learned'[q]
  <2>1. CASE q = m
    <3>1. /\ ratchet'[m] = EpochRatchet_new(p.epoch, unwrap_epoch_secret(p, m), now)
          /\ unwrap_epoch_secret(p, m) \in learned'[m]
      BY <1>1 DEF Accept, TypeOK
    <3> QED
      BY <2>1, <3>1 DEF EpochRatchet_new
  <2>2. CASE q # m
    BY <1>1, <2>2 DEF Accept, TypeOK, OwnInv, HasRatchet
  <2> QED
    BY <2>1, <2>2
<1>2. ASSUME NEW m \in Members, Send(m)
      PROVE  ratchet'[q].epoch_secret \in learned'[q]
  <2>0. learned' = learned /\ ratchet' = [ratchet EXCEPT ![m] = next_outbound_key(ratchet[m]).ratchet]
    BY <1>2 DEF Send
  <2>1. CASE q = m
    <3>1. ratchet[m] \in EpochRatchets /\ HasRatchet(m)
      BY <1>2, SendType DEF Send
    <3>2. ratchet'[m] = [ratchet[m] EXCEPT !.message_index = @ + 1]
      BY <2>0 DEF next_outbound_key, TypeOK
    <3>3. ratchet'[m].epoch_secret = ratchet[m].epoch_secret
      BY <3>1, <3>2 DEF EpochRatchets
    <3> QED
      BY <2>0, <2>1, <3>1, <3>3 DEF OwnInv
  <2>2. CASE q # m
    BY <2>0, <2>2 DEF TypeOK, OwnInv, HasRatchet
  <2> QED
    BY <2>1, <2>2
<1>3. ASSUME NEW m \in Members, Restart(m)
      PROVE  ratchet'[q].epoch_secret \in learned'[q]
  BY <1>3 DEF Restart, TypeOK, OwnInv, HasRatchet
<1>4. CASE UNCHANGED <<ratchet, learned>>
  BY <1>4 DEF OwnInv, HasRatchet
<1> QED
  BY <1>1, <1>2, <1>3, <1>4 DEF Next, Rekey, Damage, ClockStep, vars

\* All that the budget of an epoch rests on.
LEMMA BudgetInvariant == Spec => [](TypeOK /\ SecretInv /\ SlotInv /\ KeySharing /\ OwnInv)
<1>1. Init => OwnInv
  BY DEF Init, OwnInv, HasRatchet
<1> QED
  BY <1>1, OwnStep, SecretInvariant, SlotInvariant, PTL DEF Spec

\* A message of the current epoch, of its sender's present life, is below the
\* counter of a ratchet of this epoch; its sender belongs to the roster.
LEMMA PresentSender ==
    ASSUME TypeOK, SecretInv, SlotInv, OwnInv, NEW i \in DOMAIN sent,
           sent[i].epoch = epoch, sent[i].life = life[sent[i].from]
    PROVE  /\ sent[i].from \in roster[epoch] /\ HasRatchet(sent[i].from)
           /\ ratchet[sent[i].from] \in EpochRatchets
           /\ sent[i].index \in Nat /\ sent[i].index < ratchet[sent[i].from].message_index
<1>1. PICK x \in Messages : x = sent[i]
  BY DEF TypeOK
<1>2. PICK m \in Members : m = x.from
  BY DEF Messages
<1>3. /\ ratchet[m] # None
      /\ \/ epoch < ratchet[m].epoch
         \/ epoch = ratchet[m].epoch /\ x.index < ratchet[m].message_index
  BY <1>1, <1>2 DEF SlotInv, Behind
<1>4. ratchet[m] \in EpochRatchets /\ HasRatchet(m)
  BY <1>3 DEF TypeOK, HasRatchet
<1>5. PICK p \in payloads : p.epoch = ratchet[m].epoch /\ p.secret = ratchet[m].epoch_secret
  BY <1>4 DEF SecretInv, RatchetInv, OfEpoch
<1>6. PICK q \in payloads : q.to = m /\ q.secret = ratchet[m].epoch_secret
  BY <1>4 DEF OwnInv, SecretInv, LearnedInv
<1>7. p.epoch <= epoch /\ q.epoch = p.epoch /\ m \in roster[q.epoch]
  BY <1>5, <1>6 DEF SecretInv, PayloadInv
<1>8. ratchet[m].epoch = epoch /\ x.index < ratchet[m].message_index
  BY <1>3, <1>4, <1>5, <1>7 DEF TypeOK, EpochRatchets, Epochs
<1> QED
  BY <1>1, <1>2, <1>4, <1>5, <1>7, <1>8 DEF Messages

\* Two messages of one life in one epoch have different indices.
LEMMA IndicesDiffer ==
    ASSUME TypeOK, SecretInv, KeySharing, NEW i \in DOMAIN sent, NEW j \in DOMAIN sent, i # j,
           sent[i].from = sent[j].from, sent[i].life = sent[j].life, sent[i].epoch = sent[j].epoch
    PROVE  sent[i].index # sent[j].index
<1> SUFFICES ASSUME sent[i].index = sent[j].index PROVE sent[i].key = sent[j].key
  BY DEF KeySharing
<1>1. sent[i].key.secret = sent[j].key.secret
  BY DEF SecretInv, SentInv, PayloadInv, OfEpoch
<1>2. sent[i].key.epoch = sent[j].key.epoch /\ sent[i].key.index = sent[j].key.index
  BY DEF SecretInv, SentInv
<1>3. sent[i] \in Messages /\ sent[j] \in Messages
  BY DEF TypeOK
<1>4. /\ sent[i].key \in [secret : Secrets, epoch : Epochs, index : Nat]
      /\ sent[j].key \in [secret : Secrets, epoch : Epochs, index : Nat]
  BY <1>3 DEF Messages
<1> QED
  BY <1>1, <1>2, <1>4

\* As long as no ratchet of the roster says should_rekey, the messages of present
\* lives in the epoch are at most one less than the bound for each member, for
\* every group and every bound: sender and index tell them apart, the sender is
\* of the roster, and the index is below a counter that is below the bound.
THEOREM QuietEpochBudgetHolds == Spec => []QuietEpochBudget
<1>1. TypeOK /\ SecretInv /\ SlotInv /\ KeySharing /\ OwnInv => QuietEpochBudget
  <2> DEFINE S == {i \in DOMAIN sent : /\ sent[i].epoch = epoch
                                       /\ sent[i].life = life[sent[i].from]}
             T == roster[epoch] \X (1 .. RekeyMsgBound - 1)
             place == [i \in S |-> <<sent[i].from, sent[i].index + 1>>]
  <2> SUFFICES ASSUME TypeOK, SecretInv, SlotInv, KeySharing, OwnInv, ~ RekeyDue(roster[epoch])
               PROVE  Cardinality(S) <= Cardinality(T)
    BY DEF QuietEpochBudget
  <2>1. ASSUME NEW i \in S
        PROVE  sent[i].index \in Nat /\ place[i] \in T
    <3>1. /\ sent[i].from \in roster[epoch] /\ HasRatchet(sent[i].from)
          /\ ratchet[sent[i].from] \in EpochRatchets
          /\ sent[i].index \in Nat /\ sent[i].index < ratchet[sent[i].from].message_index
      BY PresentSender
    <3>2. ~ should_rekey(ratchet[sent[i].from], now)
      BY <3>1 DEF RekeyDue
    <3>3. ratchet[sent[i].from].message_index \in Nat /\ RekeyMsgBound \in Nat
      BY <3>1, GroupAssumption DEF EpochRatchets
    <3>4. sent[i].index + 1 \in 1 .. RekeyMsgBound - 1
      BY <3>1, <3>2, <3>3 DEF should_rekey
    <3> QED
      BY <3>1, <3>4
  <2>2. place \in [S -> T]
    BY <2>1
  <2>3. ASSUME NEW i \in S, NEW j \in S, place[i] = place[j]
        PROVE  i = j
    <3>1. sent[i].from = sent[j].from /\ sent[i].index + 1 = sent[j].index + 1
      BY <2>3
    <3>2. sent[i].index \in Nat /\ sent[j].index \in Nat
      BY <2>1
    <3>3. sent[i].index = sent[j].index
      BY <3>1, <3>2
    <3> QED
      BY <3>1, <3>3, IndicesDiffer
  <2>4. place \in Injection(S, T)
    BY <2>2, <2>3 DEF Injection, IsInjective
  <2>5. IsFiniteSet(T)
    <3>1. IsFiniteSet(roster[epoch])
      BY GroupAssumption, FS_Subset DEF TypeOK
    <3>2. PICK z \in Int : z = RekeyMsgBound - 1
      BY GroupAssumption
    <3>3. IsFiniteSet(1 .. z)
      BY FS_Interval
    <3> QED
      BY <3>1, <3>2, <3>3, FS_Product
  <2> QED
    BY <2>4, <2>5, FS_Injection
<1> QED
  BY <1>1, BudgetInvariant, PTL
=============================================================================
