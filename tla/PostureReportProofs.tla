------------------------ MODULE PostureReportProofs ------------------------
(***************************************************************************)
(* Theorems about PostureReport, for all suites, names and bounds: what a  *)
(* report can claim, which registration counts, and in which order rows    *)
(* are listed.                                                             *)
(***************************************************************************)
EXTENDS PostureReport, TextTheorems, FiniteSetTheorems, SequenceTheorems, TLAPS

-----------------------------------------------------------------------------
(* The process-wide registry.                                              *)

\* The rows that seed the registry.
LEMMA Seeded ==
    /\ DOMAIN seeded = {AesGcm, Hybrid, PgpWrap}
    /\ seeded[AesGcm].status = "symmetric"
    /\ seeded[Hybrid].status = "hybrid-pq"
    /\ seeded[PgpWrap].status = "classical"
  BY DEF seeded, register, empty, CryptoSuite, AesGcm, Hybrid, PgpWrap

\* resolve_suite marks exactly the two good suites, and all else is classical.
LEMMA Resolve ==
    ASSUME NEW id
    PROVE  /\ resolve_suite(id).status \in SuiteStatus
           /\ resolve_suite(id).quantum_resistant \in BOOLEAN
           /\ resolve_suite(id).quantum_resistant <=> id \in {AesGcm, Hybrid}
           /\ resolve_suite(id).status = "classical" <=> id \notin {AesGcm, Hybrid}
  <1>1. resolve_suite(id).status = IF id \in DOMAIN seeded THEN seeded[id].status ELSE "classical"
    BY DEF resolve_suite, suite_status, global
  <1>2. resolve_suite(id).quantum_resistant
            = (id \in DOMAIN seeded /\ is_quantum_resistant(seeded[id].status))
    BY DEF resolve_suite, get_suite, global
  <1>3. AesGcm # Hybrid /\ AesGcm # PgpWrap /\ Hybrid # PgpWrap
    BY DEF AesGcm, Hybrid, PgpWrap
  <1> QED
    BY <1>1, <1>2, <1>3, Seeded DEF is_quantum_resistant, SuiteStatus

-----------------------------------------------------------------------------
(* Surfaces.                                                               *)

\* Texts that a note may repeat.
Words == Peers \cup {"unbreakable", "id", "quantum-proof"}

Kinds == {"dm", "envelope-payload"}
Levels == {"L2-oneshot", "L3-epoch", "other"}
Claims == {"exposed", "hybrid", "hybrid, ratchet", "hybrid, one-shot"}
Notes == [claim : Claims, words : SUBSET Words]

Surfaces == [surface : Kinds, active_suite : Nat, status : SuiteStatus,
             quantum_resistant : BOOLEAN, note : Notes]

Requests == [suite : Nat, level : Levels \cup {"none"}]

\* A surface as its builder made it goes by the seeded registry.
FollowsSeed(s, a) ==
    LET good == a.suite \in {AesGcm, Hybrid}
    IN  /\ s.quantum_resistant <=> good
        /\ s.status = "classical" <=> ~ good
        /\ s.note.claim = "exposed" <=> ~ good

\* A note of a ratchet was asked for.
TellsLevel(s, a) == s.note.claim = "hybrid, ratchet" => a.level = "L3-epoch"

\* An unknown or missing suite is as good as the classical default.
LEMMA SuiteInGood ==
    ASSUME NEW id
    PROVE  SuiteIn(id) \in {AesGcm, Hybrid} <=> id \in {AesGcm, Hybrid}
  BY DEF SuiteIn, DEFAULT_CONVERSATION_SUITE, NoId, AesGcm, Hybrid, PgpWrap

\* What surface_from makes of a note that says "exposed" where it should.
LEMMA SurfaceBuilt ==
    ASSUME NEW kind \in Kinds, NEW a \in Requests,
           NEW note \in Notes,
           note.claim = "exposed" <=> a.suite \notin {AesGcm, Hybrid},
           NEW s, s = surface_from(kind, SuiteIn(a.suite), note)
    PROVE  s \in Surfaces /\ FollowsSeed(s, a)
  <1>id. PICK id : id = SuiteIn(a.suite)
    OBVIOUS
  <1>st. PICK st : st = resolve_suite(id).status
    OBVIOUS
  <1>qr. PICK qr \in BOOLEAN : qr = resolve_suite(id).quantum_resistant
    BY Resolve
  <1>1. s = [surface |-> kind, active_suite |-> id, status |-> st, quantum_resistant |-> qr,
             note |-> note]
    BY <1>id, <1>st, <1>qr DEF surface_from
  <1>2. id \in Nat
    BY <1>id DEF Requests, SuiteIn, DEFAULT_CONVERSATION_SUITE, PgpWrap
  <1>3. /\ st \in SuiteStatus
        /\ qr <=> a.suite \in {AesGcm, Hybrid}
        /\ st = "classical" <=> a.suite \notin {AesGcm, Hybrid}
    BY <1>id, <1>st, <1>qr, Resolve, SuiteInGood
  <1>4. s \in Surfaces
    BY <1>1, <1>2, <1>3 DEF Surfaces
  <1>5. s.quantum_resistant = qr /\ s.status = st /\ s.note = note /\ s.active_suite = id
    BY <1>1
  <1>7. FollowsSeed(s, a)
    BY <1>3, <1>5, Zenon DEF FollowsSeed
  <1> QED
    BY <1>id, <1>4, <1>5, <1>7

\* What the DM builder makes before its check.
LEMMA DmBuilt ==
    ASSUME NEW suite \in Negotiated, NEW level \in Levels, NEW peer \in Peers
    PROVE  LET s == dm_ratchet_surface_for(suite, level_from_wire(level), peer)
               a == [suite |-> suite, level |-> level]
           IN  /\ s \in Surfaces /\ a \in Requests
               /\ FollowsSeed(s, a) /\ TellsLevel(s, a)
  <1> DEFINE id == SuiteIn(suite)
             lv == level_from_wire(level)
  <1>a. PICK a : a = [suite |-> suite, level |-> level]
    OBVIOUS
  <1>n. PICK note : note = dm_note(id, lv, peer)
    OBVIOUS
  <1>s. PICK s : s = surface_from("dm", SuiteIn(a.suite), note)
    OBVIOUS
  <1>1. s = dm_ratchet_surface_for(suite, lv, peer)
    BY <1>a, <1>n, <1>s DEF dm_ratchet_surface_for
  <1>2. a \in Requests /\ a.suite = suite /\ a.level = level
    BY <1>a, ReportAssumption DEF Requests
  <1>3. who(peer) \subseteq {peer} /\ id_text(id) \in {"unbreakable", "id"}
    BY DEF who, id_text
  <1>4. /\ note \in Notes
        /\ note.claim = "exposed" <=> ~ resolve_suite(id).quantum_resistant
        /\ note.claim = "hybrid, ratchet" => lv = "L3-epoch"
    BY <1>n, <1>3 DEF dm_note, Notes, Words, Claims
  <1>5. lv = "L3-epoch" => level = "L3-epoch"
    BY DEF level_from_wire
  <1>6. s \in Surfaces /\ s.note = note /\ s.active_suite = id /\ FollowsSeed(s, a)
    <2>1. "dm" \in Kinds
      BY DEF Kinds
    <2>2. note.claim = "exposed" <=> a.suite \notin {AesGcm, Hybrid}
      BY <1>2, <1>4, Resolve, SuiteInGood
    <2>3. note \in Notes /\ a \in Requests
      BY <1>2, <1>4
    <2>4. s \in Surfaces /\ FollowsSeed(s, a)
      BY <1>s, <2>1, <2>2, <2>3, SurfaceBuilt, Zenon
    <2> QED
      BY <1>s, <1>2, <2>4 DEF surface_from
  <1>7. TellsLevel(s, a)
    BY <1>2, <1>4, <1>5, <1>6 DEF TellsLevel
  <1> QED
    BY <1>a, <1>1, <1>2, <1>6, <1>7

\* What the other builder makes before its check: no word on a ratchet.
LEMMA ConversationBuilt ==
    ASSUME NEW suite \in Negotiated, NEW kind \in Kinds, NEW peer \in Peers
    PROVE  LET s == conversation_surface_for(suite, kind, peer)
               a == [suite |-> suite, level |-> "none"]
           IN  /\ s \in Surfaces /\ a \in Requests
               /\ FollowsSeed(s, a) /\ TellsLevel(s, a)
  <1> DEFINE id == SuiteIn(suite)
  <1>a. PICK a : a = [suite |-> suite, level |-> "none"]
    OBVIOUS
  <1>n. PICK note : note = conversation_note(id, peer)
    OBVIOUS
  <1>s. PICK s : s = surface_from(kind, SuiteIn(a.suite), note)
    OBVIOUS
  <1>1. s = conversation_surface_for(suite, kind, peer)
    BY <1>a, <1>n, <1>s DEF conversation_surface_for
  <1>2. a \in Requests /\ a.suite = suite
    BY <1>a, ReportAssumption DEF Requests
  <1>3. who(peer) \subseteq {peer}
    BY DEF who
  <1>4. /\ note \in Notes
        /\ note.claim = "exposed" <=> ~ resolve_suite(id).quantum_resistant
        /\ note.claim # "hybrid, ratchet"
    BY <1>n, <1>3 DEF conversation_note, Notes, Words, Claims
  <1>5. s \in Surfaces /\ s.note = note /\ FollowsSeed(s, a)
    <2>1. note.claim = "exposed" <=> a.suite \notin {AesGcm, Hybrid}
      BY <1>2, <1>4, Resolve, SuiteInGood
    <2>2. note \in Notes /\ a \in Requests
      BY <1>2, <1>4
    <2>3. s \in Surfaces /\ FollowsSeed(s, a)
      BY <1>s, <2>1, <2>2, SurfaceBuilt, Zenon
    <2> QED
      BY <1>s, <2>3 DEF surface_from
  <1>6. TellsLevel(s, a)
    BY <1>2, <1>4, <1>5 DEF TellsLevel
  <1> QED
    BY <1>a, <1>1, <1>2, <1>5, <1>6

-----------------------------------------------------------------------------
(* The surfaces an application holds.                                      *)

\* Surfaces and what they were asked from stay side by side.
Paired ==
    /\ surfaces \in Seq(Surfaces) /\ asked \in Seq(Requests)
    /\ Len(asked) = Len(surfaces)
    /\ edits \in Nat

SurfaceInv == Paired /\ SurfacesFollowSeed /\ RatchetNeverAssumed

\* The invariant of one surface and its request.
LEMMA SurfaceInvByPlace ==
    /\ SurfacesFollowSeed <=>
           (edits = 0 => \A i \in DOMAIN surfaces : FollowsSeed(surfaces[i], asked[i]))
    /\ RatchetNeverAssumed <=> \A i \in DOMAIN surfaces : TellsLevel(surfaces[i], asked[i])
  BY DEF SurfacesFollowSeed, RatchetNeverAssumed, FollowsSeed, TellsLevel

\* The same of the next state.
LEMMA SurfaceInvByPlaceNext ==
    /\ SurfacesFollowSeed' <=>
           (edits' = 0 => \A i \in DOMAIN surfaces' : FollowsSeed(surfaces'[i], asked'[i]))
    /\ RatchetNeverAssumed' <=> \A i \in DOMAIN surfaces' : TellsLevel(surfaces'[i], asked'[i])
  BY DEF SurfacesFollowSeed, RatchetNeverAssumed, FollowsSeed, TellsLevel

\* A builder that returns adds a pair, and one that panics adds nothing.
LEMMA BuildStep ==
    ASSUME SurfaceInv, NEW s \in Surfaces, NEW a \in Requests, Build(s, a),
           FollowsSeed(s, a), TellsLevel(s, a)
    PROVE  SurfaceInv'
  <1>2. CASE assert_honest(s)
    <2>1. surfaces' = Append(surfaces, s) /\ asked' = Append(asked, a) /\ edits' = edits
      BY <1>2 DEF Build
    <2>2. Paired'
      BY <2>1 DEF SurfaceInv, Paired
    <2>3. ASSUME NEW i \in DOMAIN surfaces'
          PROVE  \/ /\ i \in DOMAIN surfaces
                    /\ surfaces'[i] = surfaces[i] /\ asked'[i] = asked[i]
                 \/ surfaces'[i] = s /\ asked'[i] = a
      <3>1. i \in 1 .. Len(surfaces) + 1 /\ Len(asked) = Len(surfaces)
        BY <2>1 DEF SurfaceInv, Paired
      <3> QED
        BY <2>1, <3>1 DEF SurfaceInv, Paired
    <2>4. SurfacesFollowSeed'
      BY <2>1, <2>3, SurfaceInvByPlace, SurfaceInvByPlaceNext DEF SurfaceInv
    <2>5. RatchetNeverAssumed'
      BY <2>1, <2>3, SurfaceInvByPlace, SurfaceInvByPlaceNext DEF SurfaceInv
    <2> QED
      BY <2>2, <2>4, <2>5 DEF SurfaceInv
  <1>3. CASE ~ assert_honest(s)
    <2>1. surfaces' = surfaces /\ asked' = asked /\ edits' = edits
      BY <1>3 DEF Build
    <2> QED
      BY <2>1 DEF SurfaceInv, Paired, SurfacesFollowSeed, RatchetNeverAssumed
  <1> QED
    BY <1>2, <1>3

\* A changed field is counted, and no field that is changed is a claim.
LEMMA EditStep ==
    ASSUME SurfaceInv, NEW i \in DOMAIN surfaces, Edit(i)
    PROVE  SurfaceInv'
  <1>1. surfaces[i] \in Surfaces /\ surfaces \in Seq(Surfaces) /\ i \in 1 .. Len(surfaces)
    BY DEF SurfaceInv, Paired
  <1>2. PICK e \in Surfaces :
            e.note.claim = surfaces[i].note.claim /\ surfaces' = [surfaces EXCEPT ![i] = e]
    <2>1. CASE surfaces' = [surfaces EXCEPT ![i].quantum_resistant = ~ @]
      <3>1. [surfaces[i] EXCEPT !.quantum_resistant = ~ @] \in Surfaces
        BY <1>1 DEF Surfaces
      <3>2. [surfaces[i] EXCEPT !.quantum_resistant = ~ @].note = surfaces[i].note
        BY <1>1 DEF Surfaces
      <3> QED
        BY <2>1, <3>1, <3>2
    <2>2. CASE surfaces' = [surfaces EXCEPT ![i].note.words = @ \cup {"quantum-proof"}]
      <3>1. [surfaces[i] EXCEPT !.note.words = @ \cup {"quantum-proof"}] \in Surfaces
        BY <1>1 DEF Surfaces, Notes, Words
      <3>2. [surfaces[i] EXCEPT !.note.words = @ \cup {"quantum-proof"}].note.claim
                = surfaces[i].note.claim
        BY <1>1 DEF Surfaces, Notes
      <3> QED
        BY <2>2, <3>1, <3>2
    <2>3. ASSUME NEW status \in SuiteStatus,
                 surfaces' = [surfaces EXCEPT ![i].status = status]
          PROVE  \E e \in Surfaces : /\ e.note.claim = surfaces[i].note.claim
                                     /\ surfaces' = [surfaces EXCEPT ![i] = e]
      <3>1. [surfaces[i] EXCEPT !.status = status] \in Surfaces
        BY <1>1 DEF Surfaces
      <3>2. [surfaces[i] EXCEPT !.status = status].note = surfaces[i].note
        BY <1>1 DEF Surfaces
      <3> QED
        BY <2>3, <3>1, <3>2
    <2> QED
      BY <2>1, <2>2, <2>3 DEF Edit
  <1>3. /\ surfaces' \in Seq(Surfaces) /\ Len(surfaces') = Len(surfaces)
        /\ \A j \in 1 .. Len(surfaces) : surfaces'[j] = IF j = i THEN e ELSE surfaces[j]
    BY <1>1, <1>2, ExceptSeq
  <1>4. asked' = asked /\ edits' = edits + 1
    BY DEF Edit
  <1>5. Paired' /\ edits' > 0
    BY <1>3, <1>4 DEF SurfaceInv, Paired
  <1>6. RatchetNeverAssumed'
    <2>1. \A j \in DOMAIN surfaces' :
              j \in DOMAIN surfaces /\ surfaces'[j].note.claim = surfaces[j].note.claim
      BY <1>1, <1>2, <1>3
    <2> QED
      BY <1>4, <2>1 DEF SurfaceInv, RatchetNeverAssumed
  <1> QED
    BY <1>5, <1>6 DEF SurfaceInv, SurfacesFollowSeed, Paired

\* Every step keeps the invariant of surfaces.
LEMMA SurfaceStep == SurfaceInv /\ [Next]_vars => SurfaceInv'
  <1> SUFFICES ASSUME SurfaceInv, [Next]_vars PROVE SurfaceInv'
    OBVIOUS
  <1>1. ASSUME UNCHANGED <<surfaces, asked, edits>> PROVE SurfaceInv'
    BY <1>1 DEF SurfaceInv, Paired, SurfacesFollowSeed, RatchetNeverAssumed
  <1>2. CASE \E suite \in Registrable : Register(suite)
    BY <1>1, <1>2 DEF Register
  <1>3. ASSUME NEW suite \in Negotiated, NEW level \in Levels, NEW peer \in Peers,
               DmSurface(suite, level, peer)
        PROVE  SurfaceInv'
    BY <1>3, DmBuilt, BuildStep DEF DmSurface
  <1>4. ASSUME NEW suite \in Negotiated, NEW kind \in Kinds, NEW peer \in Peers,
               ConversationSurface(suite, kind, peer)
        PROVE  SurfaceInv'
    BY <1>4, ConversationBuilt, BuildStep DEF ConversationSurface
  <1>5. CASE MakeReport
    BY <1>1, <1>5 DEF MakeReport
  <1>6. CASE UNCHANGED vars
    BY <1>1, <1>6 DEF vars
  <1> QED
    BY <1>2, <1>3, <1>4, <1>5, <1>6, EditStep DEF Next, Levels, Kinds

\* No surfaces, no request, no edit.
LEMMA SurfaceInit == Init => SurfaceInv
  BY DEF Init, SurfaceInv, Paired, SurfacesFollowSeed, RatchetNeverAssumed

\* The invariant of surfaces holds in every state.
LEMMA SurfaceInvariant == Spec => []SurfaceInv
  BY SurfaceInit, SurfaceStep, PTL DEF Spec

\* Whatever an application registers for itself, a surface that nobody changed
\* goes by the seeded registry, and says "exposed" exactly if that is classical.
THEOREM SurfacesFollowSeedHolds == Spec => []SurfacesFollowSeed
  <1>1. SurfaceInv => SurfacesFollowSeed
    BY DEF SurfaceInv
  <1> QED
    BY <1>1, SurfaceInvariant, PTL

\* A note promises a ratchet only if the level on the wire was exactly that one.
THEOREM RatchetNeverAssumedHolds == Spec => []RatchetNeverAssumed
  <1>1. SurfaceInv => RatchetNeverAssumed
    BY DEF SurfaceInv
  <1> QED
    BY <1>1, SurfaceInvariant, PTL

-----------------------------------------------------------------------------
(* Reports.                                                                *)

\* The places of a sequence that satisfy something are finitely many; none are
\* counted exactly if there are none, and all exactly if all do.
LEMMA CountPlaces ==
    ASSUME NEW n \in Nat, NEW T \in SUBSET (1 .. n)
    PROVE  /\ IsFiniteSet(T) /\ Cardinality(T) \in Nat
           /\ Cardinality(T) > 0 <=> T # {}
           /\ Cardinality(T) = n => T = 1 .. n
           /\ Cardinality(T) <= n
  <1>1. IsFiniteSet(1 .. n) /\ Cardinality(1 .. n) = n
    BY FS_Interval
  <1>2. /\ IsFiniteSet(T) /\ Cardinality(T) <= n
        /\ Cardinality(T) = n => T = 1 .. n
    BY <1>1, FS_Subset
  <1>3. Cardinality(T) \in Nat
    BY <1>2, FS_CardinalityType
  <1>4. Cardinality(T) = 0 <=> T = {}
    BY <1>2, FS_EmptySet
  <1>5. Cardinality(T) > 0 <=> Cardinality(T) # 0
    BY <1>3
  <1> QED
    BY <1>2, <1>3, <1>4, <1>5, Zenon

\* from_surfaces over surfaces that pass goes by the weakest.
LEMMA RollUp ==
    ASSUME NEW v \in Seq(Surfaces), surfaces_pass(v)
    PROVE  /\ honest_claim(v) = "not" <=> {i \in DOMAIN v : v[i].status = "classical"} # {}
           /\ honest_claim(v) = "all" => v # << >>
           /\ resistant(v) + with_status(v, "classical") <= Len(v)
  <1> DEFINE good == {i \in DOMAIN v : v[i].quantum_resistant}
             bad == {i \in DOMAIN v : v[i].status = "classical"}
  <1>1. Len(v) \in Nat /\ DOMAIN v = 1 .. Len(v)
    OBVIOUS
  <1>2. good \cap bad = {}
    BY DEF surfaces_pass, assert_honest
  <1>3. /\ IsFiniteSet(good) /\ Cardinality(good) \in Nat
        /\ Cardinality(good) = Len(v) => good = 1 .. Len(v)
    BY <1>1, CountPlaces
  <1>4. /\ IsFiniteSet(bad) /\ Cardinality(bad) \in Nat
        /\ Cardinality(bad) > 0 <=> bad # {}
    BY <1>1, CountPlaces
  <1>5. Cardinality(good \cup bad) = Cardinality(good) + Cardinality(bad)
    <2>1. Cardinality(good \cap bad) = 0
      BY <1>2, FS_EmptySet, Zenon
    <2>2. Cardinality(good \cup bad)
              = Cardinality(good) + Cardinality(bad) - Cardinality(good \cap bad)
      BY <1>3, <1>4, FS_Union, Zenon
    <2> QED
      BY <1>3, <1>4, <2>1, <2>2
  <1>6. Cardinality(good \cup bad) <= Len(v)
    BY <1>1, CountPlaces
  <1>7. resistant(v) = Cardinality(good) /\ with_status(v, "classical") = Cardinality(bad)
    BY DEF resistant, with_status
  <1>8. honest_claim(v) = "not" <=> bad # {}
    BY <1>1, <1>2, <1>3, <1>4, <1>7 DEF honest_claim
  <1>9. honest_claim(v) = "all" => v # << >>
    BY <1>1 DEF honest_claim
  <1> QED
    BY <1>5, <1>6, <1>7, <1>8, <1>9

ReportInv == ReportHonest /\ ClaimOfWeakest

\* A new report is made of surfaces that pass.
LEMMA NewReport ==
    ASSUME Paired, MakeReport, surfaces_pass(surfaces)
    PROVE  ReportInv'
  <1>1. /\ report'.surfaces = surfaces
        /\ report'.honest_claim = honest_claim(surfaces)
        /\ report'.summary.quantum_resistant = resistant(surfaces)
        /\ report'.summary.classical = with_status(surfaces, "classical")
        /\ report'.summary.total_surfaces = Len(surfaces)
    BY DEF MakeReport, from_surfaces
  <1>2. ReportHonest'
    <2>1. \A i \in DOMAIN surfaces : assert_honest(surfaces[i])
      BY DEF surfaces_pass
    <2>2. \A w \in {"quantum-proof", "quantum-safe", "Quantum-Safe", "unbreakable"} :
              to_ascii_lowercase(w) \in FORBIDDEN_WORDS
      BY DEF to_ascii_lowercase, FORBIDDEN_WORDS
    <2> QED
      BY <1>1, <2>1, <2>2 DEF ReportHonest, assert_honest, is_honest_note
  <1>3. /\ honest_claim(surfaces) = "not"
               <=> {i \in DOMAIN surfaces : surfaces[i].status = "classical"} # {}
        /\ honest_claim(surfaces) = "all" => surfaces # << >>
        /\ resistant(surfaces) + with_status(surfaces, "classical") <= Len(surfaces)
    BY RollUp DEF Paired
  <1>4. ClaimOfWeakest'
    BY <1>1, <1>3 DEF ClaimOfWeakest
  <1> QED
    BY <1>2, <1>4 DEF ReportInv

\* Every step keeps the invariant of reports.
LEMMA ReportStep == SurfaceInv /\ ReportInv /\ [Next]_vars => ReportInv'
  <1> SUFFICES ASSUME SurfaceInv, ReportInv, [Next]_vars PROVE ReportInv'
    OBVIOUS
  <1>1. ASSUME UNCHANGED report PROVE ReportInv'
    BY <1>1 DEF ReportInv, ReportHonest, ClaimOfWeakest
  <1>2. CASE MakeReport
    BY <1>1, <1>2, NewReport DEF SurfaceInv, MakeReport
  <1>3. CASE ~ MakeReport
    BY <1>1, <1>3 DEF Next, Register, DmSurface, ConversationSurface, Build, Edit, vars
  <1> QED
    BY <1>2, <1>3

\* The invariants of surfaces and reports hold in every state.
LEMMA ReportInvariant == Spec => [](SurfaceInv /\ ReportInv)
  <1>1. Init => ReportInv
    BY DEF Init, ReportInv, ReportHonest, ClaimOfWeakest
  <1> QED
    BY <1>1, SurfaceInit, SurfaceStep, ReportStep, PTL DEF Spec

\* No report marks a classical surface quantum-resistant or has a forbidden word,
\* in lower case or with capitals, however many fields were changed before the roll-up.
THEOREM ReportHonestHolds == Spec => []ReportHonest
  <1>1. ReportInv => ReportHonest
    BY DEF ReportInv
  <1> QED
    BY <1>1, ReportInvariant, PTL

\* A report of any length goes by its weakest surface: it says NOT exactly if
\* there is a classical one, and counts no surface on both sides.
THEOREM ClaimOfWeakestHolds == Spec => []ClaimOfWeakest
  <1>1. ReportInv => ClaimOfWeakest
    BY DEF ReportInv
  <1> QED
    BY <1>1, ReportInvariant, PTL

-----------------------------------------------------------------------------
(* Registrations.                                                          *)

\* The registration at place i is the last one of an id.
IsLatest(i, id) ==
    /\ i \in DOMAIN log /\ log[i].suite_id = id
    /\ \A j \in DOMAIN log : log[j].suite_id = id => j <= i

\* The row of an id is the one that the Registry began with, if any.
AsBegan(id) ==
    /\ id \in DOMAIN registry <=> id \in DOMAIN began
    /\ id \in DOMAIN registry => registry[id] = began[id]

\* An id has the row of its last registration, or was never registered and has
\* the row it began with.
RowOf(id) ==
    \/ \E i \in DOMAIN log : IsLatest(i, id) /\ id \in DOMAIN registry /\ registry[id] = log[i]
    \/ /\ \A i \in DOMAIN log : log[i].suite_id # id
       /\ AsBegan(id)

RegistryInv == log \in Seq(CryptoSuites) /\ \A id \in Nat : RowOf(id)

\* A registration replaces the row of its id and leaves every other row alone.
LEMMA RegisterStep ==
    ASSUME RegistryInv, NEW suite \in Registrable, Register(suite)
    PROVE  RegistryInv'
  <1>1. suite \in CryptoSuites /\ log \in Seq(CryptoSuites)
    BY ReportAssumption DEF RegistryInv
  <1>2. /\ registry' = [id \in DOMAIN registry \cup {suite.suite_id} |->
                           IF id = suite.suite_id THEN suite ELSE registry[id]]
        /\ log' = Append(log, suite)
        /\ began' = began
    BY DEF Register, register
  <1>3. /\ log' \in Seq(CryptoSuites) /\ DOMAIN log' = 1 .. Len(log) + 1
        /\ DOMAIN log = 1 .. Len(log) /\ Len(log) \in Nat
        /\ \A i \in DOMAIN log : log'[i] = log[i]
        /\ log'[Len(log) + 1] = suite
    BY <1>1, <1>2
  <1>4. ASSUME NEW id \in Nat, id = suite.suite_id PROVE RowOf(id)'
    <2>k. PICK k \in Nat : k = Len(log) + 1
      BY <1>3
    <2>1. IsLatest(k, id)'
      BY <1>3, <1>4, <2>k DEF IsLatest
    <2>2. id \in DOMAIN registry' /\ registry'[id] = log'[k]
      BY <1>2, <1>3, <1>4, <2>k
    <2> QED
      BY <2>1, <2>2 DEF RowOf, IsLatest
  <1>5. ASSUME NEW id \in Nat, id # suite.suite_id PROVE RowOf(id)'
    <2>1. /\ id \in DOMAIN registry' <=> id \in DOMAIN registry
          /\ id \in DOMAIN registry => registry'[id] = registry[id]
      BY <1>2, <1>5
    <2>2. \A i \in DOMAIN log' : i \in DOMAIN log \/ log'[i].suite_id # id
      BY <1>3, <1>5
    <2>3. CASE \E i \in DOMAIN log : IsLatest(i, id) /\ id \in DOMAIN registry
                                     /\ registry[id] = log[i]
      <3>1. PICK i \in DOMAIN log : IsLatest(i, id) /\ id \in DOMAIN registry
                                    /\ registry[id] = log[i]
        BY <2>3
      <3>2. i \in DOMAIN log' /\ log'[i] = log[i]
        BY <1>3
      <3>3. IsLatest(i, id)'
        BY <1>3, <2>2, <3>1, <3>2 DEF IsLatest
      <3> QED
        BY <2>1, <3>1, <3>2, <3>3 DEF RowOf
    <2>4. CASE /\ \A i \in DOMAIN log : log[i].suite_id # id
               /\ AsBegan(id)
      <3>1. AsBegan(id)'
        BY <1>2, <2>1, <2>4 DEF AsBegan
      <3>2. \A i \in DOMAIN log' : log'[i].suite_id # id
        BY <1>3, <2>2, <2>4
      <3> QED
        BY <2>4, <3>1, <3>2 DEF RowOf
    <2> QED
      BY <2>3, <2>4 DEF RegistryInv, RowOf
  <1> QED
    BY <1>3, <1>4, <1>5 DEF RegistryInv

\* The row a lookup finds is the last one registered for the id, for any number
\* of registrations; an id never registered keeps the row the Registry began with,
\* and one that has none is classical and not quantum-resistant.
THEOREM LastRegistrationCountsHolds == Spec => []LastRegistrationCounts
  <1>1. Init => RegistryInv
    BY DEF Init, RegistryInv, RowOf, AsBegan
  <1>2. RegistryInv /\ [Next]_vars => RegistryInv'
    <2> SUFFICES ASSUME RegistryInv, [Next]_vars PROVE RegistryInv'
      OBVIOUS
    <2>1. CASE UNCHANGED <<began, registry, log>>
      BY <2>1 DEF RegistryInv, RowOf, IsLatest, AsBegan
    <2> QED
      BY <2>1, RegisterStep DEF Next, DmSurface, ConversationSurface, Build, Edit, MakeReport,
                                vars
  <1>3. RegistryInv => LastRegistrationCounts
    <2> SUFFICES ASSUME RegistryInv,
                        NEW id \in Negotiated \cup {log[i].suite_id : i \in DOMAIN log}
        PROVE  LET mine == {i \in DOMAIN log : log[i].suite_id = id}
                   latest == log[CHOOSE i \in mine : \A j \in mine : j <= i]
               IN  IF mine # {}
                   THEN /\ suite_status(registry, id) = latest.status
                        /\ registry_is_quantum_resistant(registry, id)
                               <=> is_quantum_resistant(latest.status)
                   ELSE IF id \in DOMAIN began
                   THEN /\ suite_status(registry, id) = began[id].status
                        /\ registry_is_quantum_resistant(registry, id)
                               <=> is_quantum_resistant(began[id].status)
                   ELSE /\ suite_status(registry, id) = "classical"
                        /\ ~ registry_is_quantum_resistant(registry, id)
      BY DEF LastRegistrationCounts
    <2> DEFINE mine == {i \in DOMAIN log : log[i].suite_id = id}
    <2>1. id \in Nat /\ DOMAIN log \subseteq Nat
      <3>1. log \in Seq(CryptoSuites) /\ \A x \in CryptoSuites : x.suite_id \in Nat
        BY DEF RegistryInv, CryptoSuites
      <3>2. \A i \in DOMAIN log : i \in Nat /\ log[i] \in CryptoSuites
        BY <3>1
      <3> QED
        BY <3>1, <3>2, ReportAssumption
    <2>2. RowOf(id)
      BY <2>1 DEF RegistryInv
    <2>3. CASE mine = {}
      <3>1. AsBegan(id)
        BY <2>2, <2>3 DEF RowOf, IsLatest
      <3> QED
        BY <2>3, <3>1 DEF AsBegan, suite_status, registry_is_quantum_resistant
    <2>4. CASE mine # {}
      <3>1. PICK k \in DOMAIN log : IsLatest(k, id) /\ id \in DOMAIN registry
                                    /\ registry[id] = log[k]
        BY <2>2, <2>4 DEF RowOf
      <3>2. k \in mine /\ \A j \in mine : j <= k
        BY <3>1 DEF IsLatest
      <3>3. \A i \in mine : (\A j \in mine : j <= i) => i = k
        BY <2>1, <3>2
      <3>4. (CHOOSE i \in mine : \A j \in mine : j <= i) = k
        BY <3>2, <3>3
      <3> QED
        BY <2>4, <3>1, <3>4 DEF suite_status, registry_is_quantum_resistant
    <2> QED
      BY <2>3, <2>4
  <1> QED
    BY <1>1, <1>2, <1>3, PTL DEF Spec

-----------------------------------------------------------------------------
(* Listings.                                                               *)

\* Different statuses have different ranks.
LEMMA StatusRanks ==
    \A s, t \in SuiteStatus : /\ StatusRank(s) \in Nat
                              /\ StatusRank(s) = StatusRank(t) => s = t
  BY DEF StatusRank, SuiteStatus

\* Triples of numbers, one after the other.
Lexical(p, r, i, q, s, j) == p < q \/ (p = q /\ (r < s \/ (r = s /\ i <= j)))

\* The place of a row.
IsPlace(a, p, r, i) ==
    /\ p = (IF a.active THEN 0 ELSE 1) /\ r = StatusRank(a.status) /\ i = a.suite_id
    /\ p \in Nat /\ r \in Nat /\ i \in Nat

LEMMA PlaceOf ==
    ASSUME NEW a \in CryptoSuites
    PROVE  \E p, r, i \in Nat : IsPlace(a, p, r, i)
  <1>1. a.status \in SuiteStatus /\ a.suite_id \in Nat
    BY DEF CryptoSuites
  <1>2. StatusRank(a.status) \in Nat
    BY <1>1, StatusRanks
  <1>3. (IF a.active THEN 0 ELSE 1) \in Nat
    OBVIOUS
  <1>4. IsPlace(a, IF a.active THEN 0 ELSE 1, StatusRank(a.status), a.suite_id)
    BY <1>1, <1>2, <1>3 DEF IsPlace
  <1> QED
    BY <1>1, <1>2, <1>3, <1>4

\* Before compares places.
LEMMA BeforeIsLexical ==
    ASSUME NEW a \in CryptoSuites, NEW b \in CryptoSuites,
           NEW p \in Nat, NEW r \in Nat, NEW i \in Nat,
           NEW q \in Nat, NEW s \in Nat, NEW j \in Nat,
           IsPlace(a, p, r, i), IsPlace(b, q, s, j)
    PROVE  Before(a, b) <=> Lexical(p, r, i, q, s, j)
  <1>1. /\ a.active \in BOOLEAN /\ b.active \in BOOLEAN
        /\ a.status \in SuiteStatus /\ b.status \in SuiteStatus
    BY DEF CryptoSuites
  <1>2. a.status = b.status <=> r = s
    BY <1>1, StatusRanks DEF IsPlace
  <1>3. /\ (a.active /\ ~ b.active) <=> p < q
        /\ (a.active = b.active) <=> p = q
    <2>1. (a.active = TRUE /\ p = 0) \/ (a.active = FALSE /\ p = 1)
      BY <1>1 DEF IsPlace
    <2>2. (b.active = TRUE /\ q = 0) \/ (b.active = FALSE /\ q = 1)
      BY <1>1 DEF IsPlace
    <2>3. 0 < 1 /\ ~ (1 < 0) /\ ~ (0 < 0) /\ ~ (1 < 1) /\ 0 # 1
      OBVIOUS
    <2> QED
      BY <2>1, <2>2, <2>3, Zenon
  <1>4. r = StatusRank(a.status) /\ s = StatusRank(b.status) /\ i = a.suite_id /\ j = b.suite_id
    BY DEF IsPlace
  <1> QED
    BY <1>2, <1>3, <1>4 DEF Before, Lexical

\* Rows in which Before is a total order.
IsOrder(rows) ==
    \A a, b, c \in rows :
        /\ Before(a, b) \/ Before(b, a)
        /\ Before(a, b) /\ Before(b, a) => a = b
        /\ Before(a, b) /\ Before(b, c) => Before(a, c)

\* Rows of different ids are in a total order.
LEMMA RowsOrdered ==
    ASSUME NEW rows, rows \subseteq CryptoSuites,
           \A a, b \in rows : a.suite_id = b.suite_id => a = b
    PROVE  IsOrder(rows)
  <1> SUFFICES ASSUME NEW a \in rows, NEW b \in rows, NEW c \in rows
               PROVE  /\ Before(a, b) \/ Before(b, a)
                      /\ Before(a, b) /\ Before(b, a) => a = b
                      /\ Before(a, b) /\ Before(b, c) => Before(a, c)
    BY DEF IsOrder
  <1>1. PICK p \in Nat, r \in Nat, i \in Nat : IsPlace(a, p, r, i)
    BY PlaceOf
  <1>2. PICK q \in Nat, s \in Nat, j \in Nat : IsPlace(b, q, s, j)
    BY PlaceOf
  <1>3. PICK t \in Nat, u \in Nat, k \in Nat : IsPlace(c, t, u, k)
    BY PlaceOf
  <1>4. /\ Before(a, b) <=> Lexical(p, r, i, q, s, j)
        /\ Before(b, a) <=> Lexical(q, s, j, p, r, i)
        /\ Before(b, c) <=> Lexical(q, s, j, t, u, k)
        /\ Before(a, c) <=> Lexical(p, r, i, t, u, k)
    BY <1>1, <1>2, <1>3, BeforeIsLexical
  <1>5. /\ Lexical(p, r, i, q, s, j) \/ Lexical(q, s, j, p, r, i)
        /\ Lexical(p, r, i, q, s, j) /\ Lexical(q, s, j, p, r, i) => i = j
        /\ Lexical(p, r, i, q, s, j) /\ Lexical(q, s, j, t, u, k) => Lexical(p, r, i, t, u, k)
    BY DEF Lexical
  <1>6. i = j => a = b
    BY <1>1, <1>2 DEF IsPlace
  <1> QED
    BY <1>4, <1>5, <1>6

\* A listing of rows: each of them, in order.
IsListing(v, rows, n) ==
    /\ v \in [1 .. n -> rows]
    /\ \A a \in rows : \E i \in 1 .. n : v[i] = a
    /\ \A i, j \in 1 .. n : i <= j => Before(v[i], v[j])

\* A listing with one row behind the others.
LEMMA ListingMore ==
    ASSUME NEW n \in Nat, NEW rows, NEW z \in rows, NEW v, IsListing(v, rows \ {z}, n),
           \A a \in rows : Before(a, z)
    PROVE  \E w : IsListing(w, rows, n + 1) /\ w[n + 1] = z
  <1>1. /\ v \in [1 .. n -> rows \ {z}]
        /\ \A a \in rows \ {z} : \E i \in 1 .. n : v[i] = a
        /\ \A i, j \in 1 .. n : i <= j => Before(v[i], v[j])
    BY DEF IsListing
  <1>w. PICK w : w = [i \in 1 .. n + 1 |-> IF i = n + 1 THEN z ELSE v[i]]
    OBVIOUS
  <1>2. w[n + 1] = z /\ \A i \in 1 .. n : w[i] = v[i]
    BY <1>w
  <1>3. w \in [1 .. n + 1 -> rows]
    BY <1>1, <1>w
  <1>4. \A a \in rows : \E i \in 1 .. n + 1 : w[i] = a
    <2> TAKE a \in rows
    <2>1. CASE a = z
      <3>1. n + 1 \in 1 .. n + 1
        OBVIOUS
      <3> QED
        BY <1>2, <2>1, <3>1
    <2>2. CASE a # z
      <3>1. PICK i \in 1 .. n : v[i] = a
        BY <1>1, <2>2
      <3>2. i \in 1 .. n + 1
        OBVIOUS
      <3> QED
        BY <1>2, <3>1, <3>2
    <2> QED
      BY <2>1, <2>2
  <1>5. ASSUME NEW i \in 1 .. n + 1, NEW j \in 1 .. n + 1, i <= j PROVE Before(w[i], w[j])
    <2>1. CASE j = n + 1
      <3>1. w[i] \in rows
        BY <1>3
      <3> QED
        BY <1>2, <2>1, <3>1
    <2>2. CASE j # n + 1
      <3>1. i \in 1 .. n /\ j \in 1 .. n
        BY <1>5, <2>2
      <3> QED
        BY <1>1, <1>2, <1>5, <3>1
    <2> QED
      BY <2>1, <2>2
  <1>6. IsListing(w, rows, n + 1)
    BY <1>3, <1>4, <1>5 DEF IsListing
  <1> QED
    BY <1>2, <1>6

\* Finitely many rows have a listing.
LEMMA ListingExists ==
    ASSUME NEW rows, IsFiniteSet(rows), IsOrder(rows)
    PROVE  \E v : IsListing(v, rows, Cardinality(rows))
  <1> DEFINE S == {n \in Nat : \A T \in SUBSET rows :
                        IsFiniteSet(T) /\ Cardinality(T) = n => \E v : IsListing(v, T, n)}
  <1>1. 0 \in S
    <2> SUFFICES ASSUME NEW T \in SUBSET rows, IsFiniteSet(T), Cardinality(T) = 0
                 PROVE  \E v : IsListing(v, T, 0)
      OBVIOUS
    <2>1. T = {}
      BY FS_EmptySet
    <2>2. IsListing(<< >>, T, 0)
      BY <2>1 DEF IsListing
    <2> QED
      BY <2>2
  <1>2. ASSUME NEW n \in Nat, n \in S PROVE n + 1 \in S
    <2> SUFFICES ASSUME NEW T \in SUBSET rows, IsFiniteSet(T), Cardinality(T) = n + 1
                 PROVE  \E v : IsListing(v, T, n + 1)
      OBVIOUS
    <2>1. ASSUME NEW x \in T PROVE \E v : IsListing(v, T \ {x}, n)
      <3>1. IsFiniteSet(T \ {x}) /\ Cardinality(T \ {x}) = n /\ T \ {x} \in SUBSET rows
        <4>1. IsFiniteSet(T \ {x}) /\ Cardinality(T \ {x}) = Cardinality(T) - 1
          BY <2>1, FS_RemoveElement
        <4> QED
          BY <4>1
      <3> QED
        BY <1>2, <3>1
    <2>2. \E z \in T : \A a \in T : Before(a, z)
      <3>1. PICK x : x \in T
        <4>1. T # {}
          BY FS_EmptySet
        <4> QED
          BY <4>1
      <3>2. PICK v : IsListing(v, T \ {x}, n)
        BY <2>1, <3>1
      <3>3. /\ v \in [1 .. n -> T \ {x}]
            /\ \A a \in T \ {x} : \E i \in 1 .. n : v[i] = a
            /\ \A i, j \in 1 .. n : i <= j => Before(v[i], v[j])
        BY <3>2 DEF IsListing
      <3>4. Before(x, x)
        BY <3>1 DEF IsOrder
      <3>5. CASE n = 0
        <4>1. \A a \in T : a = x
          BY <3>3, <3>5
        <4> QED
          BY <3>1, <3>4, <4>1
      <3>6. CASE n # 0
        <4>y. PICK y : y = v[n]
          OBVIOUS
        <4>1. n \in 1 .. n /\ y \in T
          BY <3>3, <3>6, <4>y
        <4>2. \A a \in T \ {x} : Before(a, y)
          <5> TAKE a \in T \ {x}
          <5>1. PICK i \in 1 .. n : v[i] = a
            BY <3>3
          <5>2. i <= n
            OBVIOUS
          <5> QED
            BY <3>3, <4>1, <4>y, <5>1, <5>2
        <4>3. CASE Before(x, y)
          BY <4>1, <4>2, <4>3
        <4>4. CASE Before(y, x)
          <5>1. \A a \in T : Before(a, x)
            <6> TAKE a \in T
            <6>1. a \in rows /\ y \in rows /\ x \in rows
              BY <3>1, <4>1
            <6> QED
              BY <3>4, <4>2, <4>4, <6>1, Zenon DEF IsOrder
          <5> QED
            BY <3>1, <5>1
        <4> QED
          BY <3>1, <4>1, <4>3, <4>4 DEF IsOrder
      <3> QED
        BY <3>5, <3>6
    <2>3. PICK z \in T : \A a \in T : Before(a, z)
      BY <2>2
    <2>4. PICK v : IsListing(v, T \ {z}, n)
      BY <2>1
    <2> QED
      BY <2>3, <2>4, ListingMore
  <1> HIDE DEF S
  <1>3. Cardinality(rows) \in Nat
    BY FS_CardinalityType
  <1>4. Cardinality(rows) \in S
    BY <1>1, <1>2, <1>3, InductionOnNaturals
  <1> QED
    BY <1>4 DEF S

\* A listing gives each row one place.
LEMMA ListingOnce ==
    ASSUME NEW rows, IsFiniteSet(rows), NEW v, IsListing(v, rows, Cardinality(rows)),
           NEW i \in 1 .. Cardinality(rows), NEW j \in 1 .. Cardinality(rows), v[i] = v[j]
    PROVE  i = j
  <1>n. PICK n \in Nat : n = Cardinality(rows)
    BY FS_CardinalityType
  <1>1. v \in [1 .. n -> rows] /\ \A a \in rows : \E k \in 1 .. n : v[k] = a
    BY <1>n DEF IsListing
  <1>2. v \in Surjection(1 .. n, rows)
    BY <1>1 DEF Surjection
  <1>3. IsFiniteSet(1 .. n) /\ Cardinality(1 .. n) = Cardinality(rows)
    <2>1. IsFiniteSet(1 .. n) /\ Cardinality(1 .. n) = IF 1 > n THEN 0 ELSE n - 1 + 1
      BY FS_Interval
    <2> QED
      BY <1>n, <2>1
  <1>4. v \in Injection(1 .. n, rows)
    BY <1>2, <1>3, FS_SurjSameCardinalityImpliesInj
  <1> QED
    BY <1>n, <1>4 DEF Injection, IsInjective

\* Where two listings differ first, neither row can come before the other.
LEMMA ListingUnique ==
    ASSUME NEW rows, IsFiniteSet(rows), IsOrder(rows),
           NEW v, IsListing(v, rows, Cardinality(rows)),
           NEW w, IsListing(w, rows, Cardinality(rows))
    PROVE  v = w
  <1>n. PICK n \in Nat : n = Cardinality(rows)
    BY FS_CardinalityType
  <1>1. /\ v \in [1 .. n -> rows] /\ \A a \in rows : \E i \in 1 .. n : v[i] = a
        /\ \A i, j \in 1 .. n : i <= j => Before(v[i], v[j])
    BY <1>n DEF IsListing
  <1>2. /\ w \in [1 .. n -> rows] /\ \A a \in rows : \E i \in 1 .. n : w[i] = a
        /\ \A i, j \in 1 .. n : i <= j => Before(w[i], w[j])
    BY <1>n DEF IsListing
  <1>3. \A i, j \in 1 .. n : (v[i] = v[j] => i = j) /\ (w[i] = w[j] => i = j)
    BY <1>n, ListingOnce
  <1> DEFINE T == {i \in 1 .. n : v[i] # w[i]}
  <1>4. T = {}
    <2> SUFFICES ASSUME T # {} PROVE FALSE
      OBVIOUS
    <2>1. T \subseteq Nat
      OBVIOUS
    <2>2. PICK i \in T : \A k \in T : i <= k
      BY <2>1, LeastOfNaturals
    <2>3. i \in 1 .. n /\ v[i] # w[i] /\ v[i] \in rows /\ w[i] \in rows
      BY <1>1, <1>2
    <2>4. \A k \in 1 .. n : k < i => v[k] = w[k]
      BY <2>2, <2>3
    <2>5. PICK j \in 1 .. n : w[j] = v[i]
      BY <1>2, <2>3
    <2>6. PICK k \in 1 .. n : v[k] = w[i]
      BY <1>1, <2>3
    <2>7. i <= j
      <3>1. CASE j < i
        BY <1>3, <2>3, <2>4, <2>5, <3>1
      <3> QED
        BY <2>3, <3>1
    <2>8. i <= k
      <3>1. CASE k < i
        BY <1>3, <2>3, <2>4, <2>6, <3>1
      <3> QED
        BY <2>3, <3>1
    <2>9. Before(w[i], v[i]) /\ Before(v[i], w[i])
      BY <1>1, <1>2, <2>3, <2>5, <2>6, <2>7, <2>8
    <2> QED
      BY <2>3, <2>9 DEF IsOrder
  <1>5. \A i \in 1 .. n : v[i] = w[i]
    BY <1>4
  <1> HIDE DEF T
  <1> QED
    BY <1>1, <1>2, <1>5

\* The rows of a registry are finitely many, each under its own id.
RowsInv ==
    /\ IsFiniteSet(DOMAIN registry)
    /\ \A id \in DOMAIN registry : registry[id] \in CryptoSuites /\ registry[id].suite_id = id

\* The listings of all_suites are the listings of the rows.
LEMMA AllSuitesAreListings ==
    ASSUME NEW reg, NEW rows, rows = {reg[id] : id \in DOMAIN reg}, NEW n \in Nat,
           n = Cardinality(rows), NEW v
    PROVE  v \in all_suites(reg) <=> IsListing(v, rows, n)
  <1>1. v \in all_suites(reg)
        <=> /\ v \in [1 .. n -> rows] /\ {v[i] : i \in DOMAIN v} = rows
            /\ \A i, j \in DOMAIN v : i <= j => Before(v[i], v[j])
    BY Zenon DEF all_suites
  <1>2. ASSUME v \in [1 .. n -> rows]
        PROVE  /\ DOMAIN v = 1 .. n
               /\ {v[i] : i \in DOMAIN v} = rows <=> \A a \in rows : \E i \in 1 .. n : v[i] = a
    BY <1>2
  <1> QED
    BY <1>1, <1>2, Zenon DEF IsListing

\* There is exactly one listing.
LEMMA OneListing ==
    ASSUME RowsInv
    PROVE  /\ \E v : all_suites(registry) = {v}
           /\ \A v \in all_suites(registry) : \E rows : \E n \in Nat : IsListing(v, rows, n)
  <1>r. PICK rows : rows = {registry[id] : id \in DOMAIN registry}
    OBVIOUS
  <1>1. IsFiniteSet(rows)
    <2>1. IsFiniteSet(DOMAIN registry)
      BY DEF RowsInv
    <2>f. PICK f : f = [id \in DOMAIN registry |-> registry[id]]
      OBVIOUS
    <2>2. f \in Surjection(DOMAIN registry, rows)
      BY <1>r, <2>f DEF Surjection
    <2> QED
      BY <2>1, <2>2, FS_Surjection
  <1>2. IsOrder(rows)
    <2>1. rows \subseteq CryptoSuites
      BY <1>r DEF RowsInv
    <2>2. \A a, b \in rows : a.suite_id = b.suite_id => a = b
      BY <1>r DEF RowsInv
    <2> QED
      BY <2>1, <2>2, RowsOrdered
  <1>n. PICK n \in Nat : n = Cardinality(rows)
    BY <1>1, FS_CardinalityType
  <1>3. \A v : v \in all_suites(registry) <=> IsListing(v, rows, n)
    BY <1>r, <1>n, AllSuitesAreListings
  <1>4. PICK v : IsListing(v, rows, n)
    BY <1>1, <1>2, <1>n, ListingExists
  <1>5. \A w : IsListing(w, rows, n) => w = v
    BY <1>1, <1>2, <1>4, <1>n, ListingUnique
  <1>6. all_suites(registry) = {v}
    BY <1>3, <1>4, <1>5
  <1> QED
    BY <1>3, <1>6

\* The function by which active_of is defined.
IsKept(f, v, n) ==
    f = [i \in 0 .. n |-> IF i = 0 THEN << >>
                          ELSE IF v[i].active THEN Append(f[i - 1], v[i]) ELSE f[i - 1]]

\* There is one.
LEMMA KeptExists ==
    ASSUME NEW v, NEW n \in Nat
    PROVE  \E f : IsKept(f, v, n)
  <1> DEFINE S == {m \in Nat : \E f : IsKept(f, v, m)}
  <1>1. 0 \in S
    <2>1. IsKept([i \in 0 .. 0 |-> << >>], v, 0)
      BY DEF IsKept
    <2> QED
      BY <2>1
  <1>2. ASSUME NEW m \in Nat, m \in S PROVE m + 1 \in S
    <2>1. PICK f : IsKept(f, v, m)
      BY <1>2
    <2>2. f = [i \in 0 .. m |-> IF i = 0 THEN << >>
                                ELSE IF v[i].active THEN Append(f[i - 1], v[i]) ELSE f[i - 1]]
      BY <2>1 DEF IsKept
    <2>x. PICK x : x = IF v[m + 1].active THEN Append(f[m], v[m + 1]) ELSE f[m]
      OBVIOUS
    <2>g. PICK g : g = [i \in 0 .. m + 1 |-> IF i = m + 1 THEN x ELSE f[i]]
      OBVIOUS
    <2>3. ASSUME NEW i \in 0 .. m + 1
          PROVE  g[i] = IF i = 0 THEN << >>
                        ELSE IF v[i].active THEN Append(g[i - 1], v[i]) ELSE g[i - 1]
      <3>1. CASE i = m + 1
        <4>1. i # 0 /\ i - 1 = m /\ m \in 0 .. m + 1 /\ m # m + 1
          BY <3>1
        <4>2. g[m] = f[m] /\ g[i] = x
          BY <2>g, <3>1, <4>1
        <4> QED
          BY <2>x, <3>1, <4>1, <4>2
      <3>2. CASE i # m + 1
        <4>1. i \in 0 .. m
          BY <3>2
        <4>2. g[i] = f[i]
          BY <2>g, <3>2
        <4>3. i # 0 => i - 1 \in 0 .. m + 1 /\ i - 1 # m + 1
          BY <4>1
        <4>4. i # 0 => g[i - 1] = f[i - 1]
          BY <2>g, <4>3
        <4>5. f[i] = IF i = 0 THEN << >>
                     ELSE IF v[i].active THEN Append(f[i - 1], v[i]) ELSE f[i - 1]
          BY <2>2, <4>1
        <4> QED
          BY <4>2, <4>4, <4>5
      <3> QED
        BY <3>1, <3>2
    <2>4. g = [i \in 0 .. m + 1 |-> g[i]]
      BY <2>g
    <2>5. IsKept(g, v, m + 1)
      BY <2>3, <2>4 DEF IsKept
    <2> QED
      BY <2>5
  <1> HIDE DEF S
  <1>3. n \in S
    BY <1>1, <1>2, InductionOnNaturals
  <1> QED
    BY <1>3 DEF S

\* Active rows come first, so those that are kept are a beginning of the listing.
LEMMA ActiveFirst ==
    ASSUME NEW rows, NEW n \in Nat, NEW v, IsListing(v, rows, n)
    PROVE  active_of(v) = SubSeq(v, 1, Len(active_of(v)))
  <1>1. v \in [1 .. n -> rows] /\ \A i, j \in 1 .. n : i <= j => Before(v[i], v[j])
    BY DEF IsListing
  <1>2. v \in Seq(rows) /\ Len(v) = n
    BY <1>1
  <1> DEFINE kept == CHOOSE f : IsKept(f, v, n)
  <1>3. IsKept(kept, v, n)
    BY KeptExists
  <1>f. PICK f : f = kept
    OBVIOUS
  <1>4. f = [i \in 0 .. n |-> IF i = 0 THEN << >>
                              ELSE IF v[i].active THEN Append(f[i - 1], v[i]) ELSE f[i - 1]]
    <2>1. IsKept(f, v, n)
      BY <1>3, <1>f, Zenon
    <2> HIDE DEF kept
    <2> QED
      BY <2>1, Zenon DEF IsKept
  <1>5. active_of(v) = f[n]
    BY <1>2, <1>f DEF active_of, IsKept
  <1> DEFINE Beginning(i) ==
                 \E k \in Nat : /\ k <= i /\ f[i] = SubSeq(v, 1, k)
                                /\ k < i => \E j \in 1 .. n : j <= i /\ ~ v[j].active
             S == {i \in Nat : i <= n => Beginning(i)}
  <1>6. 0 \in S
    <2>1. f[0] = << >>
      BY <1>4
    <2>2. SubSeq(v, 1, 0) = << >>
      BY SubSeqEmpty
    <2>3. 0 \in Nat /\ 0 <= 0 /\ ~ (0 < 0)
      OBVIOUS
    <2>4. Beginning(0)
      BY <2>1, <2>2, <2>3
    <2> QED
      BY <2>4
  <1>7. ASSUME NEW i \in Nat, i \in S PROVE i + 1 \in S
    <2> SUFFICES ASSUME i + 1 <= n PROVE Beginning(i + 1)
      OBVIOUS
    <2>1. PICK k \in Nat : /\ k <= i /\ f[i] = SubSeq(v, 1, k)
                           /\ k < i => \E j \in 1 .. n : j <= i /\ ~ v[j].active
      BY <1>7
    <2>2. f[i + 1] = IF v[i + 1].active THEN Append(f[i], v[i + 1]) ELSE f[i]
      <3>1. i + 1 \in 0 .. n /\ i + 1 # 0 /\ (i + 1) - 1 = i
        OBVIOUS
      <3> QED
        BY <1>4, <3>1
    <2>3. CASE v[i + 1].active
      <3>1. k = i
        <4> SUFFICES ASSUME k < i PROVE FALSE
          BY <2>1
        <4>1. PICK j \in 1 .. n : j <= i /\ ~ v[j].active
          BY <2>1
        <4>2. i + 1 \in 1 .. n /\ j <= i + 1
          BY <4>1
        <4>3. Before(v[j], v[i + 1])
          BY <1>1, <4>2
        <4> QED
          BY <2>3, <4>1, <4>3, Zenon DEF Before
      <3>2. f[i + 1] = SubSeq(v, 1, i + 1)
        <4>1. i + 1 \in 1 .. Len(v) /\ (i + 1) - 1 = i /\ 1 \in 1 .. Len(v) /\ i + 1 \in 1 .. Len(v)
          BY <1>2
        <4>2. SubSeq(v, 1, i + 1) = SubSeq(v, 1, i) \o <<v[i + 1]>>
          BY <1>2, <4>1, SubSeqRecursiveSecond
        <4>3. SubSeq(v, 1, i) \in Seq(rows) /\ v[i + 1] \in rows
          BY <1>1, <1>2
        <4>4. Append(SubSeq(v, 1, i), v[i + 1]) = SubSeq(v, 1, i) \o <<v[i + 1]>>
          BY <4>3, AppendIsConcat
        <4> QED
          BY <2>1, <2>2, <2>3, <3>1, <4>2, <4>4
      <3>3. i + 1 \in Nat /\ i + 1 <= i + 1 /\ ~ (i + 1 < i + 1)
        OBVIOUS
      <3> QED
        BY <3>2, <3>3
    <2>4. CASE ~ v[i + 1].active
      <3>1. i + 1 \in 1 .. n /\ k <= i + 1 /\ i + 1 <= i + 1
        BY <2>1
      <3> QED
        BY <2>1, <2>2, <2>4, <3>1
    <2> QED
      BY <2>3, <2>4
  <1> HIDE DEF S
  <1>8. n \in S
    BY <1>6, <1>7, InductionOnNaturals
  <1>9. PICK k \in Nat : k <= n /\ f[n] = SubSeq(v, 1, k)
    BY <1>8 DEF S
  <1>10. Len(SubSeq(v, 1, k)) = k
    BY <1>2, <1>9
  <1> QED
    BY <1>5, <1>9, <1>10

\* A registry with any registrations has one listing, whatever order its map
\* gives the rows in, and active_suites is a beginning of it.
THEOREM ListingsDeterminedHolds == Spec => []ListingsDetermined
  <1>1. Init => RowsInv
    <2> SUFFICES ASSUME Init PROVE RowsInv
      OBVIOUS
    <2>1. CASE registry = empty
      BY <2>1, FS_EmptySet DEF RowsInv, empty
    <2>2. CASE registry = seeded
      <3>1. DOMAIN seeded = {AesGcm, Hybrid, PgpWrap}
        BY Seeded
      <3>2. IsFiniteSet({AesGcm, Hybrid, PgpWrap})
        <4>1. IsFiniteSet({AesGcm})
          BY FS_Singleton
        <4>2. IsFiniteSet({AesGcm} \cup {Hybrid})
          BY <4>1, FS_AddElement
        <4>3. IsFiniteSet(({AesGcm} \cup {Hybrid}) \cup {PgpWrap})
          BY <4>2, FS_AddElement
        <4>4. ({AesGcm} \cup {Hybrid}) \cup {PgpWrap} = {AesGcm, Hybrid, PgpWrap}
          OBVIOUS
        <4> QED
          BY <4>3, <4>4
      <3>3. \A id \in {AesGcm, Hybrid, PgpWrap} :
                seeded[id] \in CryptoSuites /\ seeded[id].suite_id = id
        BY DEF seeded, register, empty, CryptoSuite, CryptoSuites, AesGcm, Hybrid, PgpWrap, NoId,
               SuiteKind, SuiteStatus
      <3> QED
        BY <2>2, <3>1, <3>2, <3>3 DEF RowsInv
    <2> QED
      BY <2>1, <2>2 DEF Init
  <1>2. RowsInv /\ [Next]_vars => RowsInv'
    <2> SUFFICES ASSUME RowsInv, [Next]_vars PROVE RowsInv'
      OBVIOUS
    <2>1. ASSUME NEW suite \in Registrable, Register(suite) PROVE RowsInv'
      <3>1. registry' = [id \in DOMAIN registry \cup {suite.suite_id} |->
                            IF id = suite.suite_id THEN suite ELSE registry[id]]
        BY <2>1 DEF Register, register
      <3>2. IsFiniteSet(DOMAIN registry \cup {suite.suite_id})
        BY FS_AddElement DEF RowsInv
      <3>3. suite \in CryptoSuites
        BY ReportAssumption
      <3> QED
        BY <3>1, <3>2, <3>3 DEF RowsInv
    <2>2. CASE UNCHANGED registry
      BY <2>2 DEF RowsInv
    <2> QED
      BY <2>1, <2>2 DEF Next, DmSurface, ConversationSurface, Build, Edit, MakeReport,
                        vars
  <1>3. RowsInv => ListingsDetermined
    <2> SUFFICES ASSUME RowsInv PROVE ListingsDetermined
      OBVIOUS
    <2>1. PICK v : all_suites(registry) = {v}
      BY OneListing
    <2>2. Cardinality(all_suites(registry)) = 1
      BY <2>1, FS_Singleton
    <2>3. active_suites(registry) = {active_of(v)}
      BY <2>1 DEF active_suites
    <2>4. active_of(v) = SubSeq(v, 1, Len(active_of(v)))
      <3>1. PICK rows, n : n \in Nat /\ IsListing(v, rows, n)
        BY <2>1, OneListing
      <3> QED
        BY <3>1, ActiveFirst
    <2> QED
      BY <2>1, <2>2, <2>3, <2>4 DEF ListingsDetermined
  <1> QED
    BY <1>1, <1>2, <1>3, PTL DEF Spec
=============================================================================
