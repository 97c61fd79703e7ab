--------------------------- MODULE PostureReport ---------------------------
(***************************************************************************)
(* The self-report of src/src/report.rs over the registry of Suites: an    *)
(* application registers suites of its own, builds surfaces from the       *)
(* suites its conversations negotiated, may change the public fields of a  *)
(* surface, and rolls surfaces up into a report.                           *)
(*                                                                         *)
(* A note is the claim that its template makes together with the texts     *)
(* from outside that it repeats.  A text that contains a forbidden word is *)
(* represented by that word, as it is spelt; the templates' own wording is *)
(* left out, so nothing is said here of the words that it has.             *)
(***************************************************************************)
EXTENDS Suites

CONSTANTS
    Registrable,   \* rows an application registers
    Negotiated,    \* suite ids that conversations name, known or not
    BoastIds,      \* those whose text contains a forbidden word
    Peers,         \* names of peers
    None,
    MaxRegs,       \* bound: registrations
    MaxSurfaces,   \* bound: surfaces built
    MaxEdits       \* bound: fields changed

ASSUME ReportAssumption ==
    /\ Registrable \subseteq CryptoSuites
    /\ BoastIds \subseteq Negotiated /\ Negotiated \subseteq Nat
    /\ MaxRegs \in Nat /\ MaxSurfaces \in Nat /\ MaxEdits \in Nat

-----------------------------------------------------------------------------
(* Honesty of a note and of a surface.                                     *)

FORBIDDEN_WORDS == {"quantum-proof", "quantum-safe", "unbreakable"}

\* (One spelling stands for all those with capitals.)
to_ascii_lowercase(text) == IF text = "Quantum-Safe" THEN "quantum-safe" ELSE text

\* Mutant: the screen heeds case.
is_honest_note_Cased(note) == note.words \cap FORBIDDEN_WORDS = {}

is_honest_note(note) == \A w \in note.words : to_ascii_lowercase(w) \notin FORBIDDEN_WORDS

\* (assert_honest panics where this is false.)
assert_honest(s) ==
    /\ is_honest_note(s.note)
    /\ s.status = "classical" => ~ s.quantum_resistant

-----------------------------------------------------------------------------
(* Surfaces.                                                               *)

DEFAULT_CONVERSATION_SUITE == PgpWrap

\* Mutant: an unknown level is taken for the better one.
level_from_wire_Upper(text) == IF text = "L2-oneshot" THEN text ELSE "L3-epoch"

level_from_wire(text) == IF text = "L3-epoch" THEN text ELSE "L2-oneshot"

\* Mutant: a suite the registry does not know passes for symmetric.
resolve_suite_Unknown(id) ==
    LET status == IF id \in DOMAIN global THEN global[id].status ELSE "symmetric"
    IN  [status |-> status, quantum_resistant |-> is_quantum_resistant(status)]

\* The row of the global registry; an unknown id is classical.
resolve_suite(id) ==
    [status |-> suite_status(global, id),
     quantum_resistant |-> \E s \in get_suite(global, id) : is_quantum_resistant(s.status)]

\* Before the check: the surface that is to be returned.
surface_from(surface, id, note) ==
    [surface |-> surface, active_suite |-> id, status |-> resolve_suite(id).status,
     quantum_resistant |-> resolve_suite(id).quantum_resistant, note |-> note]

who(peer) == IF peer = "" THEN {} ELSE {peer}

SuiteIn(negotiated) == IF negotiated = NoId THEN DEFAULT_CONVERSATION_SUITE ELSE negotiated

\* What a suite id contributes to the words of a note.
id_text(id) == IF id \in BoastIds THEN "unbreakable" ELSE "id"

\* Mutant: the ratchet decides what the note says.
dm_note_ByLevel(id, level, peer) ==
    IF level = "L3-epoch" THEN [claim |-> "hybrid, ratchet", words |-> who(peer)]
    ELSE IF ~ resolve_suite(id).quantum_resistant
    THEN [claim |-> "exposed", words |-> who(peer) \cup {id_text(id)}]
    ELSE [claim |-> "hybrid, one-shot", words |-> who(peer)]

\* A ratchet over a classical KEM is still exposed, and the note says so.
dm_note(id, level, peer) ==
    IF ~ resolve_suite(id).quantum_resistant
    THEN [claim |-> "exposed", words |-> who(peer) \cup {id_text(id)}]
    ELSE IF level = "L3-epoch" THEN [claim |-> "hybrid, ratchet", words |-> who(peer)]
    ELSE [claim |-> "hybrid, one-shot", words |-> who(peer)]

dm_ratchet_surface_for(negotiated, level, peer) ==
    surface_from("dm", SuiteIn(negotiated), dm_note(SuiteIn(negotiated), level, peer))

conversation_note(id, peer) ==
    [claim |-> IF resolve_suite(id).quantum_resistant THEN "hybrid" ELSE "exposed",
     words |-> who(peer)]

conversation_surface_for(negotiated, kind, peer) ==
    surface_from(kind, SuiteIn(negotiated), conversation_note(SuiteIn(negotiated), peer))

-----------------------------------------------------------------------------
(* The roll-up.                                                            *)

resistant(surfaces) == Cardinality({i \in DOMAIN surfaces : surfaces[i].quantum_resistant})

with_status(surfaces, status) == Cardinality({i \in DOMAIN surfaces : surfaces[i].status = status})

\* Mutant: one good surface is enough.
honest_claim_AnyGood(surfaces) ==
    IF resistant(surfaces) > 0 THEN "all" ELSE IF Len(surfaces) > 0 THEN "not" ELSE "symmetric only"

honest_claim(surfaces) ==
    IF Len(surfaces) > 0 /\ resistant(surfaces) = Len(surfaces) THEN "all"
    ELSE IF with_status(surfaces, "classical") > 0 THEN "not"
    ELSE "symmetric only"

\* Mutant: surfaces are trusted.
surfaces_pass_Unchecked(surfaces) == TRUE

surfaces_pass(surfaces) == \A i \in DOMAIN surfaces : assert_honest(surfaces[i])

from_surfaces(surfaces) ==
    [surfaces |-> surfaces,
     summary |-> [total_surfaces |-> Len(surfaces),
                  quantum_resistant |-> resistant(surfaces),
                  classical |-> with_status(surfaces, "classical"),
                  symmetric |-> with_status(surfaces, "symmetric")],
     honest_claim |-> honest_claim(surfaces)]

-----------------------------------------------------------------------------
VARIABLES
    began,      \* history: the application's own Registry as it was created
    registry,   \* that Registry now
    log,        \* history: the rows registered in it, in order
    surfaces,   \* the surfaces built, as they are now
    edits,      \* fields changed so far
    asked,      \* history: what each surface was built from
    report      \* the last report, None before the first

vars == <<began, registry, log, surfaces, edits, asked, report>>

Init ==
    /\ began \in {empty, seeded} /\ registry = began /\ log = << >>
    /\ surfaces = << >> /\ edits = 0 /\ asked = << >>
    /\ report = None

Register(suite) ==
    /\ Len(log) < MaxRegs
    /\ registry' = register(registry, suite)
    /\ log' = Append(log, suite)
    /\ UNCHANGED <<began, surfaces, edits, asked, report>>

\* A builder returns its surface, or panics on it.
Build(s, from) ==
    /\ surfaces' = IF assert_honest(s) THEN Append(surfaces, s) ELSE surfaces
    /\ asked' = IF assert_honest(s) THEN Append(asked, from) ELSE asked
    /\ UNCHANGED <<began, registry, log, edits, report>>

DmSurface(suite, level, peer) ==
    /\ Len(surfaces) < MaxSurfaces
    /\ Build(dm_ratchet_surface_for(suite, level_from_wire(level), peer),
             [suite |-> suite, level |-> level])

ConversationSurface(suite, kind, peer) ==
    /\ Len(surfaces) < MaxSurfaces
    /\ Build(conversation_surface_for(suite, kind, peer),
             [suite |-> suite, level |-> "none"])

\* The fields of a surface are public.
Edit(i) ==
    /\ edits < MaxEdits
    /\ \/ surfaces' = [surfaces EXCEPT ![i].quantum_resistant = ~ @]
       \/ \E status \in SuiteStatus : surfaces' = [surfaces EXCEPT ![i].status = status]
       \/ surfaces' = [surfaces EXCEPT ![i].note.words = @ \cup {"quantum-proof"}]
    /\ edits' = edits + 1
    /\ UNCHANGED <<began, registry, log, asked, report>>

\* (The roll-up panics, and leaves nothing, where a surface does not pass.)
MakeReport ==
    /\ report' = IF surfaces_pass(surfaces) THEN from_surfaces(surfaces) ELSE report
    /\ UNCHANGED <<began, registry, log, surfaces, edits, asked>>

Next ==
    \/ \E suite \in Registrable : Register(suite)
    \/ \E suite \in Negotiated, level \in {"L2-oneshot", "L3-epoch", "other"}, peer \in Peers :
        DmSurface(suite, level, peer)
    \/ \E suite \in Negotiated, kind \in {"dm", "envelope-payload"}, peer \in Peers :
        ConversationSurface(suite, kind, peer)
    \/ \E i \in DOMAIN surfaces : Edit(i)
    \/ MakeReport

Spec == Init /\ [][Next]_vars

-----------------------------------------------------------------------------
\* "Never mark a classical suite quantum-resistant", "never emit a forbidden
\* word": no report has such a surface, nor the word in lower case or with capitals,
\* though fields may have been changed between a builder's check and the roll-up.
ReportHonest ==
    report # None =>
        \A i \in DOMAIN report.surfaces :
            LET s == report.surfaces[i]
            IN  /\ s.status = "classical" => ~ s.quantum_resistant
                /\ s.note.words \cap {"quantum-proof", "quantum-safe", "Quantum-Safe",
                                      "unbreakable"} = {}

\* The roll-up goes by the weakest surface: a report with a classical surface
\* says NOT, one that says all has none, and no surface is counted on both sides.
ClaimOfWeakest ==
    report # None =>
        LET all == report.surfaces
            classical == {i \in DOMAIN all : all[i].status = "classical"}
        IN  /\ report.honest_claim = "not" <=> classical # {}
            /\ report.honest_claim = "all" => all # << >>
            /\ report.summary.quantum_resistant + report.summary.classical
                   <= report.summary.total_surfaces

\* What an application registers for itself never shows in a surface: the status
\* is the seeded one, an unknown or missing suite is classical, and a surface
\* says "exposed" exactly if its suite is classical, whatever its ratchet.
SurfacesFollowSeed ==
    edits = 0 =>
        \A i \in DOMAIN surfaces :
            LET s == surfaces[i]
                good == asked[i].suite \in {AesGcm, Hybrid}
            IN  /\ s.quantum_resistant <=> good
                /\ s.status = "classical" <=> ~ good
                /\ s.note.claim = "exposed" <=> ~ good

\* A note promises a running ratchet only if the level named on the wire was
\* exactly that one.
RatchetNeverAssumed ==
    \A i \in DOMAIN surfaces :
        surfaces[i].note.claim = "hybrid, ratchet" => asked[i].level = "L3-epoch"

\* The status of an id is that of its last registration, else the one the Registry
\* began with; an id it never had is classical and not quantum-resistant.
LastRegistrationCounts ==
    \A id \in Negotiated \cup {log[i].suite_id : i \in DOMAIN log} :
        LET mine == {i \in DOMAIN log : log[i].suite_id = id}
            latest == log[CHOOSE i \in mine : \A j \in mine : j <= i]
        IN  IF mine # {}
            THEN /\ suite_status(registry, id) = latest.status
                 /\ registry_is_quantum_resistant(registry, id)
                        <=> is_quantum_resistant(latest.status)
            ELSE IF id \in DOMAIN began
            THEN /\ suite_status(registry, id) = began[id].status
                 /\ registry_is_quantum_resistant(registry, id)
                        <=> is_quantum_resistant(began[id].status)
            ELSE /\ suite_status(registry, id) = "classical"
                 /\ ~ registry_is_quantum_resistant(registry, id)

\* Listings do not depend on the order in which a map gives its rows, and the
\* active suites are the first of all suites.
ListingsDetermined ==
    /\ Cardinality(all_suites(registry)) = 1
    /\ \A v \in all_suites(registry), a \in active_suites(registry) :
        a = SubSeq(v, 1, Len(a))
=============================================================================
