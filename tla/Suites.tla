------------------------------- MODULE Suites -------------------------------
(***************************************************************************)
(* The suite registry of src/src/suites.rs: rows, statuses and lookups.    *)
(*                                                                         *)
(* Suite ids are numbered in the order of their texts, 0 is the empty one. *)
(* A row's lists of primitives and references and its description are left *)
(* out, and so are the wire strings of kinds and statuses.                 *)
(***************************************************************************)
EXTENDS Integers, Sequences, FiniteSets

NoId == 0
AesGcm == 1       \* "aes256-gcm-v1", DEFAULT_AT_REST_SUITE
Hybrid == 2       \* "x25519-mlkem768"
PgpWrap == 3      \* "x25519-pgp-wrap-v1", DEFAULT_KEM_SUITE

SuiteKind == {"kem", "sig", "aead"}
SuiteStatus == {"classical", "hybrid-pq", "pq", "symmetric"}

\* The order of the status strings.
StatusRank(status) ==
    CASE status = "classical" -> 1
      [] status = "hybrid-pq" -> 2
      [] status = "pq" -> 3
      [] status = "symmetric" -> 4

is_quantum_resistant(status) == status \in {"hybrid-pq", "pq", "symmetric"}

CryptoSuites ==
    [suite_id : Nat, kind : SuiteKind, status : SuiteStatus, active : BOOLEAN, replaces : Nat]

CryptoSuite(id, kind, status, active, replaces) ==
    [suite_id |-> id, kind |-> kind, status |-> status, active |-> active,
     replaces |-> replaces]

-----------------------------------------------------------------------------
(* A registry is a function from ids to rows.                              *)

empty == << >>

\* Mutant: the first registration of an id stays.
register_FirstWins(reg, suite) ==
    [id \in DOMAIN reg \cup {suite.suite_id} |-> IF id \in DOMAIN reg THEN reg[id] ELSE suite]

\* The last registration of an id counts.
register(reg, suite) ==
    [id \in DOMAIN reg \cup {suite.suite_id} |-> IF id = suite.suite_id THEN suite ELSE reg[id]]

seeded ==
    register(register(register(empty,
        CryptoSuite(PgpWrap, "kem", "classical", TRUE, NoId)),
        CryptoSuite(AesGcm, "aead", "symmetric", TRUE, NoId)),
        CryptoSuite(Hybrid, "kem", "hybrid-pq", TRUE, PgpWrap))

\* The process-wide registry: seeded on first use, and never written again.
global == seeded

get_suite(reg, id) == IF id \in DOMAIN reg THEN {reg[id]} ELSE {}

suite_status(reg, id) == IF id \in DOMAIN reg THEN reg[id].status ELSE "classical"

\* Mutant: an id that is not there passes.
registry_is_quantum_resistant_Unknown(reg, id) ==
    id \in DOMAIN reg => is_quantum_resistant(reg[id].status)

registry_is_quantum_resistant(reg, id) ==
    id \in DOMAIN reg /\ is_quantum_resistant(reg[id].status)

\* Mutant: rows of one status stay as the map gave them.
Before_NoId(a, b) ==
    \/ a.active /\ ~ b.active
    \/ a.active = b.active /\ StatusRank(a.status) <= StatusRank(b.status)

\* Active rows first, then by status string, then by id.
Before(a, b) ==
    \/ a.active /\ ~ b.active
    \/ /\ a.active = b.active
       /\ \/ StatusRank(a.status) < StatusRank(b.status)
          \/ a.status = b.status /\ a.suite_id <= b.suite_id

\* The rows of a map come in any order and are sorted: the possible results.
all_suites(reg) ==
    LET rows == {reg[id] : id \in DOMAIN reg}
    IN  {v \in [1 .. Cardinality(rows) -> rows] :
            /\ {v[i] : i \in DOMAIN v} = rows
            /\ \A i, j \in DOMAIN v : i <= j => Before(v[i], v[j])}

\* The active rows of a listing, in its order.
active_of(v) ==
    LET kept[i \in 0 .. Len(v)] ==
            IF i = 0 THEN << >>
            ELSE IF v[i].active THEN Append(kept[i - 1], v[i])
            ELSE kept[i - 1]
    IN  kept[Len(v)]

active_suites(reg) == {active_of(v) : v \in all_suites(reg)}
=============================================================================
