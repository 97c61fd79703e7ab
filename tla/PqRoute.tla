------------------------------ MODULE PqRoute ------------------------------
(***************************************************************************)
(* The pqroute1 envelope of src/src/pqroute.rs: applications seal, relays  *)
(* read and rewrite the plaintext header, the transport damages bytes, and *)
(* destinations open whatever reaches them.                                *)
(*                                                                         *)
(* Bytes are scaled down to the units that lengths count here: a length    *)
(* prefix, the opening of a JSON object, each of its members and its end,  *)
(* a KEM ciphertext, a nonce, an AEAD output and a piece of content are    *)
(* one unit each, and so is a unit the transport has garbled.              *)
(* Encapsulations and nonces are fresh, and numbered.                      *)
(***************************************************************************)
EXTENDS HybridKem, JsonText, FiniteSets, SequencesExt

CONSTANTS
    Headers,        \* JSON objects: functions from member names, which are
                    \* numbered in their order, to strings of code points
    Metas,          \* JSON objects
    Contents,       \* message bodies: sequences of units
    Dests,          \* destinations, named by their key pairs
    BadKey,         \* a private key of a wrong length
    ForeignRoutes,  \* header texts that other implementations write
    ForeignInners,  \* inner plaintexts that other implementations seal
    Lengths,        \* what a damaged length prefix may hold
    UsizeMod,       \* 2^w for a usize of w bits, and no less than for a length prefix
    MaxSeals,       \* bound: envelopes sealed
    MaxFaults       \* bound: headers rewritten and units damaged

ASSUME RouteAssumption ==
    /\ BadKey \notin Dests
    /\ Lengths \subseteq Nat /\ UsizeMod \in Nat /\ UsizeMod > 1
    /\ MaxSeals \in Nat /\ MaxFaults \in Nat

-----------------------------------------------------------------------------
(* JSON texts.                                                             *)

Begin == <<"{">>
End == <<"}">>
Member(name, value) == <<"member", name, value>>

\* The names of an object's members, in their order.
SortedNames(obj) ==
    CHOOSE names \in [1 .. Cardinality(DOMAIN obj) -> DOMAIN obj] :
        \A i, j \in DOMAIN names : i < j => names[i] < names[j]

\* Members in the order of their names, nothing between them.
canonical(obj) ==
    LET names == SortedNames(obj)
    IN  <<Begin>>
        \o [i \in DOMAIN names |-> Member(names[i], encode_string_ascii(obj[names[i]]))]
        \o <<End>>

IsJson(text) ==
    /\ Len(text) >= 2 /\ Head(text) = Begin /\ Last(text) = End
    /\ \A i \in 2 .. Len(text) - 1 : text[i][1] = "member"

\* Members may come in any order; the last of several with one name counts.
last_of(members, k) ==
    CHOOSE i \in DOMAIN members :
        /\ members[i][2] = k
        /\ \A j \in DOMAIN members : members[j][2] = k => j <= i

parse_json(text) ==
    LET members == SubSeq(text, 2, Len(text) - 1)
    IN  [k \in {members[i][2] : i \in DOMAIN members} |->
            parse_string(members[last_of(members, k)][3])]

-----------------------------------------------------------------------------
(* The associated data and the keys.                                       *)

\* Mutant: the header is not bound.
build_aad_SuiteOnly(route) == <<"pqroute1">>

build_aad(route) == <<"pqroute1", route>>

derive_wrap_key(shared, aad) == <<shared, aad>>

-----------------------------------------------------------------------------
(* Envelopes.                                                              *)

LEN_PREFIX == 1
SEALED_MIN_LEN == 3
Length(n) == <<"len", n>>

\* Objects have finitely many members, all strings here, and what a program holds in memory has a
\* length that fits a usize, with a length prefix before it.  Other implementations
\* write header texts that are JSON objects, and what a length prefix holds fits a
\* usize, although maybe not with the prefix.
ASSUME TextsAssumption ==
    /\ \A obj \in Headers \cup Metas :
        /\ IsFiniteSet(DOMAIN obj) /\ DOMAIN obj \subseteq Nat
        /\ obj = [k \in DOMAIN obj |-> obj[k]]
        /\ \A k \in DOMAIN obj : obj[k] \in Seq(CodePoints)
        /\ LEN_PREFIX + Len(canonical(obj)) < UsizeMod
    /\ \A text \in Contents \cup ForeignRoutes \cup ForeignInners :
        text \in Seq({text[i] : i \in DOMAIN text})
    /\ \A route \in ForeignRoutes : IsJson(route)
    /\ \A inner \in ForeignInners :
        Len(inner) >= LEN_PREFIX => inner[1][2] \in 0 .. UsizeMod - 1

inner_of(meta, content) == <<Length(Len(canonical(meta)))>> \o canonical(meta) \o content

\* seal_routed from the inner plaintext on.
seal_inner(route, inner, to, n) ==
    LET aad == build_aad(route)
        kem == hybrid_encap(to, n)
        box == <<"box", derive_wrap_key(kem.shared, aad), n, aad, inner>>
    IN  <<Length(Len(route))>> \o route \o <<kem.ct, <<"nonce", n>>, box>>

seal_routed(meta, content, to, hdr, n) ==
    seal_inner(canonical(hdr), inner_of(meta, content), to, n)

\* Where the header ends: a sum that does not fit is an error (checked_add).
header_end(blob) == LEN_PREFIX + blob[1][2]

splits(blob) ==
    /\ Len(blob) >= LEN_PREFIX
    /\ header_end(blob) < UsizeMod
    /\ header_end(blob) <= Len(blob)

route_of(blob) == SubSeq(blob, LEN_PREFIX + 1, header_end(blob))
sealed_of(blob) == SubSeq(blob, header_end(blob) + 1, Len(blob))

read_route_header(blob) == parse_json(route_of(blob))

replace_route_header(blob, hdr) ==
    <<Length(Len(canonical(hdr)))>> \o canonical(hdr) \o sealed_of(blob)

\* The AEAD check of open_routed.
decrypts(blob, priv) ==
    LET sealed == sealed_of(blob)
        aad == build_aad(route_of(blob))
        box == sealed[3]
    IN  /\ Len(sealed) = 3
        /\ box[1] = "box" /\ sealed[2][1] = "nonce"
        /\ box[2] = derive_wrap_key(hybrid_decap(sealed[1], priv), aad)
        /\ box[3] = sealed[2][2]
        /\ box[4] = aad

inner_in(blob) == sealed_of(blob)[3][5]

\* Mutant: an end beyond the plaintext's is moved to it.
meta_end_Clamped(inner) ==
    IF LEN_PREFIX + inner[1][2] > Len(inner) THEN Len(inner) ELSE LEN_PREFIX + inner[1][2]

\* Mutant: the metadata's length is taken for an offset.
meta_end_NoPrefix(inner) == inner[1][2] % UsizeMod

\* LEN_PREFIX + meta_len, which wraps around where it does not fit a usize.
meta_end(inner) == (LEN_PREFIX + inner[1][2]) % UsizeMod

\* The checks of open_routed before and after the AEAD.
well_formed(blob) ==
    /\ splits(blob)
    /\ Len(sealed_of(blob)) >= SEALED_MIN_LEN
    /\ IsJson(route_of(blob))

inner_fits(inner) == Len(inner) >= LEN_PREFIX /\ meta_end(inner) <= Len(inner)

\* How open_routed ends.  A slice that ends before it starts stops the program.
open_routed(blob, priv) ==
    IF ~ well_formed(blob) THEN "Format"
    ELSE IF priv = BadKey \/ ~ decrypts(blob, priv) \/ ~ inner_fits(inner_in(blob)) THEN "Open"
    ELSE IF meta_end(inner_in(blob)) < LEN_PREFIX THEN "panic"
    ELSE IF ~ IsJson(SubSeq(inner_in(blob), LEN_PREFIX + 1, meta_end(inner_in(blob)))) THEN "Open"
    ELSE "Ok"

\* What it returns if it ends well.
opened_routed(blob) ==
    LET inner == inner_in(blob)
    IN  [hdr |-> read_route_header(blob),
         meta |-> parse_json(SubSeq(inner, LEN_PREFIX + 1, meta_end(inner))),
         content |-> SubSeq(inner, meta_end(inner) + 1, Len(inner))]

-----------------------------------------------------------------------------
VARIABLES
    net,      \* the envelopes on their way
    sealed,   \* history: what seal_routed was called with
    foreign,  \* history: what other implementations sealed
    opened,   \* history: what open_routed returned, and for which encapsulation
    faults    \* headers rewritten and units damaged so far

vars == <<net, sealed, foreign, opened, faults>>

Init ==
    /\ net = {} /\ sealed = {} /\ foreign = {} /\ opened = {}
    /\ faults = 0

\* Encapsulations so far, the number of the next one.
Seals == Cardinality(sealed) + Cardinality(foreign)

\* (With a public key of a wrong length the call changes nothing.)
Seal(meta, content, to, hdr) ==
    /\ Seals < MaxSeals
    /\ net' = net \cup {seal_routed(meta, content, to, hdr, Seals)}
    /\ sealed' = sealed \cup {[n |-> Seals, by |-> to, hdr |-> hdr, meta |-> meta,
                               content |-> content]}
    /\ UNCHANGED <<foreign, opened, faults>>

\* Whoever has the public key may seal, in its own way.
ForeignSeal(route, inner, to) ==
    /\ Seals < MaxSeals
    /\ net' = net \cup {seal_inner(route, inner, to, Seals)}
    /\ foreign' = foreign \cup {[n |-> Seals, by |-> to, route |-> route, inner |-> inner]}
    /\ UNCHANGED <<sealed, opened, faults>>

\* A relay reads the header and puts another one in its place.
Rewrite(blob, hdr) ==
    /\ faults < MaxFaults
    /\ splits(blob) /\ IsJson(route_of(blob))
    /\ hdr # read_route_header(blob)
    /\ net' = (net \ {blob}) \cup {replace_route_header(blob, hdr)}
    /\ faults' = faults + 1
    /\ UNCHANGED <<sealed, foreign, opened>>

\* One unit garbled, the header's length changed, the end cut off or added to.
DamagedForms(blob) ==
    {[blob EXCEPT ![1] = Length(k)] : k \in Lengths}
    \cup {[blob EXCEPT ![i] = Noise] : i \in 2 .. Len(blob)}
    \cup {Front(blob), Append(blob, Noise)}

\* (An envelope that was cut to nothing stays so.)
Damage(blob) ==
    /\ faults < MaxFaults
    /\ blob # << >>
    /\ \E b \in DamagedForms(blob) : net' = (net \ {blob}) \cup {b}
    /\ faults' = faults + 1
    /\ UNCHANGED <<sealed, foreign, opened>>

\* A destination opens what reaches it, with its own key or a malformed one.
\* (A call that fails, or stops the program, returns nothing.)
Open(d, blob, priv) ==
    /\ opened' = IF open_routed(blob, priv) = "Ok"
                 THEN opened \cup {[n |-> sealed_of(blob)[1][2], by |-> d,
                                    hdr |-> opened_routed(blob).hdr,
                                    meta |-> opened_routed(blob).meta,
                                    content |-> opened_routed(blob).content]}
                 ELSE opened
    /\ UNCHANGED <<net, sealed, foreign, faults>>

Next ==
    \/ \E meta \in Metas, content \in Contents, to \in Dests, hdr \in Headers :
        Seal(meta, content, to, hdr)
    \/ \E route \in ForeignRoutes, inner \in ForeignInners, to \in Dests :
        ForeignSeal(route, inner, to)
    \/ \E blob \in net, hdr \in Headers : Rewrite(blob, hdr)
    \/ \E blob \in net : Damage(blob)
    \/ \E d \in Dests, blob \in net : \E priv \in {d, BadKey} : Open(d, blob, priv)

Spec == Init /\ [][Next]_vars

-----------------------------------------------------------------------------
\* The metadata and content that an inner plaintext declares: the metadata has the
\* length that stands before it, in full, and the content is all that follows.
Declares(inner, meta, content) ==
    LET end == LEN_PREFIX + inner[1][2]
    IN  /\ end <= Len(inner)
        /\ meta = parse_json(SubSeq(inner, LEN_PREFIX + 1, end))
        /\ content = SubSeq(inner, end + 1, Len(inner))

\* "A relay that rewrites the next-hop field cannot do so silently":
\* header, metadata and content reach the application together, as they were
\* sealed to it, or not at all: whatever relays and transport did to header,
\* lengths and sealed part, however often an envelope was opened.  What another
\* implementation sealed is read as it declares, or not at all, also where the end
\* of the metadata does not fit a usize.
RoutedAsSealed ==
    \A o \in opened :
        /\ \E s \in sealed \cup foreign : s.n = o.n /\ s.by = o.by
        /\ \A s \in sealed : s.n = o.n => o = s
        /\ \A s \in foreign : s.n = o.n => /\ o.hdr = parse_json(s.route)
                                         /\ Declares(s.inner, o.meta, o.content)

\* An envelope nobody touched opens at its destination with what was sealed, and
\* at no other; the relay reads the header that was given.
UntouchedOpens ==
    \A s \in sealed :
        LET blob == seal_routed(s.meta, s.content, s.by, s.hdr, s.n)
        IN  /\ read_route_header(blob) = s.hdr
            /\ \A d \in Dests : (open_routed(blob, d) = "Ok") <=> (d = s.by)
            /\ opened_routed(blob) = [hdr |-> s.hdr, meta |-> s.meta, content |-> s.content]

\* A rewrite touches nothing but the header: put back as it was, the envelope is
\* the one that was sealed, and opens, although text and length changed between;
\* and a relay that writes the header back as it read it changes nothing at all,
\* whatever characters had to be escaped.
RewriteUndone ==
    \A s \in sealed, hdr \in Headers :
        LET blob == seal_routed(s.meta, s.content, s.by, s.hdr, s.n)
            there == replace_route_header(blob, hdr)
        IN  /\ read_route_header(there) = hdr
            /\ replace_route_header(blob, read_route_header(blob)) = blob
            /\ open_routed(replace_route_header(there, s.hdr), s.by) = "Ok"
=============================================================================
