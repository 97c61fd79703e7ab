----------------------------- MODULE MCPqRoute -----------------------------
(***************************************************************************)
(* Model-checking instances of PqRoute.                                    *)
(***************************************************************************)
EXTENDS PqRoute, TLC

\* Strings that need an escape of each kind: a, a quote and a backslash, an
\* accented letter and a delete, a character above 16 bits after a line feed.
Plain == <<97>>
Quoted == <<Quote, Backslash>>
Accented == <<233, 127>>
Wide == <<10, 128512>>

\* Names and values are chosen so that their orders differ.
MCHeaders == {1 :> Plain, 1 :> Quoted, (1 :> Wide) @@ (2 :> Accented)}

MCMetas == {1 :> Plain, 2 :> Wide}

MCContents == {<< >>, <<<<"content", 1>>>>}

\* The canonical text of a header, the same members the other way round, and
\* one with characters that are not escaped.
MCForeignRoutes ==
    LET wide == Member(1, encode_string_ascii(Wide))
        accented == Member(2, encode_string_ascii(Accented))
    IN  {<<Begin, wide, accented, End>>, <<Begin, accented, wide, End>>,
         <<Begin, wide, Member(2, serde_json_string(Accented)), End>>}

\* Nothing, no text, a good text, one cut short, lengths beyond the end.
MCForeignInners ==
    {<< >>, <<Length(0)>>, <<Length(2), Begin, End>>, <<Length(1), Begin, End>>,
     <<Length(3), Begin, End>>, <<Length(15), Begin, End>>}

DestSymmetry == Permutations(Dests)
=============================================================================
