------------------------------ MODULE JsonText ------------------------------
(***************************************************************************)
(* JSON strings as they are written and read: the escaping that            *)
(* src/src/pqroute.rs does by hand, the one of serde_json that             *)
(* src/src/pqdm.rs relies on, and the reading of both.                     *)
(*                                                                         *)
(* A string is a sequence of code points and a text one of characters,     *)
(* both numbers; a character beyond ASCII stands for its UTF-8 bytes.      *)
(***************************************************************************)
EXTENDS Integers, Sequences, SequencesExt

\* What a string is made of: Unicode without the surrogates.
CodePoints == {c \in Nat : c <= 55295 \/ (57344 <= c /\ c <= 1114111)}

Quote == 34
Backslash == 92

\* Characters with an escape of one letter: b, t, n, f, r, or themselves.
ShortEscapes == {<<8, 98>>, <<9, 116>>, <<10, 110>>, <<12, 102>>, <<13, 114>>,
                 <<Quote, Quote>>, <<Backslash, Backslash>>}
Short == {e[1] : e \in ShortEscapes}
ShortEscape(c) == <<Backslash, (CHOOSE e \in ShortEscapes : e[1] = c)[2]>>

Hex(d) == IF d < 10 THEN 48 + d ELSE 87 + d

\* A 16-bit code unit in four hexadecimal digits.
push_u_escape(u) ==
    <<Backslash, 117, Hex(u \div 4096), Hex((u \div 256) % 16), Hex((u \div 16) % 16),
      Hex(u % 16)>>

\* Mutant: a code point above 16 bits is written like the others.
encode_char_ascii_NoPair(c) ==
    IF c \in Short THEN ShortEscape(c)
    ELSE IF c \in 32 .. 126 THEN <<c>>
    ELSE push_u_escape(c % 65536)

\* Above 16 bits: a pair of surrogates.
encode_char_ascii(c) ==
    IF c \in Short THEN ShortEscape(c)
    ELSE IF c \in 32 .. 126 THEN <<c>>
    ELSE IF c <= 65535 THEN push_u_escape(c)
    ELSE push_u_escape(55296 + (c - 65536) \div 1024)
         \o push_u_escape(56320 + ((c - 65536) % 1024))

encode_string_ascii(s) ==
    <<Quote>> \o FlattenSeq([i \in DOMAIN s |-> encode_char_ascii(s[i])]) \o <<Quote>>

\* serde_json escapes what JSON forbids and leaves all else as it is.
serde_json_char(c) ==
    IF c \in Short THEN ShortEscape(c)
    ELSE IF c < 32 THEN push_u_escape(c)
    ELSE <<c>>

serde_json_string(s) ==
    <<Quote>> \o FlattenSeq([i \in DOMAIN s |-> serde_json_char(s[i])]) \o <<Quote>>

Digit(d) == IF d < 58 THEN d - 48 ELSE d - 87

\* The code unit in the four digits from i on.
Unit(text, i) ==
    4096 * Digit(text[i]) + 256 * Digit(text[i + 1]) + 16 * Digit(text[i + 2]) + Digit(text[i + 3])

\* The code point written from i on, and where the next one is; a pair of
\* surrogates is one code point.
read_char(text, i) ==
    IF text[i] # Backslash THEN [c |-> text[i], next |-> i + 1]
    ELSE IF text[i + 1] # 117
    THEN [c |-> (CHOOSE e \in ShortEscapes : e[2] = text[i + 1])[1], next |-> i + 2]
    ELSE IF 55296 <= Unit(text, i + 2) /\ Unit(text, i + 2) <= 56319
    THEN [c |-> 65536 + (Unit(text, i + 2) - 55296) * 1024 + Unit(text, i + 8) - 56320,
          next |-> i + 12]
    ELSE [c |-> Unit(text, i + 2), next |-> i + 6]

\* What a parser makes of a text between quotes.
parse_string(text) ==
    LET from[i \in 2 .. Len(text) + 11] ==
            IF i >= Len(text) THEN << >>
            ELSE <<read_char(text, i).c>> \o from[read_char(text, i).next]
    IN  from[2]
=============================================================================
