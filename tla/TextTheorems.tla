---------------------------- MODULE TextTheorems ----------------------------
(***************************************************************************)
(* Facts for the proof modules.                                            *)
(*                                                                         *)
(* Induction in a form that takes sets and not operators: a set of numbers *)
(* has a least element, so that a claim about all of them can be refuted   *)
(* only at a first place.                                                  *)
(*                                                                         *)
(* JSON strings: what is written is read back, for all strings.            *)
(***************************************************************************)
EXTENDS JsonText, SequenceTheorems, WellFoundedInduction, TLAPS

\* Every set of naturals that is not empty has a least element.
LEMMA LeastOfNaturals ==
    ASSUME NEW T, T \subseteq Nat, T # {}
    PROVE  \E x \in T : \A y \in T : x <= y
  <1>1. PICK R : R = OpToRel(<, Nat)
    OBVIOUS
  <1>2. R = {ss \in Nat \X Nat : ss[1] < ss[2]}
    BY <1>1 DEF OpToRel
  <1>3. IsWellFoundedOn(R, Nat)
    BY <1>1, NatLessThanWellFounded
  <1>4. PICK x \in T : \A y \in T : ~ (<<y, x>> \in R)
    BY <1>3, WFMin
  <1>5. ASSUME NEW y \in T PROVE x <= y
    <2>1. x \in Nat /\ y \in Nat
      OBVIOUS
    <2>2. y < x => <<y, x>> \in R
      BY <1>2, <2>1
    <2> QED
      BY <1>4, <2>1, <2>2
  <1> QED
    BY <1>5

\* A set of naturals with 0 and with the successor of each of its members has
\* them all.
LEMMA InductionOnNaturals ==
    ASSUME NEW S, 0 \in S, \A n \in Nat : n \in S => n + 1 \in S
    PROVE  Nat \subseteq S
  <1> SUFFICES ASSUME Nat \ S # {} PROVE FALSE
    OBVIOUS
  <1>1. PICK x \in Nat \ S : \A y \in Nat \ S : x <= y
    BY LeastOfNaturals
  <1>2. x # 0 /\ x - 1 \in Nat /\ (x - 1) + 1 = x
    OBVIOUS
  <1>3. x - 1 \in S
    BY <1>1, <1>2
  <1> QED
    BY <1>2, <1>3

-----------------------------------------------------------------------------
(* The characters of a JSON string.                                        *)

\* A text in which w stands from i on.
At(text, i, w) == \A p \in 1 .. Len(w) : text[i + p - 1] = w[p]

\* A reader that comes to w reads c, and goes on behind it.
Spells(w, c) ==
    /\ w \in Seq(Nat) /\ Len(w) >= 1 /\ Len(w) <= 12
    /\ \A text : \A i \in Nat :
        At(text, i, w)
        => read_char(text, i) = [c |-> c, next |-> i + Len(w)]

\* A hexadecimal digit.
LEMMA DigitOfHex ==
    ASSUME NEW d \in 0 .. 15
    PROVE  Hex(d) \in Nat /\ Digit(Hex(d)) = d
  BY DEF Hex, Digit

\* A number and its last digit.
LEMMA LastDigit ==
    ASSUME NEW u \in Nat
    PROVE  u \div 16 \in Nat /\ u % 16 \in 0 .. 15 /\ u = 16 * (u \div 16) + (u % 16)
  OBVIOUS

\* Places of a number.
LEMMA Places ==
    ASSUME NEW q \in Nat
    PROVE  /\ \A r \in Nat : r < 256 => (256 * q + r) \div 256 = q
           /\ \A r \in Nat : r < 4096 => (4096 * q + r) \div 4096 = q
  OBVIOUS

\* Sixteen bits are four digits.
IsFourDigits(u, a, b, c, d) ==
    /\ a \in 0 .. 15 /\ b \in 0 .. 15 /\ c \in 0 .. 15 /\ d \in 0 .. 15
    /\ a = u \div 4096 /\ b = (u \div 256) % 16 /\ c = (u \div 16) % 16 /\ d = u % 16
    /\ 4096 * a + 256 * b + 16 * c + d = u

LEMMA FourDigits ==
    ASSUME NEW u \in Nat, u <= 65535
    PROVE  \E a, b, c, d : IsFourDigits(u, a, b, c, d)
  <1>1. PICK x \in Nat, d \in 0 .. 15 : x = u \div 16 /\ d = u % 16 /\ u = 16 * x + d
    BY LastDigit
  <1>2. PICK y \in Nat, c \in 0 .. 15 : y = x \div 16 /\ c = x % 16 /\ x = 16 * y + c
    BY LastDigit
  <1>3. PICK a \in Nat, b \in 0 .. 15 : a = y \div 16 /\ b = y % 16 /\ y = 16 * a + b
    BY LastDigit
  <1>4. u = 256 * y + (16 * c + d) /\ 16 * c + d \in Nat /\ 16 * c + d < 256
    BY <1>1, <1>2
  <1>5. u \div 256 = y
    BY <1>4, Places
  <1>6. u = 4096 * a + (256 * b + 16 * c + d) /\ 256 * b + 16 * c + d \in Nat /\ 256 * b + 16 * c + d < 4096
    BY <1>3, <1>4
  <1>7. u \div 4096 = a
    BY <1>6, Places
  <1>8. a \in 0 .. 15
    BY <1>6
  <1>9. 4096 * a + 256 * b + 16 * c + d = u
    BY <1>6
  <1>10. IsFourDigits(u, a, b, c, d)
    BY <1>1, <1>2, <1>3, <1>5, <1>7, <1>8, <1>9 DEF IsFourDigits
  <1> QED
    BY <1>10

\* An escape w of the code unit u.
Escapes(w, u) ==
    /\ w \in Seq(Nat) /\ Len(w) = 6 /\ w[1] = Backslash /\ w[2] = 117
    /\ \A text : \A i \in Nat : At(text, i, w) =>
            /\ text[i] = Backslash /\ text[i + 1] = 117
            /\ Unit(text, i + 2) = u

LEMMA EscapeParts ==
    ASSUME NEW u \in Nat, u <= 65535
    PROVE  Escapes(push_u_escape(u), u)
  <1>1. PICK a, b, c, d : IsFourDigits(u, a, b, c, d)
    BY FourDigits
  <1>2. /\ a \in 0 .. 15 /\ b \in 0 .. 15 /\ c \in 0 .. 15 /\ d \in 0 .. 15
        /\ 4096 * a + 256 * b + 16 * c + d = u
    BY <1>1 DEF IsFourDigits
  <1>3. PICK ha, hb, hc, hd : ha = Hex(a) /\ hb = Hex(b) /\ hc = Hex(c) /\ hd = Hex(d)
    OBVIOUS
  <1>4. /\ ha \in Nat /\ hb \in Nat /\ hc \in Nat /\ hd \in Nat
        /\ Digit(ha) = a /\ Digit(hb) = b /\ Digit(hc) = c /\ Digit(hd) = d
    BY <1>2, <1>3, DigitOfHex
  <1>w. PICK w : w = push_u_escape(u)
    OBVIOUS
  <1>5. w = <<92, 117, ha, hb, hc, hd>>
    BY <1>1, <1>3, <1>w DEF IsFourDigits, push_u_escape, Backslash
  <1>6. /\ w \in Seq(Nat) /\ Len(w) = 6 /\ w[1] = 92 /\ w[2] = 117
        /\ w[3] = ha /\ w[4] = hb /\ w[5] = hc /\ w[6] = hd
    BY <1>4, <1>5
  <1>7. ASSUME NEW text, NEW i \in Nat, At(text, i, w)
        PROVE  text[i] = 92 /\ text[i + 1] = 117 /\ Unit(text, i + 2) = u
    <2>0. 1 .. Len(w) = 1 .. 6
      BY <1>6
    <2>1. \A p \in 1 .. 6 : text[i + p - 1] = w[p]
      BY <1>7, <2>0 DEF At
    <2>2. PICK j \in Nat : j = i + 2
      OBVIOUS
    <2>3. /\ text[i] = w[1] /\ text[i + 1] = w[2] /\ text[j] = w[3]
          /\ text[j + 1] = w[4] /\ text[j + 2] = w[5] /\ text[j + 3] = w[6]
      <3>1. /\ text[i + 1 - 1] = w[1] /\ text[i + 2 - 1] = w[2]
            /\ text[i + 3 - 1] = w[3] /\ text[i + 4 - 1] = w[4]
            /\ text[i + 5 - 1] = w[5] /\ text[i + 6 - 1] = w[6]
        BY <2>1
      <3>2. /\ i + 1 - 1 = i /\ i + 2 - 1 = i + 1 /\ i + 3 - 1 = j /\ i + 4 - 1 = j + 1
            /\ i + 5 - 1 = j + 2 /\ i + 6 - 1 = j + 3
        BY <2>2
      <3> QED
        BY <3>1, <3>2
    <2>4. /\ text[i] = 92 /\ text[i + 1] = 117 /\ text[j] = ha
          /\ text[j + 1] = hb /\ text[j + 2] = hc /\ text[j + 3] = hd
      BY <1>6, <2>3
    <2>5. Unit(text, j) = 4096 * a + 256 * b + 16 * c + d
      BY <1>4, <2>4 DEF Unit
    <2> QED
      BY <1>2, <2>2, <2>4, <2>5
  <1>8. Escapes(w, u)
    BY <1>6, <1>7 DEF Escapes, Backslash
  <1> QED
    BY <1>w, <1>8

\* The short escapes are in one-to-one correspondence with their characters, and
\* none looks like the beginning of a longer one.
LEMMA ShortPairs ==
    \A e \in ShortEscapes :
        /\ e[1] \in Nat /\ e[2] \in Nat /\ e[2] # 117
        /\ \A f \in ShortEscapes : (f[1] = e[1] \/ f[2] = e[2]) => f = e
  BY DEF ShortEscapes, Quote, Backslash

\* A short escape.
LEMMA ShortSpells ==
    ASSUME NEW c \in Short
    PROVE  Spells(ShortEscape(c), c)
  <1>1. PICK e \in ShortEscapes : e[1] = c
    BY DEF Short
  <1>2. /\ e[2] \in Nat /\ e[2] # 117
        /\ \A f \in ShortEscapes : (f[1] = e[1] \/ f[2] = e[2]) => f = e
    BY ShortPairs
  <1>3. (CHOOSE f \in ShortEscapes : f[1] = c) = e
    BY <1>1, <1>2
  <1>w. PICK w : w = ShortEscape(c)
    OBVIOUS
  <1>4. w = <<92, e[2]>>
    BY <1>3, <1>w DEF ShortEscape, Backslash
  <1>5. w \in Seq(Nat) /\ Len(w) = 2 /\ w[1] = 92 /\ w[2] = e[2]
    BY <1>2, <1>4
  <1>6. ASSUME NEW text, NEW i \in Nat, At(text, i, w)
        PROVE  read_char(text, i) = [c |-> c, next |-> i + Len(w)]
    <2>0. 1 .. Len(w) = 1 .. 2
      BY <1>5
    <2>1. \A p \in 1 .. 2 : text[i + p - 1] = w[p]
      BY <1>6, <2>0 DEF At
    <2>2. text[i] = w[1] /\ text[i + 1] = w[2]
      <3>1. text[i + 1 - 1] = w[1] /\ text[i + 2 - 1] = w[2]
        BY <2>1
      <3>2. i + 1 - 1 = i /\ i + 2 - 1 = i + 1
        OBVIOUS
      <3> QED
        BY <3>1, <3>2
    <2>3. text[i] = 92 /\ text[i + 1] = e[2]
      BY <1>5, <2>2
    <2>4. (CHOOSE f \in ShortEscapes : f[2] = text[i + 1]) = e
      BY <1>2, <2>3
    <2>5. read_char(text, i) = [c |-> e[1], next |-> i + 2]
      BY <1>2, <2>3, <2>4 DEF read_char, Backslash
    <2> QED
      BY <1>1, <1>5, <2>5
  <1>7. Spells(w, c)
    BY <1>5, <1>6 DEF Spells
  <1> QED
    BY <1>w, <1>7

\* A character that stands for itself.
LEMMA PlainSpells ==
    ASSUME NEW c \in Nat, c # 92
    PROVE  Spells(<<c>>, c)
  <1>w. PICK w : w = <<c>>
    OBVIOUS
  <1>1. w \in Seq(Nat) /\ Len(w) = 1 /\ w[1] = c
    BY <1>w
  <1>2. ASSUME NEW text, NEW i \in Nat, At(text, i, w)
        PROVE  read_char(text, i) = [c |-> c, next |-> i + Len(w)]
    <2>0. 1 \in 1 .. Len(w) /\ i + 1 - 1 = i
      BY <1>1
    <2>1. text[i] = c
      BY <1>1, <1>2, <2>0 DEF At
    <2> QED
      BY <1>1, <2>1 DEF read_char, Backslash
  <1>3. Spells(w, c)
    BY <1>1, <1>2 DEF Spells
  <1> QED
    BY <1>w, <1>3

\* A character of sixteen bits, escaped.
LEMMA EscapeSpells ==
    ASSUME NEW c \in Nat, c <= 65535, c < 55296 \/ c > 57343
    PROVE  Spells(push_u_escape(c), c)
  <1>w. PICK w : w = push_u_escape(c)
    OBVIOUS
  <1>1. Escapes(w, c)
    BY <1>w, EscapeParts
  <1>2. w \in Seq(Nat) /\ Len(w) = 6
    BY <1>1 DEF Escapes
  <1>3. ASSUME NEW text, NEW i \in Nat, At(text, i, w)
        PROVE  read_char(text, i) = [c |-> c, next |-> i + Len(w)]
    <2>1. text[i] = Backslash /\ text[i + 1] = 117 /\ Unit(text, i + 2) = c
      BY <1>1, <1>3 DEF Escapes
    <2> QED
      BY <1>2, <2>1 DEF read_char
  <1>4. Spells(w, c)
    BY <1>2, <1>3 DEF Spells
  <1> QED
    BY <1>w, <1>4

\* The two halves of a code point above sixteen bits.
IsPair(c, h, l) ==
    /\ h \in Nat /\ l \in Nat
    /\ 55296 <= h /\ h <= 56319 /\ l <= 65535
    /\ 65536 + (h - 55296) * 1024 + l - 56320 = c

LEMMA SurrogateHalves ==
    ASSUME NEW c \in Nat, 65535 < c, c <= 1114111
    PROVE  IsPair(c, 55296 + (c - 65536) \div 1024, 56320 + ((c - 65536) % 1024))
  <1>1. PICK x \in Nat : x = c - 65536 /\ x <= 1048575
    OBVIOUS
  <1>2. PICK q, r : q = x \div 1024 /\ r = x % 1024
    OBVIOUS
  <1>3. q \in Nat /\ r \in Nat /\ r < 1024 /\ x = 1024 * q + r
    BY <1>2
  <1>4. q <= 1023
    BY <1>1, <1>3
  <1> DEFINE h == 55296 + q
             l == 56320 + r
  <1>5. h \in Nat /\ l \in Nat /\ 55296 <= h /\ h <= 56319 /\ l <= 65535
    BY <1>3, <1>4
  <1>6. 65536 + (h - 55296) * 1024 + l - 56320 = c
    BY <1>1, <1>3
  <1>7. h = 55296 + (c - 65536) \div 1024 /\ l = 56320 + ((c - 65536) % 1024)
    BY <1>1, <1>2
  <1>8. IsPair(c, h, l)
    BY <1>5, <1>6 DEF IsPair
  <1> QED
    BY <1>7, <1>8

\* A pair of surrogates.
LEMMA PairSpells ==
    ASSUME NEW c, NEW h, NEW l, IsPair(c, h, l)
    PROVE  Spells(push_u_escape(h) \o push_u_escape(l), c)
  <1>h. PICK a : a = push_u_escape(h)
    OBVIOUS
  <1>l. PICK b : b = push_u_escape(l)
    OBVIOUS
  <1>1. Escapes(a, h) /\ Escapes(b, l)
    <2>1. h \in Nat /\ h <= 65535 /\ l \in Nat /\ l <= 65535
      BY DEF IsPair
    <2> QED
      BY <1>h, <1>l, <2>1, EscapeParts
  <1>2. a \in Seq(Nat) /\ Len(a) = 6 /\ b \in Seq(Nat) /\ Len(b) = 6
    BY <1>1 DEF Escapes
  <1>w. PICK w : w = a \o b
    OBVIOUS
  <1>3. /\ w \in Seq(Nat) /\ Len(w) = 12
        /\ \A p \in 1 .. 6 : w[p] = a[p] /\ w[6 + p] = b[p]
    <2>1. /\ w \in Seq(Nat) /\ Len(w) = Len(a) + Len(b)
          /\ \A p \in 1 .. Len(a) + Len(b) :
                w[p] = IF p <= Len(a) THEN a[p] ELSE b[p - Len(a)]
      BY <1>2, <1>w, ConcatProperties
    <2>2. \A p \in 1 .. 6 : p \in 1 .. 6 + 6 /\ 6 + p \in 1 .. 6 + 6 /\ p <= 6
                            /\ ~ (6 + p <= 6) /\ (6 + p) - 6 = p
      OBVIOUS
    <2> QED
      BY <1>2, <2>1, <2>2
  <1>4. ASSUME NEW text, NEW i \in Nat, At(text, i, w)
        PROVE  read_char(text, i) = [c |-> c, next |-> i + Len(w)]
    <2>0. 1 .. Len(w) = 1 .. 12 /\ 1 .. Len(a) = 1 .. 6 /\ 1 .. Len(b) = 1 .. 6
      BY <1>2, <1>3
    <2>1. \A p \in 1 .. 12 : text[i + p - 1] = w[p]
      BY <1>4, <2>0 DEF At
    <2>2. At(text, i, a)
      <3>1. \A p \in 1 .. 6 : text[i + p - 1] = a[p]
        <4> TAKE p \in 1 .. 6
        <4>1. p \in 1 .. 12
          OBVIOUS
        <4> QED
          BY <1>3, <2>1, <4>1
      <3> QED
        BY <2>0, <3>1 DEF At
    <2>3. At(text, i + 6, b)
      <3>1. \A p \in 1 .. 6 : text[(i + 6) + p - 1] = b[p]
        <4> TAKE p \in 1 .. 6
        <4>1. 6 + p \in 1 .. 12 /\ i + (6 + p) - 1 = (i + 6) + p - 1
          OBVIOUS
        <4>2. text[i + (6 + p) - 1] = w[6 + p]
          BY <2>1, <4>1
        <4> QED
          BY <1>3, <4>1, <4>2
      <3> QED
        BY <2>0, <3>1 DEF At
    <2>4. text[i] = Backslash /\ text[i + 1] = 117 /\ Unit(text, i + 2) = h
      BY <1>1, <2>2 DEF Escapes
    <2>5. Unit(text, i + 8) = l
      <3>1. PICK j \in Nat : j = i + 6
        OBVIOUS
      <3>2. Unit(text, j + 2) = l
        BY <1>1, <2>3, <3>1 DEF Escapes
      <3>3. j + 2 = i + 8
        BY <3>1
      <3> QED
        BY <3>2, <3>3
    <2>6. read_char(text, i) = [c |-> 65536 + (h - 55296) * 1024 + l - 56320, next |-> i + 12]
      BY <2>4, <2>5 DEF read_char, IsPair
    <2>7. 65536 + (h - 55296) * 1024 + l - 56320 = c
      BY DEF IsPair
    <2> QED
      BY <1>3, <2>6, <2>7
  <1>5. Spells(w, c)
    BY <1>3, <1>4 DEF Spells
  <1> QED
    BY <1>h, <1>l, <1>w, <1>5

\* Backslash has an escape of its own.
LEMMA BackslashIsShort == 92 \in Short
  <1>1. <<92, 92>> \in ShortEscapes
    BY DEF ShortEscapes, Backslash
  <1>2. <<92, 92>>[1] = 92
    OBVIOUS
  <1> QED
    BY <1>1, <1>2 DEF Short

\* What encode_string_ascii writes for a character is read as that character.
LEMMA EncodedSpells ==
    ASSUME NEW c \in CodePoints
    PROVE  Spells(encode_char_ascii(c), c)
  <1>1. c \in Nat /\ (c <= 55295 \/ (57344 <= c /\ c <= 1114111))
    BY DEF CodePoints
  <1>2. CASE c \in Short
    BY <1>2, ShortSpells DEF encode_char_ascii
  <1>3. CASE c \notin Short /\ 32 <= c /\ c <= 126
    <2>1. encode_char_ascii(c) = <<c>>
      BY <1>1, <1>3 DEF encode_char_ascii
    <2> QED
      BY <1>1, <1>3, <2>1, BackslashIsShort, PlainSpells
  <1>4. CASE c \notin Short /\ ~ (32 <= c /\ c <= 126) /\ c <= 65535
    <2>1. encode_char_ascii(c) = push_u_escape(c)
      BY <1>1, <1>4 DEF encode_char_ascii
    <2>2. c < 55296 \/ c > 57343
      BY <1>1
    <2> QED
      BY <1>1, <1>4, <2>1, <2>2, EscapeSpells
  <1>5. CASE c \notin Short /\ c > 65535
    <2>1. PICK h, l : /\ h = 55296 + (c - 65536) \div 1024
                      /\ l = 56320 + ((c - 65536) % 1024) /\ IsPair(c, h, l)
      <3>1. 65535 < c /\ c <= 1114111
        BY <1>1, <1>5
      <3> QED
        BY <1>1, <3>1, SurrogateHalves
    <2>2. ~ (c <= 126) /\ ~ (c <= 65535)
      BY <1>1, <1>5
    <2>3. encode_char_ascii(c) = push_u_escape(h) \o push_u_escape(l)
      BY <1>1, <1>5, <2>1, <2>2 DEF encode_char_ascii
    <2>4. Spells(push_u_escape(h) \o push_u_escape(l), c)
      BY <1>1, <2>1, PairSpells
    <2> QED
      BY <2>3, <2>4
  <1> QED
    BY <1>1, <1>2, <1>3, <1>4, <1>5

\* So is what serde_json writes.
LEMMA SerdeSpells ==
    ASSUME NEW c \in CodePoints
    PROVE  Spells(serde_json_char(c), c)
  <1>1. c \in Nat
    BY DEF CodePoints
  <1>2. CASE c \in Short
    BY <1>2, ShortSpells DEF serde_json_char
  <1>3. CASE c \notin Short /\ c < 32
    <2>1. serde_json_char(c) = push_u_escape(c)
      BY <1>1, <1>3 DEF serde_json_char
    <2>2. c <= 65535 /\ c < 55296
      BY <1>1, <1>3
    <2> QED
      BY <1>1, <2>1, <2>2, EscapeSpells
  <1>4. CASE c \notin Short /\ ~ (c < 32)
    <2>1. serde_json_char(c) = <<c>>
      BY <1>1, <1>4 DEF serde_json_char
    <2> QED
      BY <1>1, <1>4, <2>1, BackslashIsShort, PlainSpells
  <1> QED
    BY <1>2, <1>3, <1>4

-----------------------------------------------------------------------------
(* Words one after the other.                                              *)

\* The function by which FlattenSeq is defined, up to n.
IsFlatten(f, W, n) == f = [i \in 1 .. n |-> IF i = 1 THEN W[i] ELSE f[i - 1] \o W[i]]

\* There is one.
LEMMA FlattenExists ==
    ASSUME NEW W, NEW n \in Nat
    PROVE  \E f : IsFlatten(f, W, n)
  <1> DEFINE S == {m \in Nat : \E f : IsFlatten(f, W, m)}
  <1>1. 0 \in S
    <2>1. IsFlatten([i \in 1 .. 0 |-> 0], W, 0)
      BY DEF IsFlatten
    <2> QED
      BY <2>1
  <1>2. ASSUME NEW m \in Nat, m \in S PROVE m + 1 \in S
    <2>1. PICK f : IsFlatten(f, W, m)
      BY <1>2
    <2>2. f = [i \in 1 .. m |-> IF i = 1 THEN W[i] ELSE f[i - 1] \o W[i]]
      BY <2>1 DEF IsFlatten
    <2> DEFINE next == IF m + 1 = 1 THEN W[m + 1] ELSE f[m] \o W[m + 1]
               g == [i \in 1 .. m + 1 |-> IF i = m + 1 THEN next ELSE f[i]]
    <2>3. ASSUME NEW i \in 1 .. m + 1
          PROVE  g[i] = IF i = 1 THEN W[i] ELSE g[i - 1] \o W[i]
      <3>1. CASE i = m + 1
        <4>1. g[i] = next
          BY <3>1
        <4>2. i # 1 => i - 1 \in 1 .. m + 1 /\ i - 1 # m + 1 /\ i - 1 = m
          BY <3>1
        <4>3. i # 1 => g[i - 1] = f[m]
          BY <4>2
        <4> QED
          BY <3>1, <4>1, <4>3
      <3>2. CASE i # m + 1
        <4>1. i \in 1 .. m
          BY <3>2
        <4>2. g[i] = f[i]
          BY <3>2
        <4>3. i # 1 => i - 1 \in 1 .. m + 1 /\ i - 1 # m + 1
          BY <4>1
        <4>4. i # 1 => g[i - 1] = f[i - 1]
          BY <4>3
        <4>5. f[i] = IF i = 1 THEN W[i] ELSE f[i - 1] \o W[i]
          BY <2>2, <4>1
        <4> QED
          BY <4>2, <4>4, <4>5
      <3> QED
        BY <3>1, <3>2
    <2> HIDE DEF next
    <2>4. g = [i \in 1 .. m + 1 |-> g[i]]
      OBVIOUS
    <2> HIDE DEF g
    <2>5. IsFlatten(g, W, m + 1)
      BY <2>3, <2>4 DEF IsFlatten
    <2> QED
      BY <2>5
  <1> HIDE DEF S
  <1>3. n \in S
    BY <1>1, <1>2, InductionOnNaturals
  <1> QED
    BY <1>3 DEF S

\* The words of W end, in the text F, where e says.
IsLaid(F, e, W, n) ==
    /\ e \in [0 .. n -> Nat] /\ e[0] = 0
    /\ F \in Seq(Nat) /\ Len(F) = e[n]
    /\ \A j \in 1 .. n :
        /\ e[j] = e[j - 1] + Len(W[j]) /\ e[j] <= e[n]
        /\ \A p \in 1 .. Len(W[j]) : F[e[j - 1] + p] = W[j][p]

\* One word more.
LEMMA LaidMore ==
    ASSUME NEW m \in Nat, NEW W, \A j \in 1 .. m + 1 : W[j] \in Seq(Nat),
           NEW F, NEW e, IsLaid(F, e, W, m)
    PROVE  \E d : IsLaid(F \o W[m + 1], d, W, m + 1)
  <1>1. /\ e \in [0 .. m -> Nat] /\ e[0] = 0
        /\ F \in Seq(Nat) /\ Len(F) = e[m]
    BY DEF IsLaid
  <1>2. \A j \in 1 .. m : /\ e[j] = e[j - 1] + Len(W[j]) /\ e[j] <= e[m]
                          /\ \A p \in 1 .. Len(W[j]) : F[e[j - 1] + p] = W[j][p]
    BY DEF IsLaid
  <1>w. PICK w : w = W[m + 1]
    OBVIOUS
  <1>3. w \in Seq(Nat)
    BY <1>w
  <1>l. PICK l \in Nat : l = Len(w)
    BY <1>3
  <1>a. PICK a \in Nat : a = e[m]
    BY <1>1
  <1>G. PICK G : G = F \o w
    OBVIOUS
  <1>4. /\ G \in Seq(Nat) /\ Len(G) = a + l
        /\ \A x \in 1 .. a + l : G[x] = IF x <= a THEN F[x] ELSE w[x - a]
    <2>1. /\ F \o w \in Seq(Nat) /\ Len(F \o w) = Len(F) + Len(w)
          /\ \A x \in 1 .. Len(F) + Len(w) :
                (F \o w)[x] = IF x <= Len(F) THEN F[x] ELSE w[x - Len(F)]
      BY <1>1, <1>3, ConcatProperties
    <2>2. Len(F) = a /\ Len(w) = l
      BY <1>1, <1>l, <1>a
    <2> QED
      BY <1>G, <2>1, <2>2
  <1>d. PICK d : d = [j \in 0 .. m + 1 |-> IF j = m + 1 THEN a + l ELSE e[j]]
    OBVIOUS
  <1>5. d \in [0 .. m + 1 -> Nat] /\ d[0] = 0 /\ d[m + 1] = a + l
    BY <1>1, <1>d
  <1>6. \A j \in 0 .. m : d[j] = e[j] /\ d[j] \in Nat
    BY <1>1, <1>d
  <1>7. ASSUME NEW j \in 1 .. m + 1
        PROVE  /\ d[j] = d[j - 1] + Len(W[j]) /\ d[j] <= d[m + 1]
               /\ \A p \in 1 .. Len(W[j]) : G[d[j - 1] + p] = W[j][p]
    <2>1. CASE j = m + 1
      <3>1. j - 1 = m /\ m \in 0 .. m /\ d[j - 1] = a
        BY <1>6, <1>a, <2>1
      <3>2. d[j] = d[j - 1] + Len(W[j]) /\ d[j] <= d[m + 1]
        BY <1>5, <1>w, <1>l, <2>1, <3>1
      <3>3. ASSUME NEW p \in 1 .. l PROVE G[a + p] = w[p]
        <4>1. a + p \in 1 .. a + l /\ ~ (a + p <= a) /\ (a + p) - a = p
          OBVIOUS
        <4> QED
          BY <1>4, <4>1
      <3> QED
        BY <1>w, <1>l, <2>1, <3>1, <3>2, <3>3
    <2>2. CASE j # m + 1
      <3>1. j \in 1 .. m /\ j \in 0 .. m /\ j - 1 \in 0 .. m
        BY <2>2
      <3>2. d[j] = e[j] /\ d[j - 1] = e[j - 1] /\ e[j] \in Nat /\ e[j - 1] \in Nat
        BY <1>6, <3>1
      <3>k. PICK k : k = Len(W[j])
        OBVIOUS
      <3>4. k \in Nat /\ e[j] = e[j - 1] + k /\ e[j] <= a
        BY <1>2, <1>a, <3>1, <3>k
      <3>5. ASSUME NEW p \in 1 .. k PROVE G[e[j - 1] + p] = W[j][p]
        <4>x. PICK x : x = e[j - 1] + p
          OBVIOUS
        <4>1. x \in 1 .. a + l /\ x <= a
          BY <3>2, <3>4, <4>x
        <4>2. G[x] = F[x]
          BY <1>4, <4>1
        <4>3. F[e[j - 1] + p] = W[j][p]
          BY <1>2, <3>1, <3>k
        <4> QED
          BY <4>x, <4>2, <4>3
      <3>6. e[j] <= a + l
        BY <3>2, <3>4
      <3> QED
        BY <1>2, <1>5, <3>1, <3>2, <3>k, <3>5, <3>6
    <2> QED
      BY <2>1, <2>2
  <1>8. IsLaid(G, d, W, m + 1)
    BY <1>4, <1>5, <1>7 DEF IsLaid
  <1> QED
    BY <1>G, <1>w, <1>8

\* FlattenSeq lays the words one after the other.
LEMMA FlattenLays ==
    ASSUME NEW n \in Nat, NEW W \in [1 .. n -> Seq(Nat)]
    PROVE  \E e : IsLaid(FlattenSeq(W), e, W, n)
  <1> DEFINE flatten == CHOOSE f : IsFlatten(f, W, n)
  <1>1. IsFlatten(flatten, W, n)
    BY FlattenExists
  <1>f. PICK f : f = flatten
    OBVIOUS
  <1>2. f = [i \in 1 .. n |-> IF i = 1 THEN W[i] ELSE f[i - 1] \o W[i]]
    BY <1>1, <1>f DEF IsFlatten
  <1>3. Len(W) = n
    OBVIOUS
  <1>4. FlattenSeq(W) = IF n = 0 THEN W ELSE f[n]
    BY <1>3, <1>f DEF FlattenSeq, IsFlatten
  <1> DEFINE T(m) == IF m = 0 THEN << >> ELSE f[m]
             S == {m \in Nat : m <= n => \E e : IsLaid(T(m), e, W, m)}
  <1>5. 0 \in S
    <2>1. IsLaid(<< >>, [j \in 0 .. 0 |-> 0], W, 0)
      BY DEF IsLaid
    <2> QED
      BY <2>1
  <1>6. ASSUME NEW m \in Nat, m \in S PROVE m + 1 \in S
    <2> SUFFICES ASSUME m + 1 <= n PROVE \E e : IsLaid(T(m + 1), e, W, m + 1)
      OBVIOUS
    <2>1. PICK e : IsLaid(T(m), e, W, m)
      BY <1>6
    <2>2. \A j \in 1 .. m + 1 : W[j] \in Seq(Nat)
      OBVIOUS
    <2>3. T(m + 1) = T(m) \o W[m + 1]
      <3>1. m + 1 \in 1 .. n /\ m + 1 # 0 /\ (m + 1) - 1 = m
        OBVIOUS
      <3>2. T(m + 1) = f[m + 1]
        BY <3>1
      <3>3. f[m + 1] = IF m + 1 = 1 THEN W[m + 1] ELSE f[m] \o W[m + 1]
        BY <1>2, <3>1
      <3>4. CASE m = 0
        <4>1. T(m) = << >> /\ W[m + 1] \in Seq(Nat)
          BY <2>2, <3>4
        <4>2. << >> \o W[m + 1] = W[m + 1]
          BY <4>1, ConcatEmptySeq
        <4>3. T(m + 1) = W[m + 1]
          BY <3>2, <3>3, <3>4
        <4> QED
          BY <4>1, <4>2, <4>3
      <3>5. CASE m # 0
        <4>1. T(m) = f[m]
          BY <3>5
        <4>2. T(m + 1) = f[m] \o W[m + 1]
          <5>1. m + 1 # 1
            BY <3>5
          <5>2. f[m + 1] = f[m] \o W[m + 1]
            BY <3>3, <5>1
          <5> QED
            BY <3>2, <5>2
        <4> QED
          BY <4>1, <4>2
      <3> QED
        BY <3>4, <3>5
    <2> HIDE DEF T
    <2> QED
      BY <2>1, <2>2, <2>3, LaidMore
  <1> HIDE DEF S
  <1>7. n \in S
    BY <1>5, <1>6, InductionOnNaturals
  <1>8. \E e : IsLaid(T(n), e, W, n)
    BY <1>7 DEF S
  <1>9. T(n) = FlattenSeq(W)
    BY <1>3, <1>4
  <1> QED
    BY <1>8, <1>9

-----------------------------------------------------------------------------
(* The reading of a text.                                                  *)

\* The function by which parse_string is defined, for a text of n characters,
\* on the places from n - k on.
IsFrom(f, text, n, k) ==
    /\ f = [i \in 2 .. n + 11 |-> f[i]]
    /\ \A i \in 2 .. n + 11 : i + k >= n =>
        f[i] = IF i >= n THEN << >>
               ELSE <<read_char(text, i).c>> \o f[read_char(text, i).next]

\* A reader goes on, and not too far.
LEMMA NextIsFurther ==
    ASSUME NEW text, NEW i \in Nat
    PROVE  /\ read_char(text, i).next \in Nat
           /\ read_char(text, i).next > i /\ read_char(text, i).next <= i + 12
  <1>1. read_char(text, i).next \in {i + 1, i + 2, i + 6, i + 12}
    BY DEF read_char
  <1> QED
    BY <1>1

\* There is one.
LEMMA FromExists ==
    ASSUME NEW text, NEW n \in Nat, NEW k \in Nat
    PROVE  \E f : IsFrom(f, text, n, k)
  <1> DEFINE S == {m \in Nat : \E f : IsFrom(f, text, n, m)}
  <1>1. 0 \in S
    <2>1. IsFrom([i \in 2 .. n + 11 |-> << >>], text, n, 0)
      BY DEF IsFrom
    <2> QED
      BY <2>1
  <1>2. ASSUME NEW m \in Nat, m \in S PROVE m + 1 \in S
    <2>1. PICK f : IsFrom(f, text, n, m)
      BY <1>2
    <2>2. \A i \in 2 .. n + 11 : i + m >= n =>
            f[i] = IF i >= n THEN << >>
                   ELSE <<read_char(text, i).c>> \o f[read_char(text, i).next]
      BY <2>1 DEF IsFrom
    <2>j. PICK j \in Int : j = n - m - 1
      OBVIOUS
    <2>v. PICK v : v = <<read_char(text, j).c>> \o f[read_char(text, j).next]
      OBVIOUS
    <2>g. PICK g : g = [i \in 2 .. n + 11 |-> IF i = j THEN v ELSE f[i]]
      OBVIOUS
    <2>3. g = [i \in 2 .. n + 11 |-> g[i]]
      BY <2>g
    <2>4. ASSUME NEW i \in 2 .. n + 11, i + (m + 1) >= n
          PROVE  g[i] = IF i >= n THEN << >>
                        ELSE <<read_char(text, i).c>> \o g[read_char(text, i).next]
      <3>1. CASE i >= n
        <4>1. i # j /\ i + m >= n
          BY <2>j, <3>1
        <4>2. g[i] = f[i] /\ f[i] = << >>
          BY <2>2, <2>g, <3>1, <4>1
        <4> QED
          BY <3>1, <4>2
      <3>2. CASE ~ (i >= n)
        <4>x. PICK x : x = read_char(text, i).next
          OBVIOUS
        <4>1. x \in Nat /\ x > i /\ x <= i + 12
          BY <4>x, NextIsFurther
        <4>2. x \in 2 .. n + 11 /\ x # j /\ i >= j
          BY <2>4, <2>j, <3>2, <4>1
        <4>3. g[x] = f[x]
          BY <2>g, <4>2
        <4>4. g[i] = <<read_char(text, i).c>> \o f[x]
          <5>1. CASE i = j
            BY <2>g, <2>v, <4>x, <5>1
          <5>2. CASE i # j
            <6>1. i + m >= n
              BY <2>j, <4>2, <5>2
            <6>2. g[i] = f[i]
              BY <2>g, <5>2
            <6> QED
              BY <2>2, <3>2, <4>x, <6>1, <6>2
          <5> QED
            BY <5>1, <5>2
        <4> QED
          BY <3>2, <4>x, <4>3, <4>4
      <3> QED
        BY <3>1, <3>2
    <2>5. IsFrom(g, text, n, m + 1)
      BY <2>3, <2>4 DEF IsFrom
    <2> QED
      BY <2>5
  <1> HIDE DEF S
  <1>3. k \in S
    BY <1>1, <1>2, InductionOnNaturals
  <1> QED
    BY <1>3 DEF S

\* What parse_string is.
LEMMA ParseIsFrom ==
    ASSUME NEW text, NEW n \in Nat, Len(text) = n
    PROVE  \E f : IsFrom(f, text, n, n) /\ parse_string(text) = f[2]
  <1> DEFINE Eq(f) == f = [i \in 2 .. n + 11 |->
                             IF i >= n THEN << >>
                             ELSE <<read_char(text, i).c>> \o f[read_char(text, i).next]]
             from == CHOOSE f : Eq(f)
  <1>1. \E f : Eq(f)
    <2>1. PICK f : IsFrom(f, text, n, n)
      BY FromExists
    <2>2. f = [i \in 2 .. n + 11 |-> f[i]]
      BY <2>1 DEF IsFrom
    <2>3. ASSUME NEW i \in 2 .. n + 11
          PROVE  f[i] = IF i >= n THEN << >>
                        ELSE <<read_char(text, i).c>> \o f[read_char(text, i).next]
      <3>1. i + n >= n
        OBVIOUS
      <3> QED
        BY <2>1, <3>1 DEF IsFrom
    <2>4. Eq(f)
      BY <2>2, <2>3
    <2> QED
      BY <2>4
  <1>2. Eq(from)
    BY <1>1
  <1>f. PICK f : f = from
    OBVIOUS
  <1>3. f = [i \in 2 .. n + 11 |->
                IF i >= n THEN << >>
                ELSE <<read_char(text, i).c>> \o f[read_char(text, i).next]]
    BY <1>2, <1>f
  <1>4. IsFrom(f, text, n, n)
    BY <1>3 DEF IsFrom
  <1>5. parse_string(text) = f[2]
    BY <1>f DEF parse_string
  <1> QED
    BY <1>4, <1>5

-----------------------------------------------------------------------------
(* What is written is read back.                                           *)

\* A string in which each character is spelled in a word, between quotes, is
\* read as that string.
LEMMA ReadLaid ==
    ASSUME NEW n \in Nat, NEW s \in Seq(Nat), Len(s) = n,
           NEW W, \A j \in 1 .. n : Spells(W[j], s[j]),
           NEW F, NEW e, IsLaid(F, e, W, n)
    PROVE  parse_string(<<Quote>> \o F \o <<Quote>>) = s
  <1>1. /\ e \in [0 .. n -> Nat] /\ e[0] = 0 /\ F \in Seq(Nat)
        /\ \A j \in 1 .. n :
            /\ e[j] = e[j - 1] + Len(W[j]) /\ e[j] <= e[n]
            /\ \A p \in 1 .. Len(W[j]) : F[e[j - 1] + p] = W[j][p]
    BY DEF IsLaid
  <1>m. PICK m \in Nat : m = e[n]
    BY <1>1
  <1>2. Len(F) = m
    BY <1>m DEF IsLaid
  <1>t. PICK text : text = <<Quote>> \o F \o <<Quote>>
    OBVIOUS
  <1>3. Len(text) = m + 2 /\ \A x \in 1 .. m : text[x + 1] = F[x]
    <2>q. PICK q : q = <<Quote>>
      OBVIOUS
    <2>1. q \in Seq(Nat) /\ Len(q) = 1
      BY <2>q DEF Quote
    <2>h. PICK h : h = q \o F
      OBVIOUS
    <2>2. /\ h \in Seq(Nat) /\ Len(h) = 1 + m
          /\ \A x \in 1 .. 1 + m : h[x] = IF x <= 1 THEN q[x] ELSE F[x - 1]
      <3>1. /\ q \o F \in Seq(Nat) /\ Len(q \o F) = Len(q) + Len(F)
            /\ \A x \in 1 .. Len(q) + Len(F) :
                (q \o F)[x] = IF x <= Len(q) THEN q[x] ELSE F[x - Len(q)]
        <4>1. F \in Seq(Nat)
          BY <1>1
        <4> QED
          BY <2>1, <4>1, ConcatProperties
      <3> QED
        BY <1>2, <2>1, <2>h, <3>1
    <2>3. /\ Len(h \o q) = (1 + m) + 1
          /\ \A x \in 1 .. (1 + m) + 1 :
                (h \o q)[x] = IF x <= 1 + m THEN h[x] ELSE q[x - (1 + m)]
      <3>1. /\ h \o q \in Seq(Nat) /\ Len(h \o q) = Len(h) + Len(q)
            /\ \A x \in 1 .. Len(h) + Len(q) :
                (h \o q)[x] = IF x <= Len(h) THEN h[x] ELSE q[x - Len(h)]
        BY <2>1, <2>2, ConcatProperties
      <3> QED
        BY <2>1, <2>2, <3>1
    <2>4. text = h \o q
      BY <1>t, <2>q, <2>h
    <2>5. ASSUME NEW x \in 1 .. m PROVE text[x + 1] = F[x]
      <3>1. x + 1 \in 1 .. (1 + m) + 1 /\ x + 1 <= 1 + m /\ x + 1 \in 1 .. 1 + m
            /\ ~ (x + 1 <= 1) /\ (x + 1) - 1 = x
        OBVIOUS
      <3>2. text[x + 1] = h[x + 1]
        BY <2>3, <2>4, <3>1
      <3>3. h[x + 1] = F[x]
        BY <2>2, <3>1
      <3> QED
        BY <3>2, <3>3
    <2> QED
      BY <2>3, <2>4, <2>5
  <1>4. ASSUME NEW j \in 1 .. n
        PROVE  /\ e[j - 1] \in Nat /\ e[j] \in Nat /\ e[j - 1] < e[j] /\ e[j] <= m
               /\ read_char(text, 2 + e[j - 1]) = [c |-> s[j], next |-> 2 + e[j]]
    <2>1. j - 1 \in 0 .. n /\ j \in 0 .. n
      OBVIOUS
    <2>2. e[j - 1] \in Nat /\ e[j] \in Nat
      BY <1>1, <2>1
    <2>a. PICK a \in Nat : a = e[j - 1]
      BY <2>2
    <2>w. PICK w : w = W[j]
      OBVIOUS
    <2>3. Spells(w, s[j])
      BY <2>w
    <2>l. PICK l \in Nat : l = Len(w)
      BY <2>3 DEF Spells
    <2>4. l >= 1
      BY <2>3, <2>l DEF Spells
    <2>5. /\ e[j] = a + l /\ a + l <= m
          /\ \A p \in 1 .. l : F[a + p] = w[p]
      BY <1>1, <1>m, <2>a, <2>w, <2>l
    <2>6. \A p \in 1 .. l : text[(2 + a) + p - 1] = w[p]
      <3> TAKE p \in 1 .. l
      <3>1. a + p \in 1 .. m /\ (2 + a) + p - 1 = (a + p) + 1
        BY <2>5
      <3>2. text[(a + p) + 1] = F[a + p]
        BY <1>3, <3>1
      <3> QED
        BY <2>5, <3>1, <3>2
    <2>7. At(text, 2 + a, w)
      BY <2>6, <2>l DEF At
    <2>8. 2 + a \in Nat
      OBVIOUS
    <2>9. read_char(text, 2 + a) = [c |-> s[j], next |-> (2 + a) + l]
      BY <2>3, <2>7, <2>8, <2>l DEF Spells
    <2>10. (2 + a) + l = 2 + (a + l) /\ a < a + l
      BY <2>4
    <2> QED
      BY <2>2, <2>a, <2>5, <2>9, <2>10
  <1>f. PICK f : IsFrom(f, text, m + 2, m + 2) /\ parse_string(text) = f[2]
    <2>1. m + 2 \in Nat
      OBVIOUS
    <2> QED
      BY <1>3, <2>1, ParseIsFrom
  <1>5. ASSUME NEW i \in Nat, 2 <= i, i <= m + 13
        PROVE  f[i] = IF i >= m + 2 THEN << >>
                      ELSE <<read_char(text, i).c>> \o f[read_char(text, i).next]
    <2>1. i \in 2 .. (m + 2) + 11 /\ i + (m + 2) >= m + 2
      BY <1>5
    <2> QED
      BY <1>f, <2>1 DEF IsFrom
  <1> DEFINE S == {k \in Nat : k <= n => f[2 + e[n - k]] = SubSeq(s, (n - k) + 1, n)}
  <1>6. 0 \in S
    <2>1. n - 0 = n /\ n < n + 1 /\ 2 + m \in Nat /\ 2 <= 2 + m /\ 2 + m <= m + 13 /\ 2 + m >= m + 2
      OBVIOUS
    <2>2. f[2 + m] = << >>
      BY <1>5, <2>1
    <2>3. SubSeq(s, n + 1, n) = << >>
      BY <2>1, SubSeqEmpty
    <2> QED
      BY <1>m, <2>1, <2>2, <2>3
  <1>7. ASSUME NEW k \in Nat, k \in S PROVE k + 1 \in S
    <2> SUFFICES ASSUME k + 1 <= n
                 PROVE  f[2 + e[n - (k + 1)]] = SubSeq(s, (n - (k + 1)) + 1, n)
      OBVIOUS
    <2>1. f[2 + e[n - k]] = SubSeq(s, (n - k) + 1, n)
      BY <1>7
    <2>j. PICK j \in 1 .. n : j = n - k
      OBVIOUS
    <2>2. n - (k + 1) = j - 1 /\ (j - 1) + 1 = j
      BY <2>j
    <2>3. /\ e[j - 1] \in Nat /\ e[j] \in Nat /\ e[j - 1] < e[j] /\ e[j] <= m
          /\ read_char(text, 2 + e[j - 1]) = [c |-> s[j], next |-> 2 + e[j]]
      BY <1>4
    <2>i. PICK i : i = 2 + e[j - 1]
      OBVIOUS
    <2>4. i \in Nat /\ 2 <= i /\ i <= m + 13 /\ ~ (i >= m + 2)
      BY <2>3, <2>i
    <2>5. f[i] = <<read_char(text, i).c>> \o f[read_char(text, i).next]
      BY <1>5, <2>4
    <2>6. f[i] = <<s[j]>> \o f[2 + e[j]]
      <3>1. read_char(text, i) = [c |-> s[j], next |-> 2 + e[j]]
        BY <2>3, <2>i
      <3>r. PICK r : r = read_char(text, i)
        OBVIOUS
      <3>2. f[i] = <<r.c>> \o f[r.next]
        BY <2>5, <3>r
      <3>x. PICK x : x = s[j]
        OBVIOUS
      <3>y. PICK y : y = 2 + e[j]
        OBVIOUS
      <3>3. r = [c |-> x, next |-> y]
        BY <3>1, <3>r, <3>x, <3>y
      <3>4. r.c = x /\ r.next = y
        BY <3>3
      <3>5. f[i] = <<x>> \o f[y]
        BY <3>2, <3>4
      <3> QED
        BY <3>5, <3>x, <3>y
    <2>7. SubSeq(s, j, n) = <<s[j]>> \o SubSeq(s, j + 1, n)
      <3>1. j \in 1 .. Len(s) /\ n \in j .. Len(s)
        OBVIOUS
      <3> QED
        BY <3>1, SubSeqRecursiveFirst
    <2> QED
      BY <2>1, <2>2, <2>j, <2>i, <2>6, <2>7
  <1> HIDE DEF S
  <1>8. n \in S
    BY <1>6, <1>7, InductionOnNaturals
  <1>9. f[2 + e[0]] = SubSeq(s, 0 + 1, n)
    <2>1. n - n = 0 /\ n <= n
      OBVIOUS
    <2> QED
      BY <1>8, <2>1 DEF S
  <1>10. f[2] = SubSeq(s, 1, n)
    BY <1>1, <1>9
  <1>11. SubSeq(s, 1, n) = s
    BY SubSeqFull
  <1> QED
    BY <1>t, <1>f, <1>10, <1>11

\* Strings are sequences of numbers, and have a length.
LEMMA StringParts ==
    ASSUME NEW s \in Seq(CodePoints)
    PROVE  /\ s \in Seq(Nat) /\ Len(s) \in Nat /\ DOMAIN s = 1 .. Len(s)
           /\ \A j \in 1 .. Len(s) : s[j] \in CodePoints
  BY DEF CodePoints

\* What encode_string_ascii (src/src/pqroute.rs) writes of any string is read back
\* as that string, whatever its characters, those above sixteen bits included.
THEOREM EncodedReadBack ==
    ASSUME NEW s \in Seq(CodePoints)
    PROVE  parse_string(encode_string_ascii(s)) = s
  <1>n. PICK n \in Nat : n = Len(s)
    BY StringParts
  <1>W. PICK W : W = [j \in 1 .. n |-> encode_char_ascii(s[j])]
    OBVIOUS
  <1>1. \A j \in 1 .. n : Spells(W[j], s[j])
    BY <1>n, <1>W, StringParts, EncodedSpells
  <1>2. W \in [1 .. n -> Seq(Nat)]
    BY <1>1, <1>W DEF Spells
  <1>3. PICK e : IsLaid(FlattenSeq(W), e, W, n)
    BY <1>2, FlattenLays
  <1>4. encode_string_ascii(s) = <<Quote>> \o FlattenSeq(W) \o <<Quote>>
    BY <1>n, <1>W, StringParts DEF encode_string_ascii
  <1> QED
    BY <1>n, <1>1, <1>3, <1>4, StringParts, ReadLaid

\* So is what serde_json writes, for the lock that src/src/pqdm.rs computes.
THEOREM SerdeReadBack ==
    ASSUME NEW s \in Seq(CodePoints)
    PROVE  parse_string(serde_json_string(s)) = s
  <1>n. PICK n \in Nat : n = Len(s)
    BY StringParts
  <1>W. PICK W : W = [j \in 1 .. n |-> serde_json_char(s[j])]
    OBVIOUS
  <1>1. \A j \in 1 .. n : Spells(W[j], s[j])
    BY <1>n, <1>W, StringParts, SerdeSpells
  <1>2. W \in [1 .. n -> Seq(Nat)]
    BY <1>1, <1>W DEF Spells
  <1>3. PICK e : IsLaid(FlattenSeq(W), e, W, n)
    BY <1>2, FlattenLays
  <1>4. serde_json_string(s) = <<Quote>> \o FlattenSeq(W) \o <<Quote>>
    BY <1>n, <1>W, StringParts DEF serde_json_string
  <1> QED
    BY <1>n, <1>1, <1>3, <1>4, StringParts, ReadLaid
=============================================================================
