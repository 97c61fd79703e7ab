--------------------------- MODULE PqRouteProofs ---------------------------
(***************************************************************************)
(* Proofs about PqRoute for every value of its constants.                  *)
(***************************************************************************)
EXTENDS PqRoute, TextTheorems, FiniteSetTheorems, SequenceTheorems, TLAPS

-----------------------------------------------------------------------------
(* The order of an object's members.                                       *)

\* The members of S in their order.
Increasing(names, n, S) ==
    /\ names \in [1 .. n -> S]
    /\ \A i, j \in 1 .. n : i < j => names[i] < names[j]

\* A finite set of numbers can be put in order: its least member comes first.
LEMMA SortedExists ==
    ASSUME NEW S \in SUBSET Nat, IsFiniteSet(S)
    PROVE  \E names : Increasing(names, Cardinality(S), S)
  <1> DEFINE P == {n \in Nat : \A T \in SUBSET Nat : IsFiniteSet(T) /\ Cardinality(T) = n =>
                                  \E names : Increasing(names, n, T)}
  <1>1. 0 \in P
    <2> SUFFICES ASSUME NEW T \in SUBSET Nat, IsFiniteSet(T), Cardinality(T) = 0
                 PROVE  \E names : Increasing(names, 0, T)
      OBVIOUS
    <2>1. Increasing([i \in 1 .. 0 |-> i], 0, T)
      BY DEF Increasing
    <2> QED
      BY <2>1
  <1>2. ASSUME NEW n \in Nat, n \in P PROVE n + 1 \in P
    <2> SUFFICES ASSUME NEW T \in SUBSET Nat, IsFiniteSet(T), Cardinality(T) = n + 1
                 PROVE  \E names : Increasing(names, n + 1, T)
      OBVIOUS
    <2>1. T # {}
      BY FS_EmptySet
    <2>2. PICK m \in T : \A y \in T : m <= y
      BY <2>1, LeastOfNaturals
    <2>3. IsFiniteSet(T \ {m}) /\ Cardinality(T \ {m}) = n
      <3>1. IsFiniteSet(T \ {m}) /\ Cardinality(T \ {m}) = Cardinality(T) - 1
        BY <2>2, FS_RemoveElement
      <3>2. Cardinality(T) - 1 = n
        OBVIOUS
      <3> QED
        BY <3>1, <3>2, Zenon
    <2>4. PICK f : Increasing(f, n, T \ {m})
      BY <1>2, <2>3
    <2> DEFINE g == [i \in 1 .. n + 1 |-> IF i = 1 THEN m ELSE f[i - 1]]
    <2>5. \A i \in 1 .. n + 1 : i # 1 => i - 1 \in 1 .. n
      OBVIOUS
    <2>6. \A i \in 1 .. n : f[i] \in T /\ f[i] \in Nat /\ m < f[i]
      <3> SUFFICES ASSUME NEW i \in 1 .. n PROVE f[i] \in T /\ f[i] \in Nat /\ m < f[i]
        OBVIOUS
      <3>1. f[i] \in T /\ f[i] # m
        BY <2>4 DEF Increasing
      <3>2. m \in Nat /\ f[i] \in Nat /\ m <= f[i]
        BY <2>2, <3>1
      <3> QED
        BY <3>1, <3>2
    <2>7. g \in [1 .. n + 1 -> T]
      BY <2>5, <2>6
    <2>8. ASSUME NEW i \in 1 .. n + 1, NEW j \in 1 .. n + 1, i < j PROVE g[i] < g[j]
      <3>1. j # 1 /\ j - 1 \in 1 .. n
        BY <2>8
      <3>2. CASE i = 1
        BY <2>6, <3>1, <3>2
      <3>3. CASE i # 1
        <4>1. i - 1 \in 1 .. n /\ i - 1 < j - 1
          BY <2>8, <3>3
        <4> QED
          BY <2>4, <3>1, <3>3, <4>1 DEF Increasing
      <3> QED
        BY <3>2, <3>3
    <2> QED
      BY <2>7, <2>8 DEF Increasing
  <1>3. Nat \subseteq P
    BY <1>1, <1>2, InductionOnNaturals
  <1>4. Cardinality(S) \in Nat
    BY FS_CardinalityType
  <1> QED
    BY <1>3, <1>4

\* What the properties' objects are.
IsObject(obj) ==
    /\ IsFiniteSet(DOMAIN obj) /\ DOMAIN obj \subseteq Nat
    /\ obj = [k \in DOMAIN obj |-> obj[k]]

\* SortedNames has each name once, in order.
LEMMA NamesInOrder ==
    ASSUME NEW obj, IsObject(obj)
    PROVE  LET n == Cardinality(DOMAIN obj)
               names == SortedNames(obj)
           IN  /\ n \in Nat
               /\ names \in [1 .. n -> DOMAIN obj]
               /\ \A i, j \in 1 .. n : names[i] = names[j] => i = j
               /\ \A k \in DOMAIN obj : \E i \in 1 .. n : names[i] = k
  <1> DEFINE D == DOMAIN obj
             n == Cardinality(D)
             names == SortedNames(obj)
  <1>1. D \in SUBSET Nat /\ IsFiniteSet(D) /\ n \in Nat
    BY FS_CardinalityType DEF IsObject
  <1>2. \E x : Increasing(x, n, D)
    BY <1>1, SortedExists
  <1>3. \E x \in [1 .. n -> D] : \A i, j \in DOMAIN x : i < j => x[i] < x[j]
    BY <1>2 DEF Increasing
  <1>4. names \in [1 .. n -> D] /\ \A i, j \in DOMAIN names : i < j => names[i] < names[j]
    BY <1>3, Zenon DEF SortedNames
  <1> HIDE DEF names, n, D
  <1>5. \A i \in 1 .. n : names[i] \in Nat
    BY <1>1, <1>4
  <1>6. \A i, j \in 1 .. n : names[i] = names[j] => i = j
    <2> SUFFICES ASSUME NEW i \in 1 .. n, NEW j \in 1 .. n, names[i] = names[j], i # j
                 PROVE  FALSE
      OBVIOUS
    <2>1. i < j \/ j < i
      BY <1>1
    <2> QED
      BY <1>4, <1>5, <2>1
  <1>7. names \in Injection(1 .. n, D)
    BY <1>4, <1>6 DEF Injection, IsInjective
  <1>8. Cardinality(1 .. n) = n
    BY <1>1, FS_Interval
  <1>9. names \in Surjection(1 .. n, D)
    BY <1>1, <1>7, <1>8, FS_Injection DEF n
  <1> QED
    BY <1>1, <1>4, <1>6, <1>9 DEF Surjection, n, names, D

-----------------------------------------------------------------------------
(* Texts put together and cut.                                             *)

IsSeq(t) == \E U : t \in Seq(U)

\* A text t that is a and then b.
IsJoin(t, a, b) ==
    /\ IsSeq(t)
    /\ Len(a) \in Nat /\ Len(b) \in Nat
    /\ Len(t) = Len(a) + Len(b)
    /\ \A i \in 1 .. Len(a) : t[i] = a[i]
    /\ \A i \in 1 .. Len(b) : t[Len(a) + i] = b[i]

\* A text after another.
LEMMA Joined ==
    ASSUME NEW a, NEW b, IsSeq(a), IsSeq(b)
    PROVE  IsJoin(a \o b, a, b)
  <1>1. PICK U : a \in Seq(U)
    BY DEF IsSeq
  <1>2. PICK V : b \in Seq(V)
    BY DEF IsSeq
  <1> DEFINE W == U \cup V
  <1>3. a \in Seq(W) /\ b \in Seq(W)
    BY <1>1, <1>2, SeqMonotonic
  <1> HIDE DEF W
  <1>4. a \o b \in Seq(W)
    BY <1>3, ConcatProperties
  <1> QED
    BY <1>3, <1>4 DEF IsSeq, IsJoin

\* A piece of a text.
LEMMA Piece ==
    ASSUME NEW t, IsSeq(t), NEW m \in Nat, NEW n \in Nat, m >= 1, n <= Len(t), m <= n + 1
    PROVE  /\ IsSeq(SubSeq(t, m, n)) /\ Len(SubSeq(t, m, n)) = n + 1 - m
           /\ \A i \in 1 .. n + 1 - m : SubSeq(t, m, n)[i] = t[m + i - 1]
  <1>1. PICK U : t \in Seq(U)
    BY DEF IsSeq
  <1>2. Len(t) \in Nat /\ \A i \in m .. n : t[i] \in U
    BY <1>1
  <1>3. /\ SubSeq(t, m, n) \in Seq(U)
        /\ Len(SubSeq(t, m, n)) = IF m <= n THEN n - m + 1 ELSE 0
        /\ \A i \in 1 .. n - m + 1 : SubSeq(t, m, n)[i] = t[m + i - 1]
    BY <1>2, SubSeqProperties
  <1>4. (IF m <= n THEN n - m + 1 ELSE 0) = n + 1 - m /\ n - m + 1 = n + 1 - m
    OBVIOUS
  <1> QED
    BY <1>3, <1>4 DEF IsSeq

\* Texts with the same units are the same.
LEMMA SameText ==
    ASSUME NEW a, NEW b, IsSeq(a), IsSeq(b), Len(a) = Len(b),
           \A i \in 1 .. Len(a) : a[i] = b[i]
    PROVE  a = b
  <1>1. PICK U : a \in Seq(U)
    BY DEF IsSeq
  <1>2. PICK V : b \in Seq(V)
    BY DEF IsSeq
  <1> DEFINE W == U \cup V
  <1>3. a \in Seq(W) /\ b \in Seq(W)
    BY <1>1, <1>2, SeqMonotonic
  <1> HIDE DEF W
  <1> QED
    BY <1>3, SeqEqual

\* A text t that is x, a and b, and how it is cut and what is in it.
IsCut(t, x, a, b) ==
    /\ IsSeq(t) /\ t[1] = x
    /\ Len(a) \in Nat /\ Len(b) \in Nat
    /\ Len(t) = 1 + Len(a) + Len(b)
    /\ SubSeq(t, 2, 1 + Len(a)) = a
    /\ SubSeq(t, 1 + Len(a) + 1, Len(t)) = b
    /\ \A i \in 1 .. Len(t) : \/ t[i] = x
                              \/ \E j \in 1 .. Len(a) : t[i] = a[j]
                              \/ \E j \in 1 .. Len(b) : t[i] = b[j]

\* A unit, a text and a text, which a reader who knows the first text's length
\* tells apart.
LEMMA Cut ==
    ASSUME NEW x, NEW a, NEW b, IsSeq(a), IsSeq(b)
    PROVE  IsCut(<<x>> \o a \o b, x, a, b)
  <1>x. PICK xs : xs = <<x>>
    OBVIOUS
  <1>u. PICK u : u = xs \o a
    OBVIOUS
  <1>t. PICK t : t = u \o b
    OBVIOUS
  <1>1. IsSeq(xs) /\ Len(xs) = 1 /\ xs[1] = x
    <2>1. xs \in Seq({x})
      BY <1>x
    <2> QED
      BY <1>x, <2>1 DEF IsSeq
  <1>p. PICK p \in Nat : p = Len(a)
    BY DEF IsSeq
  <1>q. PICK q \in Nat : q = Len(b)
    BY DEF IsSeq
  <1>2. /\ IsSeq(u) /\ Len(u) = 1 + p /\ u[1] = x
        /\ \A i \in 1 .. p : u[1 + i] = a[i]
    <2>1. IsJoin(u, xs, a)
      BY <1>1, <1>u, Joined, Zenon
    <2> QED
      BY <1>1, <1>p, <2>1 DEF IsJoin
  <1>3. /\ IsSeq(t) /\ Len(t) = 1 + p + q
        /\ \A i \in 1 .. 1 + p : t[i] = u[i]
        /\ \A i \in 1 .. q : t[1 + p + i] = b[i]
    <2>1. IsJoin(t, u, b)
      BY <1>2, <1>t, Joined, Zenon
    <2> QED
      BY <1>2, <1>q, <2>1 DEF IsJoin
  <1>4. t[1] = x /\ \A i \in 1 .. p : t[1 + i] = a[i]
    BY <1>2, <1>3
  <1>5. SubSeq(t, 2, 1 + p) = a
    <2>1. /\ IsSeq(SubSeq(t, 2, 1 + p)) /\ Len(SubSeq(t, 2, 1 + p)) = (1 + p) + 1 - 2
          /\ \A i \in 1 .. (1 + p) + 1 - 2 : SubSeq(t, 2, 1 + p)[i] = t[2 + i - 1]
      <3>1. 2 \in Nat /\ 1 + p \in Nat /\ 2 >= 1 /\ 1 + p <= Len(t) /\ 2 <= 1 + p + 1
        BY <1>3
      <3> QED
        BY <1>3, <3>1, Piece
    <2>y. PICK y : y = SubSeq(t, 2, 1 + p)
      OBVIOUS
    <2>2. IsSeq(y) /\ Len(y) = p /\ \A i \in 1 .. p : y[i] = a[i]
      <3>1. (1 + p) + 1 - 2 = p /\ \A i \in 1 .. p : 2 + i - 1 = 1 + i
        OBVIOUS
      <3> QED
        BY <1>4, <2>1, <2>y, <3>1
    <2> QED
      BY <1>p, <2>y, <2>2, SameText
  <1>6. SubSeq(t, 1 + p + 1, Len(t)) = b
    <2> DEFINE m == 1 + p + 1
               n == 1 + p + q
    <2>1. m \in Nat /\ n \in Nat /\ m >= 1 /\ n <= Len(t) /\ m <= n + 1 /\ n + 1 - m = q
      BY <1>3
    <2>y. PICK y : y = SubSeq(t, m, n)
      OBVIOUS
    <2>2. /\ IsSeq(y) /\ Len(y) = n + 1 - m
          /\ \A i \in 1 .. n + 1 - m : y[i] = t[m + i - 1]
      <3> HIDE DEF m, n
      <3> QED
        BY <1>3, <2>1, <2>y, Piece
    <2>3. Len(y) = q /\ \A i \in 1 .. q : y[i] = b[i]
      <3>1. \A i \in 1 .. q : m + i - 1 = 1 + p + i
        OBVIOUS
      <3> QED
        BY <1>3, <2>1, <2>2, <3>1
    <2> QED
      BY <1>3, <1>q, <2>y, <2>2, <2>3, SameText
  <1>7. ASSUME NEW i \in 1 .. Len(t)
        PROVE  \/ t[i] = x
               \/ \E j \in 1 .. p : t[i] = a[j]
               \/ \E j \in 1 .. q : t[i] = b[j]
    <2>1. i \in 1 .. 1 + p + q
      BY <1>3
    <2>2. CASE i = 1
      BY <1>4, <2>2
    <2>3. CASE i > 1 /\ i <= 1 + p
      <3>1. i - 1 \in 1 .. p /\ 1 + (i - 1) = i
        BY <2>1, <2>3
      <3> QED
        BY <1>4, <3>1
    <2>4. CASE i > 1 + p
      <3>1. i - (1 + p) \in 1 .. q /\ 1 + p + (i - (1 + p)) = i
        BY <2>1, <2>4
      <3> QED
        BY <1>3, <3>1
    <2> QED
      BY <2>1, <2>2, <2>3, <2>4
  <1>8. IsCut(t, x, a, b)
    BY <1>p, <1>q, <1>3, <1>4, <1>5, <1>6, <1>7 DEF IsCut
  <1> QED
    BY <1>8, <1>x, <1>u, <1>t, Zenon

-----------------------------------------------------------------------------
(* Objects written and read.                                               *)

\* The text of an object: its members, once each, between begin and end.
IsTextOf(t, obj, n, names) ==
    /\ n \in Nat
    /\ names \in [1 .. n -> DOMAIN obj]
    /\ \A i, j \in 1 .. n : names[i] = names[j] => i = j
    /\ \A k \in DOMAIN obj : \E i \in 1 .. n : names[i] = k
    /\ IsSeq(t) /\ Len(t) = n + 2 /\ t[1] = Begin /\ t[n + 2] = End
    /\ \A i \in 1 .. n : t[1 + i] = Member(names[i], encode_string_ascii(obj[names[i]]))

\* The parts of the units of a text.
LEMMA UnitParts ==
    /\ \A name, value : /\ Member(name, value)[1] = "member"
                        /\ Member(name, value)[2] = name /\ Member(name, value)[3] = value
    /\ Begin[1] # "box" /\ End[1] # "box"
  BY DEF Member, Begin, End

LEMMA CanonicalText ==
    ASSUME NEW obj, IsObject(obj)
    PROVE  IsTextOf(canonical(obj), obj, Cardinality(DOMAIN obj), SortedNames(obj))
  <1>n. PICK n : n = Cardinality(DOMAIN obj)
    OBVIOUS
  <1>f. PICK names : names = SortedNames(obj)
    OBVIOUS
  <1>1. /\ n \in Nat
        /\ names \in [1 .. n -> DOMAIN obj]
        /\ \A i, j \in 1 .. n : names[i] = names[j] => i = j
        /\ \A k \in DOMAIN obj : \E i \in 1 .. n : names[i] = k
    BY <1>n, <1>f, NamesInOrder
  <1>m. PICK ms : ms = [i \in 1 .. n |-> Member(names[i], encode_string_ascii(obj[names[i]]))]
    OBVIOUS
  <1>2. IsSeq(ms) /\ Len(ms) = n
        /\ \A i \in 1 .. n : ms[i] = Member(names[i], encode_string_ascii(obj[names[i]]))
    <2> DEFINE U == {ms[i] : i \in 1 .. n}
    <2>1. ms \in [1 .. n -> U]
      BY <1>m
    <2>2. ms \in Seq(U)
      BY <1>1, <2>1
    <2>3. Len(ms) = n
      BY <1>1, <2>1, <2>2
    <2> QED
      BY <1>m, <2>2, <2>3 DEF IsSeq
  <1>e. PICK es : es = <<End>>
    OBVIOUS
  <1>3. IsSeq(es) /\ Len(es) = 1 /\ es[1] = End
    <2>1. es \in Seq({End})
      BY <1>e
    <2> QED
      BY <1>e, <2>1 DEF IsSeq
  <1>b. PICK bs : bs = <<Begin>>
    OBVIOUS
  <1>4. IsSeq(bs) /\ Len(bs) = 1 /\ bs[1] = Begin
    <2>1. bs \in Seq({Begin})
      BY <1>b
    <2> QED
      BY <1>b, <2>1 DEF IsSeq
  <1>u. PICK u : u = bs \o ms
    OBVIOUS
  <1>5. IsJoin(u, bs, ms)
    BY <1>2, <1>4, <1>u, Joined, Zenon
  <1>6. /\ IsSeq(u) /\ Len(u) = 1 + n /\ u[1] = Begin
        /\ \A i \in 1 .. n : u[1 + i] = ms[i]
    BY <1>1, <1>2, <1>4, <1>5 DEF IsJoin
  <1>t. PICK t : t = u \o es
    OBVIOUS
  <1>7. IsJoin(t, u, es)
    BY <1>3, <1>6, <1>t, Joined, Zenon
  <1>8. IsSeq(t) /\ Len(t) = n + 2 /\ (\A i \in 1 .. 1 + n : t[i] = u[i]) /\ t[1 + n + 1] = End
    BY <1>1, <1>3, <1>6, <1>7 DEF IsJoin
  <1>9. /\ t[1] = Begin /\ t[n + 2] = End
        /\ \A i \in 1 .. n : t[1 + i] = Member(names[i], encode_string_ascii(obj[names[i]]))
    <2>1. 1 \in 1 .. 1 + n /\ 1 + n + 1 = n + 2 /\ \A i \in 1 .. n : 1 + i \in 1 .. 1 + n
      BY <1>1
    <2> QED
      BY <1>2, <1>6, <1>8, <2>1
  <1>10. t = canonical(obj)
    <2>1. DOMAIN names = 1 .. n
      BY <1>1
    <2>2. canonical(obj) = <<Begin>> \o ms \o <<End>>
      BY <1>f, <1>m, <2>1, Zenon DEF canonical
    <2> QED
      BY <1>b, <1>e, <1>u, <1>t, <2>2, Zenon
  <1>11. IsTextOf(t, obj, n, names)
    BY <1>1, <1>8, <1>9 DEF IsTextOf
  <1> QED
    BY <1>n, <1>f, <1>10, <1>11, Zenon

\* Some unit of a text.
Has(t, kind) == \E i \in 1 .. Len(t) : t[i][1] = kind

\* A header's text is an object's, and nothing else is in it.
LEMMA ObjectText ==
    ASSUME NEW obj, IsObject(obj)
    PROVE  /\ IsSeq(canonical(obj)) /\ IsJson(canonical(obj))
           /\ ~ Has(canonical(obj), "box")
  <1>n. PICK n, names : n = Cardinality(DOMAIN obj) /\ names = SortedNames(obj)
    OBVIOUS
  <1>t. PICK t : t = canonical(obj)
    OBVIOUS
  <1>1. IsTextOf(t, obj, n, names)
    BY <1>n, <1>t, CanonicalText, Zenon
  <1>2. /\ n \in Nat /\ IsSeq(t) /\ Len(t) = n + 2 /\ t[1] = Begin /\ t[n + 2] = End
    BY <1>1 DEF IsTextOf
  <1>m. \A i \in 1 .. n : t[1 + i][1] = "member"
    <2> TAKE i \in 1 .. n
    <2>1. PICK value : t[1 + i] = Member(names[i], value)
      BY <1>1, Zenon DEF IsTextOf
    <2> QED
      BY <2>1 DEF Member
  <1>3. \A i \in 2 .. n + 1 : t[i][1] = "member"
    <2> TAKE i \in 2 .. n + 1
    <2>1. i - 1 \in 1 .. n /\ 1 + (i - 1) = i
      BY <1>2
    <2> QED
      BY <1>m, <2>1
  <1>4. IsJson(t)
    <2>1. Head(t) = Begin
      BY <1>2 DEF IsSeq
    <2>2. Last(t) = End
      BY <1>2 DEF Last
    <2> QED
      BY <1>2, <1>3, <2>1, <2>2 DEF IsJson
  <1>5. ~ Has(t, "box")
    <2> SUFFICES ASSUME NEW i \in 1 .. n + 2 PROVE t[i][1] # "box"
      BY <1>2 DEF Has
    <2>1. i = 1 \/ i = n + 2 \/ i \in 2 .. n + 1
      BY <1>2
    <2> QED
      BY <1>2, <1>3, <2>1, UnitParts
  <1> QED
    BY <1>2, <1>4, <1>5, <1>t

\* A reader gets the object that was written.
LEMMA CanonicalRoundTrip ==
    ASSUME NEW obj, IsObject(obj), \A k \in DOMAIN obj : obj[k] \in Seq(CodePoints)
    PROVE  parse_json(canonical(obj)) = obj
  <1>n. PICK n, names : n = Cardinality(DOMAIN obj) /\ names = SortedNames(obj)
    OBVIOUS
  <1>t. PICK t : t = canonical(obj)
    OBVIOUS
  <1>1. IsTextOf(t, obj, n, names)
    BY <1>n, <1>t, CanonicalText, Zenon
  <1>2. /\ n \in Nat /\ names \in [1 .. n -> DOMAIN obj] /\ IsSeq(t) /\ Len(t) = n + 2
        /\ \A i, j \in 1 .. n : names[i] = names[j] => i = j
        /\ \A k \in DOMAIN obj : \E i \in 1 .. n : names[i] = k
        /\ \A i \in 1 .. n : /\ t[1 + i][2] = names[i]
                             /\ t[1 + i][3] = encode_string_ascii(obj[names[i]])
    BY <1>1, UnitParts DEF IsTextOf
  <1>m. PICK ms : ms = SubSeq(t, 2, Len(t) - 1)
    OBVIOUS
  <1>3. IsSeq(ms) /\ Len(ms) = n /\ \A i \in 1 .. n : ms[i] = t[1 + i]
    <2>1. /\ Len(t) - 1 = n + 1 /\ 2 \in Nat /\ n + 1 \in Nat /\ 2 >= 1 /\ n + 1 <= Len(t)
          /\ 2 <= (n + 1) + 1 /\ (n + 1) + 1 - 2 = n /\ \A i \in 1 .. n : 2 + i - 1 = 1 + i
      BY <1>2
    <2>2. ms = SubSeq(t, 2, n + 1)
      BY <1>m, <2>1
    <2>3. /\ IsSeq(ms) /\ Len(ms) = (n + 1) + 1 - 2
          /\ \A i \in 1 .. (n + 1) + 1 - 2 : ms[i] = t[2 + i - 1]
      BY <1>2, <2>1, <2>2, Piece
    <2> QED
      BY <2>1, <2>3
  <1>4. DOMAIN ms = 1 .. n
    BY <1>3 DEF IsSeq
  <1>5. \A i \in 1 .. n : /\ ms[i][2] = names[i]
                          /\ ms[i][3] = encode_string_ascii(obj[names[i]])
    BY <1>2, <1>3
  <1>6. ASSUME NEW k \in DOMAIN obj
        PROVE  last_of(ms, k) \in 1 .. n /\ names[last_of(ms, k)] = k
    <2>1. PICK i \in 1 .. n : names[i] = k
      BY <1>2
    <2>2. \A j \in DOMAIN ms : ms[j][2] = k => j <= i
      <3> SUFFICES ASSUME NEW j \in 1 .. n, ms[j][2] = k PROVE j <= i
        BY <1>4
      <3>1. j = i
        BY <1>2, <1>5, <2>1
      <3> QED
        BY <3>1
    <2>3. i \in DOMAIN ms /\ ms[i][2] = k
      BY <1>4, <1>5, <2>1
    <2>4. last_of(ms, k) \in DOMAIN ms /\ ms[last_of(ms, k)][2] = k
      BY <2>2, <2>3, Zenon DEF last_of
    <2> QED
      BY <1>4, <1>5, <2>4
  <1>7. {ms[i][2] : i \in DOMAIN ms} = DOMAIN obj
    <2>1. \A i \in DOMAIN ms : ms[i][2] \in DOMAIN obj
      BY <1>2, <1>4, <1>5
    <2>2. \A k \in DOMAIN obj : \E i \in DOMAIN ms : ms[i][2] = k
      <3> TAKE k \in DOMAIN obj
      <3>1. PICK i \in 1 .. n : names[i] = k
        BY <1>2
      <3>2. i \in DOMAIN ms /\ ms[i][2] = k
        BY <1>4, <1>5, <3>1
      <3> QED
        BY <3>2
    <2> QED
      BY <2>1, <2>2
  <1>8. parse_json(t) = [k \in DOMAIN obj |-> parse_string(ms[last_of(ms, k)][3])]
    BY <1>m, <1>7, Zenon DEF parse_json
  <1>9. \A k \in DOMAIN obj : parse_string(ms[last_of(ms, k)][3]) = obj[k]
    BY <1>5, <1>6, EncodedReadBack
  <1>10. parse_json(t) = [k \in DOMAIN obj |-> obj[k]]
    BY <1>8, <1>9
  <1> QED
    BY <1>t, <1>10 DEF IsObject

-----------------------------------------------------------------------------
(* Envelopes written and read.                                             *)

\* Headers and metadata are objects whose texts fit.
LEMMA Objects ==
    ASSUME NEW obj \in Headers \cup Metas
    PROVE  /\ IsObject(obj)
           /\ IsSeq(canonical(obj)) /\ IsJson(canonical(obj))
           /\ ~ Has(canonical(obj), "box")
           /\ Len(canonical(obj)) \in Nat
           /\ 1 + Len(canonical(obj)) < UsizeMod
  <1>1. IsObject(obj)
    BY TextsAssumption DEF IsObject
  <1>2. /\ IsSeq(canonical(obj)) /\ IsJson(canonical(obj))
        /\ ~ Has(canonical(obj), "box")
    BY <1>1, ObjectText
  <1>3. Len(canonical(obj)) \in Nat
    BY <1>2 DEF IsSeq
  <1>4. 1 + Len(canonical(obj)) < UsizeMod
    BY TextsAssumption DEF LEN_PREFIX
  <1> QED
    BY <1>1, <1>2, <1>3, <1>4

\* They are read as they were written.
LEMMA ObjectsRead ==
    ASSUME NEW obj \in Headers \cup Metas
    PROVE  parse_json(canonical(obj)) = obj
  <1>1. \A k \in DOMAIN obj : obj[k] \in Seq(CodePoints)
    BY TextsAssumption
  <1> QED
    BY <1>1, Objects, CanonicalRoundTrip

\* What others provide are texts too.
LEMMA OtherTexts ==
    /\ \A text \in Contents \cup ForeignRoutes \cup ForeignInners : IsSeq(text)
    /\ \A route \in ForeignRoutes : ~ Has(route, "box")
  <1>1. ASSUME NEW text \in Contents \cup ForeignRoutes \cup ForeignInners
        PROVE  IsSeq(text)
    <2>1. text \in Seq({text[i] : i \in DOMAIN text})
      BY TextsAssumption
    <2> QED
      BY <2>1 DEF IsSeq
  <1>2. ASSUME NEW route \in ForeignRoutes, NEW i \in 1 .. Len(route)
        PROVE  route[i][1] # "box"
    <2>1. IsJson(route) /\ IsSeq(route)
      BY <1>1, TextsAssumption
    <2>2. Len(route) \in Nat /\ Head(route) = route[1]
      BY <2>1 DEF IsSeq
    <2>3. i = 1 \/ i = Len(route) \/ i \in 2 .. Len(route) - 1
      BY <2>2
    <2>4. CASE i = 1
      BY <2>1, <2>2, <2>4, UnitParts DEF IsJson
    <2>5. CASE i = Len(route)
      BY <2>1, <2>5, UnitParts DEF IsJson, Last
    <2>6. CASE i \in 2 .. Len(route) - 1
      BY <2>1, <2>6 DEF IsJson
    <2> QED
      BY <2>3, <2>4, <2>5, <2>6
  <1> QED
    BY <1>1, <1>2 DEF Has

\* A reader cuts where the writer joined.
LEMMA ReadCut ==
    ASSUME NEW t, NEW a, NEW b, IsCut(t, Length(Len(a)), a, b)
    PROVE  /\ header_end(t) = 1 + Len(a) /\ route_of(t) = a /\ sealed_of(t) = b
           /\ 1 + Len(a) < UsizeMod => splits(t)
  <1>1. header_end(t) = 1 + Len(a)
    BY DEF IsCut, header_end, Length, LEN_PREFIX
  <1>2. route_of(t) = a
    <2>1. LEN_PREFIX + 1 = 2
      BY DEF LEN_PREFIX
    <2> QED
      BY <1>1, <2>1, Zenon DEF IsCut, route_of
  <1>3. sealed_of(t) = b
    BY <1>1, Zenon DEF IsCut, sealed_of
  <1>4. LEN_PREFIX <= Len(t) /\ 1 + Len(a) <= Len(t) /\ Len(t) \in Nat
    BY DEF IsCut, LEN_PREFIX
  <1> QED
    BY <1>1, <1>2, <1>3, <1>4 DEF splits, LEN_PREFIX

\* The sealed part of an envelope.
BoxOf(route, inner, to, n) ==
    <<"box", derive_wrap_key(hybrid_encap(to, n).shared, build_aad(route)), n,
      build_aad(route), inner>>

SealedPart(route, inner, to, n) ==
    <<hybrid_encap(to, n).ct, <<"nonce", n>>, BoxOf(route, inner, to, n)>>

\* Its three units.
LEMMA SealedParts ==
    ASSUME NEW route, NEW inner, NEW to, NEW n
    PROVE  LET z == SealedPart(route, inner, to, n)
           IN  /\ IsSeq(z) /\ Len(z) = 3
               /\ z[1] = <<"ct", n, <<n, to>>>> /\ z[2] = <<"nonce", n>>
               /\ z[3] = BoxOf(route, inner, to, n)
               /\ \A i \in 1 .. 3 : z[i][1] = "box" => z[i] = BoxOf(route, inner, to, n)
  <1>x. PICK x : x = BoxOf(route, inner, to, n)
    OBVIOUS
  <1>z. PICK z : z = SealedPart(route, inner, to, n)
    OBVIOUS
  <1>1. z = <<<<"ct", n, <<n, to>>>>, <<"nonce", n>>, x>>
    BY <1>x, <1>z DEF SealedPart, hybrid_encap
  <1>2. z \in Seq({<<"ct", n, <<n, to>>>>, <<"nonce", n>>, x})
    BY <1>1
  <1>3. \A i \in 1 .. 3 : z[i][1] = "box" => z[i] = x
    <2> TAKE i \in 1 .. 3
    <2>1. i = 1 \/ i = 2 \/ i = 3
      OBVIOUS
    <2> QED
      BY <1>1, <2>1
  <1>4. IsSeq(z) /\ Len(z) = 3 /\ z[1] = <<"ct", n, <<n, to>>>> /\ z[2] = <<"nonce", n>> /\ z[3] = x
    BY <1>1, <1>2 DEF IsSeq
  <1> QED
    BY <1>x, <1>z, <1>3, <1>4

\* An envelope as it is sealed.
LEMMA SealedEnvelope ==
    ASSUME NEW route, NEW inner, NEW to, NEW n, IsSeq(route)
    PROVE  IsCut(seal_inner(route, inner, to, n), Length(Len(route)), route,
                 SealedPart(route, inner, to, n))
  <1>1. IsSeq(SealedPart(route, inner, to, n))
    BY SealedParts
  <1>2. seal_inner(route, inner, to, n)
          = <<Length(Len(route))>> \o route \o SealedPart(route, inner, to, n)
    BY DEF seal_inner, SealedPart, BoxOf
  <1> QED
    BY <1>1, <1>2, Cut, Zenon

\* The inner plaintext, cut where it was joined: the sum does not wrap.
LEMMA InnerParts ==
    ASSUME NEW meta \in Metas, NEW content \in Contents
    PROVE  LET inner == inner_of(meta, content)
           IN  /\ inner_fits(inner) /\ ~ (meta_end(inner) < LEN_PREFIX)
               /\ SubSeq(inner, LEN_PREFIX + 1, meta_end(inner)) = canonical(meta)
               /\ SubSeq(inner, meta_end(inner) + 1, Len(inner)) = content
  <1>a. PICK a : a = canonical(meta)
    OBVIOUS
  <1>t. PICK inner : inner = inner_of(meta, content)
    OBVIOUS
  <1>1. IsSeq(a) /\ IsSeq(content) /\ 1 + Len(a) < UsizeMod
    BY <1>a, Objects, OtherTexts
  <1>2. IsCut(inner, Length(Len(a)), a, content)
    BY <1>a, <1>t, <1>1, Cut, Zenon DEF inner_of
  <1>p. PICK p \in Nat : p = Len(a)
    BY <1>2 DEF IsCut
  <1>q. PICK q \in Nat : q = Len(content)
    BY <1>2 DEF IsCut
  <1>3. inner[1][2] = p /\ Len(inner) = 1 + p + q
    BY <1>2, <1>p, <1>q DEF IsCut, Length
  <1>4. meta_end(inner) = 1 + p
    <2>1. (LEN_PREFIX + p) % UsizeMod = 1 + p
      <3>1. 1 + p \in 0 .. UsizeMod - 1 /\ UsizeMod \in Nat /\ UsizeMod > 0
        BY <1>1, <1>p, RouteAssumption
      <3>2. \A k \in 0 .. UsizeMod - 1 : k % UsizeMod = k
        BY <3>1
      <3> QED
        BY <3>1, <3>2 DEF LEN_PREFIX
    <2> QED
      BY <1>3, <2>1 DEF meta_end
  <1>5. inner_fits(inner) /\ ~ (meta_end(inner) < LEN_PREFIX)
    BY <1>3, <1>4 DEF inner_fits, LEN_PREFIX
  <1>6. LEN_PREFIX + 1 = 2
    BY DEF LEN_PREFIX
  <1>7. SubSeq(inner, 2, 1 + p) = a /\ SubSeq(inner, 1 + p + 1, Len(inner)) = content
    BY <1>2, <1>p, Zenon DEF IsCut
  <1>8. /\ SubSeq(inner, LEN_PREFIX + 1, meta_end(inner)) = a
        /\ SubSeq(inner, meta_end(inner) + 1, Len(inner)) = content
    BY <1>4, <1>6, <1>7, Zenon
  <1> QED
    BY <1>a, <1>t, <1>5, <1>8, Zenon

\* A secret that was got names the encapsulation and its key pair.
LEMMA KemNames ==
    ASSUME NEW to, NEW n, NEW priv, NEW ct,
           hybrid_decap(ct, priv) = hybrid_encap(to, n).shared
    PROVE  ct[2] = n /\ priv = to
  <1>1. hybrid_decap(ct, priv) = <<<<"x", n, to>>, <<"ml", n, to>>>>
    BY DEF hybrid_encap, combine
  <1>2. hybrid_decap(ct, priv) # Noise
    BY <1>1 DEF Noise
  <1>3. PICK y : hybrid_decap(ct, priv) = <<<<"x", ct[2], priv>>, y>>
    BY <1>2 DEF hybrid_decap, combine
  <1> QED
    BY <1>1, <1>3

\* The key pair of an encapsulation gets its secret.
LEMMA KemOpens ==
    ASSUME NEW to, NEW n, NEW ct, ct = <<"ct", n, <<n, to>>>>
    PROVE  hybrid_decap(ct, to) = hybrid_encap(to, n).shared
  <1>1. hybrid_encap(to, n).shared = <<<<"x", n, to>>, <<"ml", n, to>>>>
    BY DEF hybrid_encap, combine
  <1>2. <<n, to>> # Noise
    BY DEF Noise
  <1>3. ct[1] = "ct" /\ ct[2] = n /\ ct[3] = <<n, to>> /\ <<n, to>>[2] = to /\ <<n, to>>[1] = n
    OBVIOUS
  <1>4. hybrid_decap(ct, to) = <<<<"x", n, to>>, <<"ml", n, to>>>>
    BY <1>2, <1>3 DEF hybrid_decap, combine
  <1> QED
    BY <1>1, <1>4

\* A box that decrypts: its header, its key pair, its number.
LEMMA Decrypted ==
    ASSUME NEW blob, NEW priv, NEW route, NEW inner, NEW to, NEW n,
           sealed_of(blob)[3] = BoxOf(route, inner, to, n),
           decrypts(blob, priv)
    PROVE  /\ route_of(blob) = route /\ priv = to /\ sealed_of(blob)[1][2] = n
           /\ inner_in(blob) = inner
  <1>s. PICK z : z = sealed_of(blob)
    OBVIOUS
  <1>r. PICK r : r = route_of(blob)
    OBVIOUS
  <1>d. PICK d : d = hybrid_decap(z[1], priv)
    OBVIOUS
  <1>e. PICK e : e = hybrid_encap(to, n).shared
    OBVIOUS
  <1>1. z[3] = <<"box", <<e, <<"pqroute1", route>>>>, n, <<"pqroute1", route>>, inner>>
    BY <1>s, <1>e DEF BoxOf, derive_wrap_key, build_aad
  <1>2. z[3][2] = <<d, <<"pqroute1", r>>>>
    BY <1>s, <1>r, <1>d DEF decrypts, derive_wrap_key, build_aad
  <1>3. <<e, <<"pqroute1", route>>>> = <<d, <<"pqroute1", r>>>>
    BY <1>1, <1>2
  <1>4. e = d /\ route = r
    BY <1>3
  <1>c. PICK ct : ct = z[1]
    OBVIOUS
  <1>5. ct[2] = n /\ priv = to
    <2>1. hybrid_decap(ct, priv) = hybrid_encap(to, n).shared
      BY <1>4, <1>c, <1>d, <1>e
    <2> QED
      BY <2>1, KemNames
  <1>6. inner_in(blob) = inner
    BY <1>s, <1>1 DEF inner_in
  <1> QED
    BY <1>c, <1>s, <1>r, <1>4, <1>5, <1>6

\* An envelope as it is sealed decrypts.
LEMMA SealedDecrypts ==
    ASSUME NEW blob, NEW route, NEW inner, NEW to, NEW n, IsSeq(route),
           route_of(blob) = route, sealed_of(blob) = SealedPart(route, inner, to, n)
    PROVE  decrypts(blob, to) /\ inner_in(blob) = inner
  <1>s. PICK z : z = sealed_of(blob)
    OBVIOUS
  <1>1. /\ Len(z) = 3
        /\ z[1] = <<"ct", n, <<n, to>>>> /\ z[2] = <<"nonce", n>>
        /\ z[3] = BoxOf(route, inner, to, n)
    BY <1>s, SealedParts
  <1>e. PICK e : e = hybrid_encap(to, n).shared
    OBVIOUS
  <1>2. hybrid_decap(z[1], to) = e
    BY <1>1, <1>e, KemOpens
  <1>k. PICK k, aad : k = derive_wrap_key(e, aad) /\ aad = build_aad(route)
    OBVIOUS
  <1>3. z[3] = <<"box", k, n, aad, inner>>
    BY <1>1, <1>e, <1>k DEF BoxOf
  <1>4. z[2][1] = "nonce" /\ z[2][2] = n
    BY <1>1
  <1>5. z[3][1] = "box" /\ z[3][2] = k /\ z[3][3] = n /\ z[3][4] = aad /\ z[3][5] = inner
    BY <1>3
  <1> QED
    BY <1>s, <1>1, <1>2, <1>k, <1>4, <1>5 DEF decrypts, inner_in

\* An envelope as it is sealed, or one put back together: the relay reads its
\* header, its destination opens it, and nobody else.
LEMMA WholeOpens ==
    ASSUME NEW meta \in Metas, NEW content \in Contents, NEW to \in Dests, NEW hdr \in Headers,
           NEW n, NEW blob,
           IsCut(blob, Length(Len(canonical(hdr))), canonical(hdr),
                 SealedPart(canonical(hdr), inner_of(meta, content), to, n))
    PROVE  /\ read_route_header(blob) = hdr
           /\ \A d \in Dests : (open_routed(blob, d) = "Ok") <=> (d = to)
           /\ opened_routed(blob) = [hdr |-> hdr, meta |-> meta, content |-> content]
  <1>a. PICK a : a = canonical(hdr)
    OBVIOUS
  <1>i. PICK inner : inner = inner_of(meta, content)
    OBVIOUS
  <1>z. PICK z : z = SealedPart(a, inner, to, n)
    OBVIOUS
  <1>0. IsCut(blob, Length(Len(a)), a, z)
    BY <1>a, <1>i, <1>z
  <1>1. IsSeq(a) /\ IsJson(a) /\ 1 + Len(a) < UsizeMod
    BY <1>a, Objects
  <1>2. header_end(blob) = 1 + Len(a) /\ route_of(blob) = a /\ sealed_of(blob) = z /\ splits(blob)
    BY <1>0, <1>1, ReadCut
  <1>3. Len(z) = 3 /\ z[3] = BoxOf(a, inner, to, n)
    BY <1>z, SealedParts
  <1>4. well_formed(blob)
    BY <1>1, <1>2, <1>3 DEF well_formed, SEALED_MIN_LEN
  <1>5. decrypts(blob, to) /\ inner_in(blob) = inner
    BY <1>1, <1>2, <1>z, SealedDecrypts
  <1>6. \A d : decrypts(blob, d) => d = to
    BY <1>2, <1>3, Decrypted
  <1>7. /\ inner_fits(inner) /\ ~ (meta_end(inner) < LEN_PREFIX)
        /\ SubSeq(inner, LEN_PREFIX + 1, meta_end(inner)) = canonical(meta)
        /\ SubSeq(inner, meta_end(inner) + 1, Len(inner)) = content
    BY <1>i, InnerParts, Zenon
  <1>8. IsJson(canonical(meta)) /\ parse_json(canonical(meta)) = meta
    BY Objects, ObjectsRead
  <1>9. read_route_header(blob) = hdr
    BY <1>a, <1>2, ObjectsRead DEF read_route_header
  <1>10. ASSUME NEW d \in Dests PROVE (open_routed(blob, d) = "Ok") <=> (d = to)
    <2>1. d # BadKey
      BY RouteAssumption
    <2>2. CASE d = to
      BY <1>4, <1>5, <1>7, <1>8, <2>1, <2>2 DEF open_routed
    <2>3. CASE d # to
      BY <1>4, <1>6, <2>3 DEF open_routed
    <2> QED
      BY <2>2, <2>3
  <1>11. opened_routed(blob) = [hdr |-> hdr, meta |-> meta, content |-> content]
    BY <1>5, <1>7, <1>8, <1>9 DEF opened_routed
  <1> QED
    BY <1>9, <1>10, <1>11

-----------------------------------------------------------------------------
(* What is on its way.                                                     *)

\* A box of an envelope that was sealed here or elsewhere.
Genuine(x, S, F) ==
    \/ \E s \in S : x = BoxOf(canonical(s.hdr), inner_of(s.meta, s.content), s.by, s.n)
    \/ \E f \in F : x = BoxOf(f.route, f.inner, f.by, f.n)

\* However damaged, an envelope starts with a length, and its boxes are genuine.
Enveloped(b, S, F) ==
    /\ IsSeq(b)
    /\ b # << >> => \E k \in Nat : b[1] = Length(k)
    /\ \A i \in 1 .. Len(b) : b[i][1] = "box" => Genuine(b[i], S, F)

SealedRecords == [n : Nat, by : Dests, hdr : Headers, meta : Metas, content : Contents]
ForeignRecords == [n : Nat, by : Dests, route : ForeignRoutes, inner : ForeignInners]

\* Numbers are given once.
NumberInv ==
    /\ sealed \subseteq SealedRecords /\ foreign \subseteq ForeignRecords
    /\ IsFiniteSet(sealed) /\ IsFiniteSet(foreign)
    /\ \A s \in sealed \cup foreign : s.n < Seals
    /\ \A s, t \in sealed : s.n = t.n => s = t
    /\ \A s, t \in foreign : s.n = t.n => s = t
    /\ \A s \in sealed, t \in foreign : s.n # t.n

NetInv == \A b \in net : Enveloped(b, sealed, foreign)

RouteInv == NumberInv /\ NetInv

\* More envelopes do not make a box less genuine.
LEMMA EnvelopedGrows ==
    ASSUME NEW b, NEW S, NEW F, NEW S2, NEW F2, S \subseteq S2, F \subseteq F2, Enveloped(b, S, F)
    PROVE  Enveloped(b, S2, F2)
  <1>1. \A x : Genuine(x, S, F) => Genuine(x, S2, F2)
    BY DEF Genuine
  <1> QED
    BY <1>1, Zenon DEF Enveloped

\* A text put together from a length, a text without boxes and one with genuine
\* boxes only.
LEMMA EnvelopedCut ==
    ASSUME NEW t, NEW a, NEW b, NEW S, NEW F, IsCut(t, Length(Len(a)), a, b),
           ~ Has(a, "box"),
           \A i \in 1 .. Len(b) : b[i][1] = "box" => Genuine(b[i], S, F)
    PROVE  Enveloped(t, S, F)
  <1>1. IsSeq(t) /\ t[1] = Length(Len(a)) /\ Len(a) \in Nat
    BY DEF IsCut
  <1>2. ASSUME NEW i \in 1 .. Len(t), t[i][1] = "box" PROVE Genuine(t[i], S, F)
    <2>1. t[i] # Length(Len(a))
      BY <1>2 DEF Length
    <2>2. ~ \E j \in 1 .. Len(a) : t[i] = a[j]
      BY <1>2, Zenon DEF Has
    <2>3. PICK j \in 1 .. Len(b) : t[i] = b[j]
      BY <2>1, <2>2, Zenon DEF IsCut
    <2> QED
      BY <1>2, <2>3, Zenon
  <1> QED
    BY <1>1, <1>2 DEF Enveloped

\* What the transport makes of an envelope.
LEMMA EnvelopedDamaged ==
    ASSUME NEW blob, NEW S, NEW F, Enveloped(blob, S, F), blob # << >>,
           NEW b \in DamagedForms(blob)
    PROVE  Enveloped(b, S, F)
  <1>1. PICK U : blob \in Seq(U)
    BY DEF Enveloped, IsSeq
  <1>2. PICK m \in Nat : m = Len(blob) /\ m >= 1 /\ DOMAIN blob = 1 .. m
    BY <1>1
  <1>3. Noise[1] # "box" /\ \A k : Length(k)[1] # "box"
    BY DEF Noise, Length
  <1>4. ASSUME NEW k \in Lengths, b = [blob EXCEPT ![1] = Length(k)]
        PROVE  Enveloped(b, S, F)
    <2>1. b \in Seq(U \cup {Length(k)}) /\ Len(b) = m
      BY <1>1, <1>2, <1>4
    <2>2. b[1] = Length(k) /\ \A i \in 1 .. m : i # 1 => b[i] = blob[i]
      BY <1>2, <1>4
    <2>3. k \in Nat
      BY RouteAssumption
    <2>4. \A i \in 1 .. m : b[i][1] = "box" => Genuine(b[i], S, F)
      <3> TAKE i \in 1 .. m
      <3>1. CASE i = 1
        BY <1>3, <2>2, <3>1
      <3>2. CASE i # 1
        BY <1>2, <2>2, <3>2, Zenon DEF Enveloped
      <3> QED
        BY <3>1, <3>2
    <2> QED
      BY <2>1, <2>2, <2>3, <2>4 DEF Enveloped, IsSeq
  <1>5. ASSUME NEW j \in 2 .. Len(blob), b = [blob EXCEPT ![j] = Noise]
        PROVE  Enveloped(b, S, F)
    <2>1. b \in Seq(U \cup {Noise}) /\ Len(b) = m
      BY <1>1, <1>2, <1>5
    <2>2. b[j] = Noise /\ (\A i \in 1 .. m : i # j => b[i] = blob[i]) /\ b[1] = blob[1]
      BY <1>2, <1>5
    <2>3. \A i \in 1 .. m : b[i][1] = "box" => Genuine(b[i], S, F)
      <3> TAKE i \in 1 .. m
      <3>1. CASE i = j
        BY <1>3, <2>2, <3>1
      <3>2. CASE i # j
        BY <1>2, <2>2, <3>2, Zenon DEF Enveloped
      <3> QED
        BY <3>1, <3>2
    <2> QED
      BY <2>1, <2>2, <2>3 DEF Enveloped, IsSeq
  <1>6. CASE b = Front(blob)
    <2>1. m - 1 \in Nat /\ 1 \in Nat /\ 1 >= 1 /\ m - 1 <= Len(blob) /\ 1 <= (m - 1) + 1 /\ (m - 1) + 1 - 1 = m - 1
          /\ \A i \in 1 .. m - 1 : 1 + i - 1 = i /\ i \in 1 .. m
      BY <1>2
    <2>2. b = SubSeq(blob, 1, m - 1)
      BY <1>2, <1>6 DEF Front
    <2>3. /\ IsSeq(b) /\ Len(b) = (m - 1) + 1 - 1
          /\ \A i \in 1 .. (m - 1) + 1 - 1 : b[i] = blob[1 + i - 1]
      BY <2>1, <2>2, Piece DEF Enveloped
    <2>4. Len(b) = m - 1 /\ \A i \in 1 .. m - 1 : b[i] = blob[i]
      BY <2>1, <2>3
    <2>5. \A i \in 1 .. m - 1 : b[i][1] = "box" => Genuine(b[i], S, F)
      BY <1>2, <2>1, <2>4, Zenon DEF Enveloped
    <2>6. b # << >> => b[1] = blob[1]
      <3> SUFFICES ASSUME b # << >> PROVE b[1] = blob[1]
        OBVIOUS
      <3>1. Len(b) # 0
        BY <2>3 DEF IsSeq
      <3> QED
        BY <1>2, <2>4, <3>1
    <2> QED
      BY <2>3, <2>4, <2>5, <2>6 DEF Enveloped
  <1>7. CASE b = Append(blob, Noise)
    <2>1. b \in Seq(U \cup {Noise}) /\ Len(b) = m + 1
      BY <1>1, <1>2, <1>7
    <2>2. b[m + 1] = Noise /\ (\A i \in 1 .. m : b[i] = blob[i]) /\ b[1] = blob[1]
      BY <1>1, <1>2, <1>7
    <2>3. \A i \in 1 .. m + 1 : b[i][1] = "box" => Genuine(b[i], S, F)
      <3> TAKE i \in 1 .. m + 1
      <3>1. CASE i = m + 1
        BY <1>3, <2>2, <3>1
      <3>2. CASE i # m + 1
        <4>1. i \in 1 .. m
          BY <3>2
        <4> QED
          BY <1>2, <2>2, <4>1, Zenon DEF Enveloped
      <3> QED
        BY <3>1, <3>2
    <2> QED
      BY <2>1, <2>2, <2>3 DEF Enveloped, IsSeq
  <1> QED
    BY <1>4, <1>5, <1>6, <1>7 DEF DamagedForms

\* The sealed part of an envelope that splits is a piece of it.
LEMMA SealedPiece ==
    ASSUME NEW blob, NEW S, NEW F, Enveloped(blob, S, F), splits(blob),
           NEW z, z = sealed_of(blob)
    PROVE  IsSeq(z) /\ \A i \in 1 .. Len(z) : \E j \in 1 .. Len(blob) : z[i] = blob[j]
  <1>1. PICK m \in Nat : m = Len(blob)
    BY DEF Enveloped, IsSeq
  <1>2. m >= 1 /\ blob # << >>
    BY <1>1 DEF splits, LEN_PREFIX
  <1>3. PICK h \in Nat : h = header_end(blob)
    <2>1. PICK k \in Nat : blob[1] = Length(k)
      BY <1>2 DEF Enveloped
    <2> QED
      BY <2>1 DEF header_end, Length, LEN_PREFIX
  <1>4. h <= m
    BY <1>1, <1>3 DEF splits
  <1>5. z = SubSeq(blob, h + 1, m)
    BY <1>1, <1>3 DEF sealed_of
  <1>6. /\ IsSeq(z) /\ Len(z) = m + 1 - (h + 1)
        /\ \A i \in 1 .. m + 1 - (h + 1) : z[i] = blob[h + 1 + i - 1]
    <2>1. h + 1 \in Nat /\ h + 1 >= 1 /\ m <= Len(blob) /\ h + 1 <= m + 1
      BY <1>1, <1>4
    <2> QED
      BY <1>5, <2>1, Piece DEF Enveloped
  <1>7. \A i \in 1 .. Len(z) : \E j \in 1 .. Len(blob) : z[i] = blob[j]
    <2> TAKE i \in 1 .. Len(z)
    <2>1. i \in 1 .. m + 1 - (h + 1)
      BY <1>6
    <2>2. h + 1 + i - 1 \in 1 .. m
      BY <1>4, <2>1
    <2> QED
      BY <1>1, <1>6, <2>1, <2>2, Zenon
  <1> QED
    BY <1>6, <1>7

\* What a relay makes of one.
LEMMA EnvelopedRewritten ==
    ASSUME NEW blob, NEW S, NEW F, Enveloped(blob, S, F), splits(blob), NEW hdr \in Headers
    PROVE  Enveloped(replace_route_header(blob, hdr), S, F)
  <1>z. PICK z : z = sealed_of(blob)
    OBVIOUS
  <1>1. IsSeq(z) /\ \A i \in 1 .. Len(z) : \E j \in 1 .. Len(blob) : z[i] = blob[j]
    BY <1>z, SealedPiece
  <1>2. \A i \in 1 .. Len(z) : z[i][1] = "box" => Genuine(z[i], S, F)
    BY <1>1, Zenon DEF Enveloped
  <1>a. PICK a : a = canonical(hdr)
    OBVIOUS
  <1>3. IsSeq(a) /\ ~ Has(a, "box")
    BY <1>a, Objects
  <1>4. IsCut(replace_route_header(blob, hdr), Length(Len(a)), a, z)
    BY <1>1, <1>3, <1>a, <1>z, Cut, Zenon DEF replace_route_header
  <1> QED
    BY <1>2, <1>3, <1>4, EnvelopedCut

\* What is sealed.
LEMMA EnvelopedSealed ==
    ASSUME NEW route, NEW inner, NEW to, NEW n, NEW S, NEW F, IsSeq(route), ~ Has(route, "box"),
           Genuine(BoxOf(route, inner, to, n), S, F)
    PROVE  Enveloped(seal_inner(route, inner, to, n), S, F)
  <1>z. PICK z : z = SealedPart(route, inner, to, n)
    OBVIOUS
  <1>x. PICK x : x = BoxOf(route, inner, to, n)
    OBVIOUS
  <1>1. Len(z) = 3 /\ \A i \in 1 .. 3 : z[i][1] = "box" => z[i] = x
    BY <1>z, <1>x, SealedParts
  <1>2. \A i \in 1 .. Len(z) : z[i][1] = "box" => Genuine(z[i], S, F)
    BY <1>1, <1>x, Zenon
  <1>3. IsCut(seal_inner(route, inner, to, n), Length(Len(route)), route, z)
    BY <1>z, SealedEnvelope, Zenon
  <1> QED
    BY <1>2, <1>3, EnvelopedCut

-----------------------------------------------------------------------------
(* The invariant.                                                          *)

\* Sealing takes the next number.
LEMMA NumbersAdvance ==
    ASSUME NumberInv
    PROVE  /\ Seals \in Nat
           /\ \A r : r.n = Seals /\ r \in SealedRecords =>
                Cardinality(sealed \cup {r}) + Cardinality(foreign) = Seals + 1
           /\ \A r : r.n = Seals /\ r \in ForeignRecords =>
                Cardinality(sealed) + Cardinality(foreign \cup {r}) = Seals + 1
  <1>1. IsFiniteSet(sealed) /\ IsFiniteSet(foreign)
    BY DEF NumberInv
  <1>2. Cardinality(sealed) \in Nat /\ Cardinality(foreign) \in Nat
    BY <1>1, FS_CardinalityType
  <1>3. Seals \in Nat
    BY <1>2 DEF Seals
  <1>4. ASSUME NEW r, r.n = Seals PROVE r \notin sealed /\ r \notin foreign
    <2> SUFFICES ASSUME r \in sealed \cup foreign PROVE FALSE
      OBVIOUS
    <2>1. r.n < Seals
      BY DEF NumberInv
    <2> QED
      BY <1>3, <1>4, <2>1
  <1>5. ASSUME NEW r, r \notin sealed
        PROVE  Cardinality(sealed \cup {r}) = Cardinality(sealed) + 1
    BY <1>1, <1>5, FS_AddElement
  <1>6. ASSUME NEW r, r \notin foreign
        PROVE  Cardinality(foreign \cup {r}) = Cardinality(foreign) + 1
    BY <1>1, <1>6, FS_AddElement
  <1> QED
    BY <1>2, <1>3, <1>4, <1>5, <1>6 DEF Seals

\* Nothing is sealed or sent at first.
LEMMA RouteInvInit ==
    ASSUME Init
    PROVE  RouteInv
  <1>1. IsFiniteSet({})
    BY FS_EmptySet
  <1> QED
    BY <1>1 DEF Init, RouteInv, NumberInv, NetInv

\* Sealing: the envelope's box is genuine, its number is new.
LEMMA RouteInvSeal ==
    ASSUME RouteInv, NEW meta \in Metas, NEW content \in Contents, NEW to \in Dests,
           NEW hdr \in Headers, Seal(meta, content, to, hdr)
    PROVE  RouteInv'
  <1>n. PICK n \in Nat : n = Seals
    BY NumbersAdvance DEF RouteInv
  <1>r. PICK r : r = [n |-> n, by |-> to, hdr |-> hdr, meta |-> meta, content |-> content]
    OBVIOUS
  <1>1. /\ r \in SealedRecords /\ r.n = n /\ r.by = to /\ r.hdr = hdr /\ r.meta = meta
        /\ r.content = content
    BY <1>n, <1>r DEF SealedRecords
  <1>2. /\ sealed' = sealed \cup {r} /\ foreign' = foreign
        /\ net' = net \cup {seal_routed(meta, content, to, hdr, n)}
    BY <1>n, <1>r DEF Seal
  <1>3. Seals' = n + 1
    BY <1>n, <1>1, <1>2, NumbersAdvance DEF RouteInv, Seals
  <1>4. NumberInv'
    <2>1. sealed' \subseteq SealedRecords /\ foreign' \subseteq ForeignRecords
      BY <1>1, <1>2 DEF RouteInv, NumberInv
    <2>2. IsFiniteSet(sealed') /\ IsFiniteSet(foreign')
      BY <1>2, FS_AddElement DEF RouteInv, NumberInv
    <2>3. \A s \in sealed \cup foreign : s.n \in Nat /\ s.n < n
      BY <1>n DEF RouteInv, NumberInv, SealedRecords, ForeignRecords
    <2>4. \A s \in sealed' \cup foreign' : s.n < Seals'
      BY <1>1, <1>2, <1>3, <2>3
    <2>5. \A s, t \in sealed' : s.n = t.n => s = t
      <3> SUFFICES ASSUME NEW s \in sealed', NEW t \in sealed', s.n = t.n PROVE s = t
        BY Zenon
      <3>1. (s \in sealed \/ s = r) /\ (t \in sealed \/ t = r)
        BY <1>2
      <3>2. \A x \in sealed : x.n # n
        BY <2>3
      <3>3. CASE s \in sealed /\ t \in sealed
        BY <3>3 DEF RouteInv, NumberInv
      <3> QED
        BY <1>1, <3>1, <3>2, <3>3, Zenon
    <2>6. \A s, t \in foreign' : s.n = t.n => s = t
      BY <1>2 DEF RouteInv, NumberInv
    <2>7. \A s \in sealed', t \in foreign' : s.n # t.n
      <3> SUFFICES ASSUME NEW s \in sealed', NEW t \in foreign PROVE s.n # t.n
        BY <1>2
      <3>1. t.n # n
        BY <2>3
      <3> QED
        BY <1>1, <1>2, <3>1 DEF RouteInv, NumberInv
    <2> QED
      BY <2>1, <2>2, <2>4, <2>5, <2>6, <2>7 DEF NumberInv
  <1>5. NetInv'
    <2>a. PICK a, inner : a = canonical(hdr) /\ inner = inner_of(meta, content)
      OBVIOUS
    <2>1. IsSeq(a) /\ ~ Has(a, "box")
      BY <2>a, Objects
    <2>2. Genuine(BoxOf(a, inner, to, n), sealed', foreign')
      <3>1. r \in sealed'
        BY <1>2
      <3>2. BoxOf(a, inner, to, n) = BoxOf(canonical(r.hdr), inner_of(r.meta, r.content), r.by, r.n)
        BY <1>1, <2>a
      <3> QED
        BY <3>1, <3>2, Zenon DEF Genuine
    <2>b. PICK b : b = seal_routed(meta, content, to, hdr, n)
      OBVIOUS
    <2>3. Enveloped(b, sealed', foreign')
      BY <2>a, <2>b, <2>1, <2>2, EnvelopedSealed, Zenon DEF seal_routed
    <2>4. \A x \in net : Enveloped(x, sealed', foreign')
      <3>1. sealed \subseteq sealed' /\ foreign \subseteq foreign'
        BY <1>2
      <3> QED
        BY <3>1, EnvelopedGrows DEF RouteInv, NetInv
    <2>5. \A x \in net' : x \in net \/ x = b
      BY <1>2, <2>b
    <2> QED
      BY <2>3, <2>4, <2>5, Zenon DEF NetInv
  <1> QED
    BY <1>4, <1>5 DEF RouteInv

\* The same when another implementation seals.
LEMMA RouteInvForeignSeal ==
    ASSUME RouteInv, NEW route \in ForeignRoutes, NEW inner \in ForeignInners, NEW to \in Dests,
           ForeignSeal(route, inner, to)
    PROVE  RouteInv'
  <1>n. PICK n \in Nat : n = Seals
    BY NumbersAdvance DEF RouteInv
  <1>r. PICK r : r = [n |-> n, by |-> to, route |-> route, inner |-> inner]
    OBVIOUS
  <1>1. r \in ForeignRecords /\ r.n = n /\ r.by = to /\ r.route = route /\ r.inner = inner
    BY <1>n, <1>r DEF ForeignRecords
  <1>2. /\ foreign' = foreign \cup {r} /\ sealed' = sealed
        /\ net' = net \cup {seal_inner(route, inner, to, n)}
    BY <1>n, <1>r DEF ForeignSeal
  <1>3. Seals' = n + 1
    BY <1>n, <1>1, <1>2, NumbersAdvance DEF RouteInv, Seals
  <1>4. NumberInv'
    <2>1. sealed' \subseteq SealedRecords /\ foreign' \subseteq ForeignRecords
      BY <1>1, <1>2 DEF RouteInv, NumberInv
    <2>2. IsFiniteSet(sealed') /\ IsFiniteSet(foreign')
      BY <1>2, FS_AddElement DEF RouteInv, NumberInv
    <2>3. \A s \in sealed \cup foreign : s.n \in Nat /\ s.n < n
      BY <1>n DEF RouteInv, NumberInv, SealedRecords, ForeignRecords
    <2>4. \A s \in sealed' \cup foreign' : s.n < Seals'
      BY <1>1, <1>2, <1>3, <2>3
    <2>5. \A s, t \in foreign' : s.n = t.n => s = t
      <3> SUFFICES ASSUME NEW s \in foreign', NEW t \in foreign', s.n = t.n PROVE s = t
        BY Zenon
      <3>1. (s \in foreign \/ s = r) /\ (t \in foreign \/ t = r)
        BY <1>2
      <3>2. \A x \in foreign : x.n # n
        BY <2>3
      <3>3. CASE s \in foreign /\ t \in foreign
        BY <3>3 DEF RouteInv, NumberInv
      <3> QED
        BY <1>1, <3>1, <3>2, <3>3, Zenon
    <2>6. \A s, t \in sealed' : s.n = t.n => s = t
      BY <1>2 DEF RouteInv, NumberInv
    <2>7. \A s \in sealed', t \in foreign' : s.n # t.n
      <3> SUFFICES ASSUME NEW s \in sealed, NEW t \in foreign' PROVE s.n # t.n
        BY <1>2
      <3>1. s.n # n
        BY <2>3
      <3> QED
        BY <1>1, <1>2, <3>1 DEF RouteInv, NumberInv
    <2> QED
      BY <2>1, <2>2, <2>4, <2>5, <2>6, <2>7 DEF NumberInv
  <1>5. NetInv'
    <2>1. IsSeq(route) /\ ~ Has(route, "box")
      BY OtherTexts
    <2>2. Genuine(BoxOf(route, inner, to, n), sealed', foreign')
      <3>1. r \in foreign'
        BY <1>2
      <3>2. BoxOf(route, inner, to, n) = BoxOf(r.route, r.inner, r.by, r.n)
        BY <1>1
      <3> QED
        BY <3>1, <3>2, Zenon DEF Genuine
    <2>b. PICK b : b = seal_inner(route, inner, to, n)
      OBVIOUS
    <2>3. Enveloped(b, sealed', foreign')
      BY <2>b, <2>1, <2>2, EnvelopedSealed, Zenon
    <2>4. \A x \in net : Enveloped(x, sealed', foreign')
      <3>1. sealed \subseteq sealed' /\ foreign \subseteq foreign'
        BY <1>2
      <3> QED
        BY <3>1, EnvelopedGrows DEF RouteInv, NetInv
    <2>5. \A x \in net' : x \in net \/ x = b
      BY <1>2, <2>b
    <2> QED
      BY <2>3, <2>4, <2>5, Zenon DEF NetInv
  <1> QED
    BY <1>4, <1>5 DEF RouteInv

\* A relay or the transport changes one envelope.
LEMMA RouteInvChanged ==
    ASSUME RouteInv, UNCHANGED <<sealed, foreign>>, NEW b, Enveloped(b, sealed, foreign),
           net' \subseteq net \cup {b}
    PROVE  RouteInv'
  <1>1. NumberInv'
    <2>1. Seals' = Seals
      BY DEF Seals
    <2> QED
      BY <2>1 DEF RouteInv, NumberInv
  <1>2. NetInv'
    <2>1. \A x \in net' : x \in net \/ x = b
      OBVIOUS
    <2>2. \A x : Enveloped(x, sealed, foreign) => Enveloped(x, sealed', foreign')
      OBVIOUS
    <2> QED
      BY <2>1, <2>2, Zenon DEF RouteInv, NetInv
  <1> QED
    BY <1>1, <1>2 DEF RouteInv

\* Every step keeps the invariant.
LEMMA RouteInvNext ==
    ASSUME RouteInv, [Next]_vars
    PROVE  RouteInv'
  <1>1. ASSUME NEW meta \in Metas, NEW content \in Contents, NEW to \in Dests,
               NEW hdr \in Headers, Seal(meta, content, to, hdr)
        PROVE  RouteInv'
    BY <1>1, RouteInvSeal
  <1>2. ASSUME NEW route \in ForeignRoutes, NEW inner \in ForeignInners, NEW to \in Dests,
               ForeignSeal(route, inner, to)
        PROVE  RouteInv'
    BY <1>2, RouteInvForeignSeal
  <1>3. ASSUME NEW blob \in net, NEW hdr \in Headers, Rewrite(blob, hdr) PROVE RouteInv'
    <2>x. PICK x : x = blob
      OBVIOUS
    <2>b. PICK b : b = replace_route_header(x, hdr)
      OBVIOUS
    <2>1. Enveloped(x, sealed, foreign) /\ splits(x)
      BY <1>3, <2>x DEF RouteInv, NetInv, Rewrite
    <2>2. Enveloped(b, sealed, foreign)
      BY <2>b, <2>1, EnvelopedRewritten, Zenon
    <2>3. net' \subseteq net \cup {b} /\ UNCHANGED <<sealed, foreign>>
      BY <1>3, <2>x, <2>b DEF Rewrite
    <2> QED
      BY <2>2, <2>3, RouteInvChanged
  <1>4. ASSUME NEW blob \in net, Damage(blob) PROVE RouteInv'
    <2>1. PICK b \in DamagedForms(blob) : net' = (net \ {blob}) \cup {b}
      BY <1>4 DEF Damage
    <2>2. Enveloped(blob, sealed, foreign) /\ blob # << >>
      BY <1>4 DEF RouteInv, NetInv, Damage
    <2>3. Enveloped(b, sealed, foreign)
      BY <2>2, EnvelopedDamaged
    <2>4. net' \subseteq net \cup {b} /\ UNCHANGED <<sealed, foreign>>
      BY <1>4, <2>1 DEF Damage
    <2> QED
      BY <2>3, <2>4, RouteInvChanged
  <1>5. ASSUME UNCHANGED <<net, sealed, foreign>> PROVE RouteInv'
    <2>1. Seals' = Seals
      BY <1>5 DEF Seals
    <2> QED
      BY <1>5, <2>1 DEF RouteInv, NumberInv, NetInv
  <1>6. ASSUME NEW d, NEW blob, NEW priv, Open(d, blob, priv) PROVE RouteInv'
    BY <1>5, <1>6 DEF Open
  <1>7. ASSUME UNCHANGED vars PROVE RouteInv'
    BY <1>5, <1>7 DEF vars
  <1> QED
    BY <1>1, <1>2, <1>3, <1>4, <1>6, <1>7 DEF Next

-----------------------------------------------------------------------------
(* What a destination opens.                                               *)

\* What decrypts was sealed, with this header and this inner plaintext, to this
\* key pair, under this number.
LEMMA DecryptedGenuine ==
    ASSUME NEW blob, NEW priv, NEW S, NEW F, Enveloped(blob, S, F), splits(blob),
           decrypts(blob, priv)
    PROVE  \/ \E s \in S : /\ route_of(blob) = canonical(s.hdr) /\ priv = s.by
                           /\ sealed_of(blob)[1][2] = s.n
                           /\ inner_in(blob) = inner_of(s.meta, s.content)
           \/ \E f \in F : /\ route_of(blob) = f.route /\ priv = f.by
                           /\ sealed_of(blob)[1][2] = f.n
                           /\ inner_in(blob) = f.inner
  <1>z. PICK z : z = sealed_of(blob)
    OBVIOUS
  <1>1. \A i \in 1 .. Len(z) : \E j \in 1 .. Len(blob) : z[i] = blob[j]
    BY <1>z, SealedPiece
  <1>2. Len(z) = 3 /\ z[3][1] = "box"
    BY <1>z DEF decrypts
  <1>3. \E j \in 1 .. Len(blob) : z[3] = blob[j]
    <2>1. 3 \in 1 .. Len(z)
      BY <1>2
    <2> QED
      BY <1>1, <2>1, Zenon
  <1>x. PICK x : x = z[3]
    OBVIOUS
  <1>4. Genuine(x, S, F)
    BY <1>2, <1>3, <1>x, Zenon DEF Enveloped
  <1>5. ASSUME NEW route, NEW inner, NEW to, NEW n, x = BoxOf(route, inner, to, n)
         PROVE  /\ route_of(blob) = route /\ priv = to /\ sealed_of(blob)[1][2] = n
                /\ inner_in(blob) = inner
    BY <1>x, <1>z, <1>5, Decrypted
  <1>6. CASE \E s \in S : x = BoxOf(canonical(s.hdr), inner_of(s.meta, s.content), s.by, s.n)
    <2>1. PICK s \in S : x = BoxOf(canonical(s.hdr), inner_of(s.meta, s.content), s.by, s.n)
      BY <1>6
    <2>2. /\ route_of(blob) = canonical(s.hdr) /\ priv = s.by /\ sealed_of(blob)[1][2] = s.n
          /\ inner_in(blob) = inner_of(s.meta, s.content)
      BY <1>5, <2>1, Zenon
    <2> QED
      BY <2>2, Zenon
  <1>7. CASE \E f \in F : x = BoxOf(f.route, f.inner, f.by, f.n)
    <2>1. PICK f \in F : x = BoxOf(f.route, f.inner, f.by, f.n)
      BY <1>7
    <2>2. /\ route_of(blob) = f.route /\ priv = f.by /\ sealed_of(blob)[1][2] = f.n
          /\ inner_in(blob) = f.inner
      BY <1>5, <2>1, Zenon
    <2> QED
      BY <2>2, Zenon
  <1> QED
    BY <1>4, <1>6, <1>7, Zenon DEF Genuine

\* What open_routed returns is what the inner plaintext declares: if the end of the
\* metadata does not fit a usize it wraps around to before its start, and nothing is
\* returned.
LEMMA OpenedAsDeclared ==
    ASSUME NEW blob, NEW priv, NEW inner \in ForeignInners, inner_in(blob) = inner,
           open_routed(blob, priv) = "Ok"
    PROVE  Declares(inner, opened_routed(blob).meta, opened_routed(blob).content)
  <1>e. PICK e : e = meta_end(inner)
    OBVIOUS
  <1>1. Len(inner) >= LEN_PREFIX /\ e <= Len(inner) /\ ~ (e < LEN_PREFIX)
    BY <1>e DEF open_routed, inner_fits
  <1>k. PICK k : k = inner[1][2]
    OBVIOUS
  <1>2. k \in 0 .. UsizeMod - 1
    BY <1>1, <1>k, TextsAssumption
  <1>3. e = (1 + k) % UsizeMod
    BY <1>e, <1>k DEF meta_end, LEN_PREFIX
  <1>4. e = 1 + k
    <2>1. UsizeMod \in Nat /\ UsizeMod > 1
      BY RouteAssumption
    <2>2. CASE k = UsizeMod - 1
      <3>1. 1 + k = UsizeMod
        BY <2>1, <2>2
      <3>2. UsizeMod % UsizeMod = 0
        BY <2>1
      <3> QED
        BY <1>1, <1>3, <3>1, <3>2 DEF LEN_PREFIX
    <2>3. CASE k # UsizeMod - 1
      <3>1. 1 + k \in 0 .. UsizeMod - 1
        BY <1>2, <2>1, <2>3
      <3>2. \A j \in 0 .. UsizeMod - 1 : j % UsizeMod = j
        BY <2>1
      <3> QED
        BY <1>3, <3>1, <3>2
    <2> QED
      BY <2>2, <2>3
  <1>5. LEN_PREFIX + inner[1][2] = meta_end(inner)
    BY <1>e, <1>k, <1>4 DEF LEN_PREFIX
  <1>6. /\ opened_routed(blob).meta = parse_json(SubSeq(inner, LEN_PREFIX + 1, meta_end(inner)))
        /\ opened_routed(blob).content = SubSeq(inner, meta_end(inner) + 1, Len(inner))
    BY DEF opened_routed
  <1> QED
    BY <1>1, <1>e, <1>5, <1>6, Zenon DEF Declares

\* Opening keeps RoutedAsSealed.
LEMMA OpenKeeps ==
    ASSUME RouteInv, RoutedAsSealed, NEW d \in Dests, NEW blob \in net,
           NEW priv \in {d, BadKey}, Open(d, blob, priv)
    PROVE  RoutedAsSealed'
  <1>0. UNCHANGED <<sealed, foreign>>
    BY DEF Open
  <1>1. CASE open_routed(blob, priv) # "Ok"
    <2>1. opened' = opened
      BY <1>1 DEF Open
    <2> QED
      BY <1>0, <2>1 DEF RoutedAsSealed
  <1>2. CASE open_routed(blob, priv) = "Ok"
    <2>1. well_formed(blob) /\ priv # BadKey /\ decrypts(blob, priv)
      BY <1>2 DEF open_routed
    <2>2. priv = d /\ splits(blob) /\ Enveloped(blob, sealed, foreign)
      BY <2>1 DEF well_formed, RouteInv, NetInv
    <2>n. PICK n : n = sealed_of(blob)[1][2]
      OBVIOUS
    <2>o. PICK o : o = [n |-> n, by |-> d, hdr |-> opened_routed(blob).hdr,
                        meta |-> opened_routed(blob).meta,
                        content |-> opened_routed(blob).content]
      OBVIOUS
    <2>3. opened' = opened \cup {o}
      BY <1>2, <2>n, <2>o DEF Open
    <2>4. o.n = n /\ o.by = d /\ o.hdr = parse_json(route_of(blob))
      BY <2>o DEF opened_routed, read_route_header
    <2>5. \/ \E s \in sealed : /\ route_of(blob) = canonical(s.hdr) /\ priv = s.by
                               /\ n = s.n
                               /\ inner_in(blob) = inner_of(s.meta, s.content)
          \/ \E f \in foreign : /\ route_of(blob) = f.route /\ priv = f.by
                                /\ n = f.n
                                /\ inner_in(blob) = f.inner
      BY <2>1, <2>2, <2>n, DecryptedGenuine
    <2>6. /\ \E s \in sealed \cup foreign : s.n = o.n /\ s.by = o.by
          /\ \A s \in sealed : s.n = o.n => o = s
          /\ \A s \in foreign : s.n = o.n => /\ o.hdr = parse_json(s.route)
                                           /\ Declares(s.inner, o.meta, o.content)
      <3>1. ASSUME NEW s \in sealed, route_of(blob) = canonical(s.hdr), priv = s.by, n = s.n,
                   inner_in(blob) = inner_of(s.meta, s.content)
            PROVE  o = s
        <4>1. s \in SealedRecords
          BY DEF RouteInv, NumberInv
        <4>m. PICK meta \in Metas, content \in Contents, hdr \in Headers :
                  meta = s.meta /\ content = s.content /\ hdr = s.hdr
          BY <4>1 DEF SealedRecords
        <4>i. PICK inner : inner = inner_of(meta, content)
          OBVIOUS
        <4>2. /\ SubSeq(inner, LEN_PREFIX + 1, meta_end(inner)) = canonical(meta)
              /\ SubSeq(inner, meta_end(inner) + 1, Len(inner)) = content
          BY <4>i, InnerParts, Zenon
        <4>3. parse_json(canonical(meta)) = meta /\ parse_json(canonical(hdr)) = hdr
          BY ObjectsRead
        <4>4. inner_in(blob) = inner /\ read_route_header(blob) = hdr
          BY <3>1, <4>m, <4>i, <4>3 DEF read_route_header
        <4>5. opened_routed(blob) = [hdr |-> hdr, meta |-> meta, content |-> content]
          BY <4>2, <4>3, <4>4 DEF opened_routed
        <4>6. o = [n |-> n, by |-> d, hdr |-> hdr, meta |-> meta, content |-> content]
          BY <2>o, <4>5
        <4> QED
          BY <2>2, <3>1, <4>1, <4>m, <4>6 DEF SealedRecords
      <3>2. CASE \E s \in sealed : /\ route_of(blob) = canonical(s.hdr) /\ priv = s.by
                                   /\ n = s.n
                                   /\ inner_in(blob) = inner_of(s.meta, s.content)
        <4>1. PICK s \in sealed : /\ route_of(blob) = canonical(s.hdr) /\ priv = s.by
                                  /\ n = s.n
                                  /\ inner_in(blob) = inner_of(s.meta, s.content)
          BY <3>2
        <4>2. o = s
          BY <3>1, <4>1
        <4>3. (\A t \in sealed : t.n = n => t = s) /\ (\A t \in foreign : t.n # n)
          BY <4>1 DEF RouteInv, NumberInv
        <4>4. s.n = n /\ s.by = o.by
          BY <4>1, <4>2
        <4> QED
          BY <2>4, <4>2, <4>3, <4>4
      <3>3. CASE \E f \in foreign : /\ route_of(blob) = f.route /\ priv = f.by
                                    /\ n = f.n
                                    /\ inner_in(blob) = f.inner
        <4>1. PICK f \in foreign : /\ route_of(blob) = f.route /\ priv = f.by /\ n = f.n
                                   /\ inner_in(blob) = f.inner
          BY <3>3
        <4>2. (\A t \in foreign : t.n = n => t = f) /\ (\A t \in sealed : t.n # n)
          BY <4>1 DEF RouteInv, NumberInv
        <4>3. f.n = o.n /\ f.by = o.by /\ o.hdr = parse_json(f.route)
          BY <2>2, <2>4, <4>1
        <4>4. f.inner \in ForeignInners
          BY DEF RouteInv, NumberInv, ForeignRecords
        <4>5. Declares(f.inner, opened_routed(blob).meta, opened_routed(blob).content)
          BY <1>2, <4>1, <4>4, OpenedAsDeclared
        <4>6. Declares(f.inner, o.meta, o.content)
          BY <2>o, <4>5
        <4> QED
          BY <2>4, <4>2, <4>3, <4>6
      <3> QED
        BY <2>5, <3>2, <3>3
    <2>7. \A x \in opened' : x \in opened \/ x = o
      BY <2>3
    <2>8. \A x \in opened' : /\ \E s \in sealed \cup foreign : s.n = x.n /\ s.by = x.by
                             /\ \A s \in sealed : s.n = x.n => x = s
                             /\ \A s \in foreign : s.n = x.n =>
                                    /\ x.hdr = parse_json(s.route)
                                    /\ Declares(s.inner, x.meta, x.content)
      BY <2>6, <2>7, Zenon DEF RoutedAsSealed
    <2> QED
      BY <1>0, <2>8 DEF RoutedAsSealed
  <1> QED
    BY <1>1, <1>2

\* Sealing keeps it: the new number has not been opened.
LEMMA SealKeeps ==
    ASSUME RouteInv, RoutedAsSealed, opened' = opened,
           sealed \subseteq sealed', foreign \subseteq foreign',
           \A s \in (sealed' \ sealed) \cup (foreign' \ foreign) : s.n = Seals
    PROVE  RoutedAsSealed'
  <1> SUFFICES ASSUME NEW o \in opened
               PROVE  /\ \E s \in sealed' \cup foreign' : s.n = o.n /\ s.by = o.by
                      /\ \A s \in sealed' : s.n = o.n => o = s
                      /\ \A s \in foreign' : s.n = o.n =>
                             /\ o.hdr = parse_json(s.route)
                             /\ Declares(s.inner, o.meta, o.content)
    BY DEF RoutedAsSealed
  <1>1. PICK t \in sealed \cup foreign : t.n = o.n /\ t.by = o.by
    BY DEF RoutedAsSealed
  <1>2. o.n # Seals
    <2>1. t.n \in Nat /\ t.n < Seals
      BY DEF RouteInv, NumberInv, SealedRecords, ForeignRecords
    <2>2. Seals \in Nat
      BY NumbersAdvance DEF RouteInv
    <2> QED
      BY <1>1, <2>1, <2>2
  <1>3. \A s \in sealed' : s.n = o.n => s \in sealed
    BY <1>2
  <1>4. \A s \in foreign' : s.n = o.n => s \in foreign
    BY <1>2
  <1> QED
    BY <1>1, <1>3, <1>4 DEF RoutedAsSealed

\* RoutedAsSealed: however often header, lengths and sealed part were tampered with
\* on the way, open_routed returns what seal_routed was given, to the destination it
\* was sealed to, or nothing; of a foreign envelope the header that was sealed and
\* what the inner plaintext declares, however narrow a usize is.
THEOREM RoutedAsSealedHolds ==
    Spec => []RoutedAsSealed
  <1>1. Init => RouteInv /\ RoutedAsSealed
    <2> SUFFICES ASSUME Init PROVE RouteInv /\ RoutedAsSealed
      OBVIOUS
    <2>1. RoutedAsSealed
      BY DEF Init, RoutedAsSealed
    <2> QED
      BY <2>1, RouteInvInit
  <1>2. RouteInv /\ RoutedAsSealed /\ [Next]_vars => (RouteInv /\ RoutedAsSealed)'
    <2> SUFFICES ASSUME RouteInv, RoutedAsSealed, [Next]_vars
                 PROVE  RouteInv' /\ RoutedAsSealed'
      OBVIOUS
    <2>1. RouteInv'
      BY RouteInvNext
    <2>2. ASSUME NEW meta \in Metas, NEW content \in Contents, NEW to \in Dests,
                 NEW hdr \in Headers, Seal(meta, content, to, hdr)
          PROVE  RoutedAsSealed'
      <3>1. \A s \in (sealed' \ sealed) \cup (foreign' \ foreign) : s.n = Seals
        BY <2>2 DEF Seal
      <3>2. opened' = opened /\ sealed \subseteq sealed' /\ foreign \subseteq foreign'
        BY <2>2 DEF Seal
      <3> QED
        BY <3>1, <3>2, SealKeeps
    <2>3. ASSUME NEW route \in ForeignRoutes, NEW inner \in ForeignInners, NEW to \in Dests,
                 ForeignSeal(route, inner, to)
          PROVE  RoutedAsSealed'
      <3>1. \A s \in (sealed' \ sealed) \cup (foreign' \ foreign) : s.n = Seals
        BY <2>3 DEF ForeignSeal
      <3>2. opened' = opened /\ sealed \subseteq sealed' /\ foreign \subseteq foreign'
        BY <2>3 DEF ForeignSeal
      <3> QED
        BY <3>1, <3>2, SealKeeps
    <2>4. ASSUME UNCHANGED <<sealed, foreign, opened>> PROVE RoutedAsSealed'
      BY <2>4 DEF RoutedAsSealed
    <2>5. ASSUME NEW blob \in net, NEW hdr \in Headers, Rewrite(blob, hdr) PROVE RoutedAsSealed'
      BY <2>4, <2>5 DEF Rewrite
    <2>6. ASSUME NEW blob \in net, Damage(blob) PROVE RoutedAsSealed'
      BY <2>4, <2>6 DEF Damage
    <2>7. ASSUME NEW d \in Dests, NEW blob \in net, NEW priv \in {d, BadKey}, Open(d, blob, priv)
          PROVE  RoutedAsSealed'
      BY <2>7, OpenKeeps
    <2>8. ASSUME UNCHANGED vars PROVE RoutedAsSealed'
      BY <2>4, <2>8 DEF vars
    <2> QED
      BY <2>1, <2>2, <2>3, <2>5, <2>6, <2>7, <2>8 DEF Next
  <1> QED
    BY <1>1, <1>2, PTL DEF Spec

\* The invariant holds throughout.
LEMMA RouteInvHolds == Spec => []RouteInv
  <1>1. Init => RouteInv
    BY RouteInvInit
  <1>2. RouteInv /\ [Next]_vars => RouteInv'
    BY RouteInvNext
  <1> QED
    BY <1>1, <1>2, PTL DEF Spec

\* UntouchedOpens: what seal_routed returns opens at its destination with what was
\* sealed, at no other destination, and a relay reads the header that was given.
THEOREM UntouchedOpensHolds ==
    Spec => []UntouchedOpens
  <1>1. RouteInv => UntouchedOpens
    <2> SUFFICES ASSUME RouteInv, NEW s \in sealed,
                        NEW blob, blob = seal_routed(s.meta, s.content, s.by, s.hdr, s.n)
                 PROVE  /\ read_route_header(blob) = s.hdr
                        /\ \A d \in Dests : (open_routed(blob, d) = "Ok") <=> (d = s.by)
                        /\ opened_routed(blob)
                             = [hdr |-> s.hdr, meta |-> s.meta, content |-> s.content]
      BY Zenon DEF UntouchedOpens
    <2>m. PICK meta \in Metas, content \in Contents, hdr \in Headers, to \in Dests, n \in Nat :
              meta = s.meta /\ content = s.content /\ hdr = s.hdr /\ to = s.by /\ n = s.n
      BY DEF RouteInv, NumberInv, SealedRecords
    <2>a. PICK a, inner : a = canonical(hdr) /\ inner = inner_of(meta, content)
      OBVIOUS
    <2>1. blob = seal_inner(a, inner, to, n)
      BY <2>m, <2>a DEF seal_routed
    <2>2. IsSeq(a)
      BY <2>a, Objects
    <2>3. IsCut(blob, Length(Len(a)), a, SealedPart(a, inner, to, n))
      BY <2>1, <2>2, SealedEnvelope, Zenon
    <2>4. IsCut(blob, Length(Len(canonical(hdr))), canonical(hdr),
                SealedPart(canonical(hdr), inner_of(meta, content), to, n))
      BY <2>a, <2>3
    <2>5. /\ read_route_header(blob) = hdr
          /\ \A d \in Dests : (open_routed(blob, d) = "Ok") <=> (d = to)
          /\ opened_routed(blob) = [hdr |-> hdr, meta |-> meta, content |-> content]
      BY <2>4, WholeOpens
    <2> QED
      BY <2>m, <2>5
  <1> QED
    BY <1>1, RouteInvHolds, PTL

\* RewriteUndone: replace_route_header leaves the sealed part alone, for every pair
\* of headers and whatever their lengths.
THEOREM RewriteUndoneHolds ==
    Spec => []RewriteUndone
  <1>1. RouteInv => RewriteUndone
    <2> DEFINE Undone(blob, there, hdr, was, to) ==
                   /\ read_route_header(there) = hdr
                   /\ replace_route_header(blob, read_route_header(blob)) = blob
                   /\ open_routed(replace_route_header(there, was), to) = "Ok"
               sent(s) == seal_routed(s.meta, s.content, s.by, s.hdr, s.n)
    <2> SUFFICES ASSUME RouteInv, NEW s \in sealed, NEW other \in Headers
                 PROVE  Undone(sent(s), replace_route_header(sent(s), other), other, s.hdr, s.by)
      BY DEF RewriteUndone
    <2> HIDE DEF Undone
    <2>b. PICK blob : blob = sent(s)
      OBVIOUS
    <2>t. PICK there : there = replace_route_header(blob, other)
      OBVIOUS
    <2>m. PICK meta \in Metas, content \in Contents, hdr \in Headers, to \in Dests, n \in Nat :
              meta = s.meta /\ content = s.content /\ hdr = s.hdr /\ to = s.by /\ n = s.n
      BY DEF RouteInv, NumberInv, SealedRecords
    <2>a. PICK a, inner, z :
              a = canonical(hdr) /\ inner = inner_of(meta, content) /\ z = SealedPart(a, inner, to, n)
      OBVIOUS
    <2>o. PICK o : o = canonical(other)
      OBVIOUS
    <2>1. blob = seal_inner(a, inner, to, n)
      BY <2>m, <2>a, <2>b DEF seal_routed
    <2>2. IsSeq(a) /\ IsSeq(o) /\ IsSeq(z)
      BY <2>a, <2>o, Objects, SealedParts
    <2>3. IsCut(blob, Length(Len(a)), a, z)
      BY <2>a, <2>1, <2>2, SealedEnvelope, Zenon
    <2>4. sealed_of(blob) = z /\ route_of(blob) = a
      BY <2>3, ReadCut
    <2>5. there = <<Length(Len(o))>> \o o \o z
      BY <2>o, <2>t, <2>4 DEF replace_route_header
    <2>6. IsCut(there, Length(Len(o)), o, z)
      BY <2>2, <2>5, Cut, Zenon
    <2>7. sealed_of(there) = z /\ route_of(there) = o
      BY <2>6, ReadCut
    <2>8. read_route_header(there) = other /\ read_route_header(blob) = hdr
      BY <2>a, <2>o, <2>4, <2>7, ObjectsRead DEF read_route_header
    <2>9. blob = <<Length(Len(a))>> \o a \o z
      BY <2>1, <2>a DEF seal_inner, SealedPart, BoxOf
    <2>10. replace_route_header(blob, hdr) = blob
      BY <2>a, <2>4, <2>9 DEF replace_route_header
    <2>11. replace_route_header(there, hdr) = blob
      BY <2>a, <2>7, <2>9 DEF replace_route_header
    <2>12. open_routed(blob, to) = "Ok"
      <3>1. IsCut(blob, Length(Len(canonical(hdr))), canonical(hdr),
                  SealedPart(canonical(hdr), inner_of(meta, content), to, n))
        BY <2>a, <2>3
      <3> QED
        BY <3>1, WholeOpens
    <2>13. Undone(blob, there, other, hdr, to)
      BY <2>8, <2>10, <2>11, <2>12 DEF Undone
    <2> QED
      BY <2>b, <2>t, <2>m, <2>13
  <1> QED
    BY <1>1, RouteInvHolds, PTL
=============================================================================
