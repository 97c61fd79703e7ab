-------------------------- MODULE FrameTokenProofs --------------------------
(***************************************************************************)
(* Theorems about FrameToken, for every blob and every width of usize: the *)
(* parser of from_token accepts exactly what to_token writes.              *)
(***************************************************************************)
EXTENDS FrameToken, SequenceTheorems, TLAPS

-----------------------------------------------------------------------------
(* The cursor.                                                             *)

\* A sum of two numbers below the modulus wraps around once or not at all.
LEMMA WrapOnce ==
    ASSUME NEW M \in Nat, NEW a \in Nat, NEW b \in Nat, a < M, b < M
    PROVE  (a + b) % M = IF a + b < M THEN a + b ELSE a + b - M
  <1>1. /\ a + b = M * ((a + b) \div M) + ((a + b) % M)
        /\ (a + b) % M \in 0 .. M - 1 /\ (a + b) \div M \in Int
    OBVIOUS
  <1> QED
    BY <1>1

Frames ==
    [epoch : Digits, index : Digits, nonce : Seq(Digits), body : Seq(Digits),
     kam : Seq(Digits) \cup {None}, len : Digits]

\* The cursor is in the blob, and the fields have their types.
CursorInv ==
    /\ blob \in Seq(Digits) /\ Len(blob) <= MaxBlob
    /\ off \in 0 .. Len(blob)
    /\ frame \in Frames

\* What has been read.
Prefix == SubSeq(blob, 1, off)

\* A take! that succeeds moved the cursor by n: the sum did not wrap around.
LEMMA TakeMoves ==
    ASSUME CursorInv, NEW n \in Digits, ~ Truncated(n), AddUsize(n) >= off
    PROVE  AddUsize(n) = off + n /\ off + n \in 0 .. Len(blob)
  <1>1. PICK o \in Nat, z \in Nat, M \in Nat :
            o = off /\ z = Len(blob) /\ M = UsizeMod /\ o <= z /\ z < M /\ n \in Nat /\ n < M
    BY CodecAssumption DEF CursorInv
  <1>2. AddUsize(n) = (o + n) % M
    BY <1>1 DEF AddUsize
  <1>3. (o + n) % M = IF o + n < M THEN o + n ELSE o + n - M
    BY <1>1, WrapOnce
  <1>4. AddUsize(n) <= z /\ AddUsize(n) >= o
    BY <1>1, <1>2, <1>3 DEF Truncated
  <1>5. o + n < M
    BY <1>1, <1>2, <1>3, <1>4
  <1> QED
    BY <1>1, <1>2, <1>3, <1>4, <1>5

\* The text it took comes next.
LEMMA TakeReads ==
    ASSUME CursorInv, NEW n \in Nat, off + n \in 0 .. Len(blob)
    PROVE  /\ Taken(n) \in Seq(Digits) /\ Len(Taken(n)) = n
           /\ SubSeq(blob, 1, off + n) = Prefix \o Taken(n)
  <1>1. Taken(n) \in Seq(Digits) /\ Len(Taken(n)) = n
    BY DEF CursorInv, Taken
  <1>2. SubSeq(blob, 1, off + n) = Prefix \o Taken(n)
    <2>1. PICK s, k : s = blob /\ k = off
      OBVIOUS
    <2>2. /\ s \in Seq(Digits) /\ 1 \in 1 .. Len(s) + 1 /\ k \in 1 - 1 .. Len(s)
          /\ k + n \in k .. Len(s)
      BY <2>1 DEF CursorInv
    <2>3. SubSeq(s, 1, k) \o SubSeq(s, k + 1, k + n) = SubSeq(s, 1, k + n)
      BY <2>2, ConcatAdjacentSubSeq
    <2> QED
      BY <2>1, <2>3 DEF Prefix, Taken
  <1> QED
    BY <1>1, <1>2

\* One digit is the one under the cursor.
LEMMA TakeOne ==
    ASSUME CursorInv, ~ Truncated(1), AddUsize(1) >= off
    PROVE  /\ Digit \in Digits /\ Digit = blob[off + 1]
           /\ AddUsize(1) = off + 1 /\ off + 1 \in 0 .. Len(blob)
           /\ SubSeq(blob, 1, off + 1) = Prefix \o <<Digit>>
  <1>1. AddUsize(1) = off + 1 /\ off + 1 \in 0 .. Len(blob)
    BY TakeMoves, CodecAssumption
  <1>2. Digit = blob[off + 1] /\ Digit \in Digits
    BY <1>1 DEF Digit, CursorInv
  <1>3. Taken(1) = <<Digit>>
    <2>1. PICK t : t = Taken(1)
      OBVIOUS
    <2>2. t \in Seq(Digits) /\ Len(t) = 1
      BY <1>1, <2>1, TakeReads
    <2>3. t[1] = blob[off + 1]
      BY <1>1, <2>1 DEF Taken, CursorInv
    <2>4. t = <<t[1]>>
      BY <2>2
    <2> QED
      BY <1>2, <2>1, <2>3, <2>4
  <1> QED
    BY <1>1, <1>2, <1>3, TakeReads

-----------------------------------------------------------------------------
(* The text of the fields read so far.                                     *)

ToNonce(f) == <<f.epoch, f.index, Len(f.nonce)>> \o f.nonce
ToBody(f) == ToNonce(f) \o <<Len(f.body)>> \o f.body

ReadText(next, f) ==
    CASE next = "epoch" -> << >>
      [] next = "index" -> <<f.epoch>>
      [] next = "nonce_len" -> <<f.epoch, f.index>>
      [] next = "nonce" -> <<f.epoch, f.index, f.len>>
      [] next = "body_len" -> ToNonce(f)
      [] next = "body" -> ToNonce(f) \o <<f.len>>
      [] next = "kam_flag" -> ToBody(f)
      [] next = "kam_len" -> ToBody(f) \o <<1>>
      [] next = "kam" -> ToBody(f) \o <<1, f.len>>
      [] OTHER -> to_token(f)

Before == {"epoch", "index", "nonce_len", "nonce", "body_len", "body",
           "kam_flag", "kam_len", "kam"}
Reading == Before \cup {"end", "Ok"}

\* What has been read is the text of the fields, and the KAM is not set early.
ReadInv ==
    /\ CursorInv
    /\ field \in Reading => Prefix = ReadText(field, frame)
    /\ field \in Before => frame.kam = None
    /\ field = "Ok" => off = Len(blob)

\* The texts of the parts are sequences of numbers.
LEMMA TextTypes ==
    ASSUME NEW f \in Frames
    PROVE  ToNonce(f) \in Seq(Nat) /\ ToBody(f) \in Seq(Nat)
  <1>1. /\ f.nonce \in Seq(Nat) /\ f.body \in Seq(Nat)
        /\ <<f.epoch, f.index, Len(f.nonce)>> \in Seq(Nat) /\ <<Len(f.body)>> \in Seq(Nat)
    <2>1. f.nonce \in Seq(Digits) /\ f.body \in Seq(Digits)
      BY DEF Frames
    <2>2. f.epoch \in Nat /\ f.index \in Nat
      BY CodecAssumption DEF Frames
    <2>3. Seq(Digits) \subseteq Seq(Nat)
      BY CodecAssumption, SeqMonotonic
    <2> QED
      BY <2>1, <2>2, <2>3
  <1>2. ToNonce(f) \in Seq(Nat)
    BY <1>1 DEF ToNonce
  <1> QED
    BY <1>1, <1>2 DEF ToBody

\* Short texts and one digit more.
LEMMA ShortTexts ==
    ASSUME NEW a \in Nat, NEW b \in Nat, NEW c \in Nat
    PROVE  /\ << >> \o <<a>> = <<a>>
           /\ <<a>> \o <<b>> = <<a, b>>
           /\ <<a, b>> \o <<c>> = <<a, b, c>>
  <1>0. /\ << >> \in Seq(Nat) /\ <<a>> \in Seq(Nat) /\ <<b>> \in Seq(Nat) /\ <<c>> \in Seq(Nat)
        /\ <<a, b>> \in Seq(Nat) /\ <<a, b, c>> \in Seq(Nat)
    OBVIOUS
  <1>1. << >> \o <<a>> = <<a>>
    BY <1>0, ConcatEmptySeq
  <1>2. <<a>> \o <<b>> = <<a, b>>
    <2>1. PICK s : s = <<a>> \o <<b>>
      OBVIOUS
    <2>2. s \in Seq(Nat) /\ Len(s) = 2 /\ s[1] = a /\ s[2] = b
      BY <1>0, <2>1
    <2>3. s = <<s[1], s[2]>>
      BY <2>2
    <2> QED
      BY <2>1, <2>2, <2>3
  <1>3. <<a, b>> \o <<c>> = <<a, b, c>>
    <2>1. PICK s : s = <<a, b>> \o <<c>>
      OBVIOUS
    <2>2. s \in Seq(Nat) /\ Len(s) = 3 /\ s[1] = a /\ s[2] = b /\ s[3] = c
      BY <1>0, <2>1
    <2>3. s = <<s[1], s[2], s[3]>>
      BY <2>2
    <2> QED
      BY <2>1, <2>2, <2>3
  <1> QED
    BY <1>1, <1>2, <1>3

\* A step that ends the parser in an error keeps everything else.
LEMMA RefusedStep ==
    ASSUME ReadInv, UNCHANGED <<blob, off, frame>>, field' \notin Reading
    PROVE  ReadInv'
  BY DEF ReadInv, CursorInv, Before, Reading

\* What a step must read, if there is as much.
Continues(n, text, next, new) ==
    off + n \in 0 .. Len(blob) =>
        /\ new \in Frames
        /\ next \in Before => new.kam = None
        /\ next # "BadToken" => ReadText(field, frame) \o text = ReadText(next, new)

\* A step that reads what comes next.
LEMMA TakenStep ==
    ASSUME ReadInv, NEW n \in Digits, NEW new, NEW next, NEW text,
           Take(n, new, next),
           field \in Before, next \in Before \cup {"end", "BadToken"},
           (n = 1 /\ text = <<Digit>>) \/ text = Taken(n),
           Continues(n, text, next, new)
    PROVE  ReadInv'
  <1>3. AddUsize(n) \in Int /\ off \in Int
    BY CodecAssumption DEF AddUsize, ReadInv, CursorInv
  <1>4. AddUsize(n) < off <=> ~ (AddUsize(n) >= off)
    BY <1>3
  <1>1. CASE Truncated(n) \/ AddUsize(n) < off
    <2>1. UNCHANGED <<blob, off, frame>> /\ field' \in {"BadToken", "panic"}
      BY <1>1, <1>4, Zenon DEF Take
    <2>2. field' \notin Reading
      BY <2>1 DEF Reading, Before
    <2> QED
      BY <2>1, <2>2, RefusedStep
  <1>2. CASE ~ Truncated(n) /\ AddUsize(n) >= off
    <2>1. off' = AddUsize(n) /\ frame' = new /\ field' = next /\ blob' = blob
      BY <1>2, <1>4, Zenon DEF Take
    <2>2. off' = off + n /\ off' \in 0 .. Len(blob)
      BY <1>2, <2>1, TakeMoves DEF ReadInv
    <2>c. /\ new \in Frames
          /\ next \in Before => new.kam = None
          /\ next # "BadToken" => ReadText(field, frame) \o text = ReadText(next, new)
      BY <2>2 DEF Continues
    <2>3. CursorInv'
      BY <2>1, <2>2, <2>c DEF ReadInv, CursorInv
    <2>4. Prefix' = Prefix \o text
      <3>1. n \in Nat
        BY CodecAssumption
      <3>2. SubSeq(blob, 1, off + n) = Prefix \o text
        BY <1>2, <2>2, <3>1, TakeReads, TakeOne DEF ReadInv
      <3> QED
        BY <2>1, <2>2, <3>2 DEF Prefix
    <2>5. next \in Before \cup {"end"} => Prefix' = ReadText(next, new)
      BY <2>4, <2>c DEF ReadInv, Reading, Before
    <2> QED
      BY <2>1, <2>3, <2>5, <2>c DEF ReadInv, Reading, Before
  <1> QED
    BY <1>1, <1>2, <1>4, Zenon

\* Every step of the parser reads the text of the next field.
LEMMA ReadStep == ReadInv /\ [Next]_vars => ReadInv'
  <1> SUFFICES ASSUME ReadInv, [Next]_vars PROVE ReadInv'
    OBVIOUS
  <1>f. frame \in Frames /\ 1 \in Digits /\ frame.len \in Digits /\ 1 \in Nat
    BY CodecAssumption DEF ReadInv, CursorInv, Frames
  <1>d. Digit \in Digits
    BY CodecAssumption DEF Digit, ReadInv, CursorInv
  <1>n. Digit \in Nat /\ frame.epoch \in Nat /\ frame.index \in Nat
    BY <1>f, <1>d, CodecAssumption DEF Frames
  <1>s. ASSUME off + frame.len \in 0 .. Len(blob)
        PROVE  Taken(frame.len) \in Seq(Digits) /\ Len(Taken(frame.len)) = frame.len
    BY <1>f, <1>s, TakeReads, CodecAssumption DEF ReadInv
  <1>1. CASE TakeEpoch
    <2>1. PICK new : new = [frame EXCEPT !.epoch = Digit]
      OBVIOUS
    <2>2. new \in Frames /\ new.kam = frame.kam /\ new.epoch = Digit
      BY <1>f, <1>d, <2>1 DEF Frames
    <2>3. Take(1, new, "index") /\ field = "epoch" /\ frame.kam = None
      BY <1>1, <2>1 DEF TakeEpoch, ReadInv, Before
    <2>4. ReadText(field, frame) = << >> /\ ReadText("index", new) = <<new.epoch>>
      BY <2>3 DEF ReadText
    <2>c. ReadText(field, frame) \o <<Digit>> = ReadText("index", new)
      BY <1>n, <2>2, <2>4, ShortTexts, Zenon
    <2>5. Continues(1, <<Digit>>, "index", new)
      BY <2>2, <2>3, <2>c DEF Continues
    <2> QED
      BY <1>f, <2>3, <2>5, TakenStep DEF Before
  <1>2. CASE TakeIndex
    <2>1. PICK new : new = [frame EXCEPT !.index = Digit]
      OBVIOUS
    <2>2. new \in Frames /\ new.kam = frame.kam /\ new.epoch = frame.epoch /\ new.index = Digit
      BY <1>f, <1>d, <2>1 DEF Frames
    <2>3. Take(1, new, "nonce_len") /\ field = "index" /\ frame.kam = None
      BY <1>2, <2>1 DEF TakeIndex, ReadInv, Before
    <2>4. /\ ReadText(field, frame) = <<frame.epoch>>
          /\ ReadText("nonce_len", new) = <<new.epoch, new.index>>
      BY <2>3 DEF ReadText
    <2>c. ReadText(field, frame) \o <<Digit>> = ReadText("nonce_len", new)
      BY <1>n, <2>2, <2>4, ShortTexts, Zenon
    <2>5. Continues(1, <<Digit>>, "nonce_len", new)
      BY <2>2, <2>3, <2>c DEF Continues
    <2> QED
      BY <1>f, <2>3, <2>5, TakenStep DEF Before
  <1>3. CASE TakeNonceLen
    <2>1. PICK new : new = [frame EXCEPT !.len = Digit]
      OBVIOUS
    <2>2. /\ new \in Frames /\ new.kam = frame.kam /\ new.epoch = frame.epoch
          /\ new.index = frame.index /\ new.len = Digit
      BY <1>f, <1>d, <2>1 DEF Frames
    <2>3. Take(1, new, "nonce") /\ field = "nonce_len" /\ frame.kam = None
      BY <1>3, <2>1 DEF TakeNonceLen, ReadInv, Before
    <2>4. /\ ReadText(field, frame) = <<frame.epoch, frame.index>>
          /\ ReadText("nonce", new) = <<new.epoch, new.index, new.len>>
      BY <2>3 DEF ReadText
    <2>c. ReadText(field, frame) \o <<Digit>> = ReadText("nonce", new)
      <3>1. \A a, b, c \in Nat : <<a, b>> \o <<c>> = <<a, b, c>>
        BY ShortTexts
      <3>2. <<frame.epoch, frame.index>> \o <<Digit>> = <<frame.epoch, frame.index, Digit>>
        BY <1>n, <3>1, Zenon
      <3>3. <<new.epoch, new.index, new.len>> = <<frame.epoch, frame.index, Digit>>
        BY <2>2
      <3> QED
        BY <2>4, <3>2, <3>3, Zenon
    <2>5. Continues(1, <<Digit>>, "nonce", new)
      BY <2>2, <2>3, <2>c DEF Continues
    <2> QED
      BY <1>f, <2>3, <2>5, TakenStep DEF Before
  <1>4. CASE TakeNonce
    <2>1. PICK n, t, new : /\ n = frame.len /\ t = Taken(frame.len)
                           /\ new = [frame EXCEPT !.nonce = t]
      OBVIOUS
    <2>2. t \in Seq(Digits) =>
            /\ new \in Frames /\ new.kam = frame.kam /\ new.epoch = frame.epoch
            /\ new.index = frame.index /\ new.nonce = t
      BY <1>f, <2>1 DEF Frames
    <2>3. Take(n, new, "body_len") /\ field = "nonce" /\ frame.kam = None
      BY <1>4, <2>1 DEF TakeNonce, ReadInv, Before
    <2>4. /\ ReadText(field, frame) = <<frame.epoch, frame.index, n>>
          /\ ReadText("body_len", new) = <<new.epoch, new.index, Len(new.nonce)>> \o new.nonce
      BY <2>1, <2>3 DEF ReadText, ToNonce
    <2>5. Continues(n, t, "body_len", new)
      BY <1>s, <2>1, <2>2, <2>3, <2>4 DEF Continues
    <2> QED
      BY <1>f, <2>1, <2>3, <2>5, TakenStep DEF Before
  <1>5. CASE TakeBodyLen
    <2>1. PICK new : new = [frame EXCEPT !.len = Digit]
      OBVIOUS
    <2>2. /\ new \in Frames /\ new.kam = frame.kam /\ new.len = Digit
          /\ ToNonce(new) = ToNonce(frame)
      BY <1>f, <1>d, <2>1 DEF Frames, ToNonce
    <2>3. Take(1, new, "body") /\ field = "body_len" /\ frame.kam = None
      BY <1>5, <2>1 DEF TakeBodyLen, ReadInv, Before
    <2>4. /\ ReadText(field, frame) = ToNonce(frame)
          /\ ReadText("body", new) = ToNonce(new) \o <<new.len>>
      BY <2>3 DEF ReadText
    <2>5. Continues(1, <<Digit>>, "body", new)
      BY <2>2, <2>3, <2>4 DEF Continues
    <2> QED
      BY <1>f, <2>3, <2>5, TakenStep DEF Before
  <1>6. CASE TakeBody
    <2>1. PICK n, t, new : /\ n = frame.len /\ t = Taken(frame.len)
                           /\ new = [frame EXCEPT !.body = t]
      OBVIOUS
    <2>2. t \in Seq(Digits) =>
            /\ new \in Frames /\ new.kam = frame.kam /\ new.body = t
            /\ ToNonce(new) = ToNonce(frame)
      BY <1>f, <2>1 DEF Frames, ToNonce
    <2>3. Take(n, new, "kam_flag") /\ field = "body" /\ frame.kam = None
      BY <1>6, <2>1 DEF TakeBody, ReadInv, Before
    <2>4. /\ ReadText(field, frame) = ToNonce(frame) \o <<n>>
          /\ ReadText("kam_flag", new) = ToNonce(new) \o <<Len(new.body)>> \o new.body
      BY <2>1, <2>3 DEF ReadText, ToBody
    <2>5. Continues(n, t, "kam_flag", new)
      BY <1>s, <2>1, <2>2, <2>3, <2>4 DEF Continues
    <2> QED
      BY <1>f, <2>1, <2>3, <2>5, TakenStep DEF Before
  <1>7. CASE TakeKamFlag
    <2>1. PICK next : next = CASE Digit = 0 -> "end" [] Digit = 1 -> "kam_len" [] OTHER -> "BadToken"
      OBVIOUS
    <2>2. Take(1, frame, next) /\ field = "kam_flag" /\ frame.kam = None
      BY <1>7, <2>1 DEF TakeKamFlag, ReadInv, Before
    <2>3. /\ ReadText(field, frame) = ToBody(frame)
          /\ ReadText("kam_len", frame) = ToBody(frame) \o <<1>>
          /\ ReadText("end", frame) = ToBody(frame) \o <<0>>
      BY <2>2 DEF ReadText, to_token, ToBody, ToNonce
    <2>4. \/ next = "end" /\ Digit = 0
          \/ next = "kam_len" /\ Digit = 1
          \/ next = "BadToken"
      BY <2>1
    <2>5. Continues(1, <<Digit>>, next, frame)
      BY <1>f, <2>2, <2>3, <2>4 DEF Continues, Before
    <2>6. next \in Before \cup {"end", "BadToken"} /\ field \in Before
      BY <2>2, <2>4 DEF Before
    <2> QED
      BY <1>f, <2>2, <2>5, <2>6, TakenStep
  <1>8. CASE TakeKamLen
    <2>1. PICK new : new = [frame EXCEPT !.len = Digit]
      OBVIOUS
    <2>2. /\ new \in Frames /\ new.kam = frame.kam /\ new.len = Digit
          /\ ToBody(new) = ToBody(frame)
      BY <1>f, <1>d, <2>1 DEF Frames, ToNonce, ToBody
    <2>3. Take(1, new, "kam") /\ field = "kam_len" /\ frame.kam = None
      BY <1>8, <2>1 DEF TakeKamLen, ReadInv, Before
    <2>4. /\ ReadText(field, frame) = ToBody(frame) \o <<1>>
          /\ ReadText("kam", new) = ToBody(new) \o <<1, new.len>>
      BY <2>3 DEF ReadText
    <2>5. (ToBody(frame) \o <<1>>) \o <<Digit>> = ToBody(frame) \o <<1, Digit>>
      <3>1. PICK s \in Seq(Nat), d \in Nat : s = ToBody(frame) /\ d = Digit
        BY <1>f, <1>d, TextTypes, CodecAssumption
      <3>2. (s \o <<1>>) \o <<d>> = s \o (<<1>> \o <<d>>)
        BY ConcatAssociative
      <3>3. <<1>> \o <<d>> = <<1, d>>
        BY ShortTexts, <1>f, Zenon
      <3> QED
        BY <3>1, <3>2, <3>3, Zenon
    <2>6. Continues(1, <<Digit>>, "kam", new)
      BY <2>2, <2>3, <2>4, <2>5 DEF Continues
    <2> QED
      BY <1>f, <2>3, <2>6, TakenStep DEF Before
  <1>9. CASE TakeKam
    <2>1. PICK n, t, new : /\ n = frame.len /\ t = Taken(frame.len)
                           /\ new = [frame EXCEPT !.kam = t]
      OBVIOUS
    <2>2. t \in Seq(Digits) =>
            /\ new \in Frames /\ new.kam = t /\ t # None /\ ToBody(new) = ToBody(frame)
      BY <1>f, <2>1, CodecAssumption DEF Frames, ToNonce, ToBody
    <2>3. Take(n, new, "end") /\ field = "kam" /\ frame.kam = None
      BY <1>9, <2>1 DEF TakeKam, ReadInv, Before
    <2>4. ReadText(field, frame) = ToBody(frame) \o <<1, n>>
      BY <2>1, <2>3 DEF ReadText
    <2>5. ASSUME t \in Seq(Digits), Len(t) = n
          PROVE  (ToBody(frame) \o <<1, n>>) \o t = ReadText("end", new)
      <3>1. PICK s \in Seq(Nat), u \in Seq(Nat), v \in Seq(Nat) :
                s = ToBody(frame) /\ u = <<1, n>> /\ v = t
        <4>1. ToBody(frame) \in Seq(Nat)
          BY <1>f, TextTypes
        <4>2. <<1, n>> \in Seq(Nat)
          BY <1>f, <2>1, CodecAssumption
        <4>3. t \in Seq(Nat)
          BY <2>5, CodecAssumption, SeqMonotonic
        <4> QED
          BY <4>1, <4>2, <4>3
      <3>2. (s \o u) \o v = s \o (u \o v)
        BY ConcatAssociative
      <3>3. to_token(new) = ToBody(new) \o (<<1, Len(new.kam)>> \o new.kam)
        BY <2>2, <2>5 DEF to_token, ToBody, ToNonce
      <3> QED
        BY <2>2, <2>5, <3>1, <3>2, <3>3 DEF ReadText
    <2>6. Continues(n, t, "end", new)
      BY <1>s, <2>1, <2>2, <2>4, <2>5 DEF Continues, Before
    <2> QED
      BY <1>f, <2>1, <2>3, <2>6, TakenStep DEF Before
  <1>10. CASE End \/ OpenParsed \/ UNCHANGED vars
    BY <1>10 DEF End, OpenParsed, vars, ReadInv, CursorInv, ReadText, Before, Reading, Prefix
  <1> QED
    BY <1>1, <1>2, <1>3, <1>4, <1>5, <1>6, <1>7, <1>8, <1>9, <1>10 DEF Next

\* Every accepted blob is the one to_token writes for the parsed frame.
THEOREM ParsedIsEncodedHolds == Spec => []ParsedIsEncoded
  <1>1. Init => ReadInv
    BY CodecAssumption DEF Init, ReadInv, CursorInv, EmptyFrame, Frames, BoundedSeq, SeqOf,
                           Prefix, ReadText, Before, Reading
  <1>2. ReadInv => ParsedIsEncoded
    <2> SUFFICES ASSUME ReadInv, field = "Ok" PROVE to_token(frame) = blob
      BY DEF ParsedIsEncoded
    <2>1. Prefix = to_token(frame) /\ off = Len(blob)
      BY DEF ReadInv, Reading, ReadText
    <2>2. Prefix = blob
      BY <2>1, SubSeqFull DEF Prefix, ReadInv, CursorInv
    <2> QED
      BY <2>1, <2>2
  <1> QED
    BY <1>1, <1>2, ReadStep, PTL DEF Spec

\* The cursor stays in the blob.
LEMMA CursorInvariant == Spec => []CursorInv
  <1>1. Init => ReadInv
    BY CodecAssumption DEF Init, ReadInv, CursorInv, EmptyFrame, Frames, BoundedSeq, SeqOf,
                           Prefix, ReadText, Before, Reading
  <1>2. ReadInv => CursorInv
    BY DEF ReadInv
  <1> QED
    BY <1>1, <1>2, ReadStep, PTL DEF Spec

-----------------------------------------------------------------------------
(* No blob that encodes a frame is refused.                                *)

\* A frame to encode, and where its parts end.
Given == [epoch : Digits, index : Digits, nonce : Seq(Digits), body : Seq(Digits),
          kam : Seq(Digits) \cup {None}]
NonceEnd(f) == 3 + Len(f.nonce)
BodyEnd(f) == 4 + Len(f.nonce) + Len(f.body)

\* One text after another.
Follows(t, a, b) ==
    /\ t \in Seq(Nat) /\ Len(t) = Len(a) + Len(b)
    /\ \A i \in 1 .. Len(a) : t[i] = a[i]
    /\ \A i \in 1 .. Len(b) : t[Len(a) + i] = b[i]

\* That is what concatenation makes.
LEMMA Concatenated ==
    ASSUME NEW a \in Seq(Nat), NEW b \in Seq(Nat)
    PROVE  Follows(a \o b, a, b)
  BY DEF Follows

\* The lengths of nonce and body stand before them.
LEMMA BodyPlaces ==
    ASSUME NEW f \in Given
    PROVE  /\ ToBody(f) \in Seq(Nat) /\ Len(ToBody(f)) = BodyEnd(f)
           /\ ToBody(f)[3] = Len(f.nonce) /\ ToBody(f)[NonceEnd(f) + 1] = Len(f.body)
  <1>0. Seq(Digits) \subseteq Seq(Nat)
    BY CodecAssumption, SeqMonotonic
  <1>n. PICK n, b, p, q, u, v : /\ n = Len(f.nonce) /\ b = Len(f.body)
                                /\ p = <<f.epoch, f.index, n>> /\ q = f.nonce
                                /\ u = <<b>> /\ v = f.body
    OBVIOUS
  <1>1. q \in Seq(Nat) /\ v \in Seq(Nat) /\ n \in Nat /\ b \in Nat /\ Len(q) = n /\ Len(v) = b
    BY <1>0, <1>n DEF Given
  <1>2. p \in Seq(Nat) /\ Len(p) = 3 /\ p[3] = n
    <2>1. f.epoch \in Nat /\ f.index \in Nat
      BY CodecAssumption DEF Given
    <2> QED
      BY <1>n, <1>1, <2>1
  <1>3. u \in Seq(Nat) /\ Len(u) = 1 /\ u[1] = b
    BY <1>n, <1>1
  <1>4. PICK s : s = p \o q /\ Follows(s, p, q)
    BY <1>1, <1>2, Concatenated
  <1>5. s \in Seq(Nat) /\ Len(s) = 3 + n /\ s[3] = n
    BY <1>1, <1>2, <1>4 DEF Follows
  <1>6. PICK t : t = s \o u /\ Follows(t, s, u)
    BY <1>3, <1>5, Concatenated
  <1>7. t \in Seq(Nat) /\ Len(t) = 4 + n /\ t[3] = n /\ t[4 + n] = b
    <2>1. t \in Seq(Nat) /\ Len(t) = 4 + n
      BY <1>1, <1>3, <1>5, <1>6 DEF Follows
    <2>2. t[3] = n
      BY <1>1, <1>5, <1>6 DEF Follows
    <2>3. t[(3 + n) + 1] = u[1]
      BY <1>3, <1>5, <1>6 DEF Follows
    <2>4. (3 + n) + 1 = 4 + n
      BY <1>1
    <2> QED
      BY <1>3, <2>1, <2>2, <2>3, <2>4
  <1>8. PICK w : w = t \o v /\ Follows(w, t, v)
    BY <1>1, <1>7, Concatenated
  <1>9. w \in Seq(Nat) /\ Len(w) = 4 + n + b /\ w[3] = n /\ w[4 + n] = b
    BY <1>1, <1>7, <1>8 DEF Follows
  <1>10. ToBody(f) = w
    BY <1>n, <1>4, <1>6, <1>8 DEF ToBody, ToNonce
  <1>11. NonceEnd(f) + 1 = 4 + n /\ BodyEnd(f) = 4 + n + b
    BY <1>n, <1>1 DEF NonceEnd, BodyEnd
  <1> QED
    BY <1>n, <1>9, <1>10, <1>11

\* What is at its places.
LEMMA TokenPlaces ==
    ASSUME NEW f \in Given
    PROVE  /\ BodyEnd(f) \in Nat /\ NonceEnd(f) \in Nat /\ Len(f.nonce) \in Nat
           /\ Len(f.body) \in Nat /\ BodyEnd(f) = NonceEnd(f) + 1 + Len(f.body)
           /\ to_token(f)[3] = Len(f.nonce)
           /\ to_token(f)[NonceEnd(f) + 1] = Len(f.body)
           /\ to_token(f)[BodyEnd(f) + 1] = IF f.kam = None THEN 0 ELSE 1
           /\ f.kam # None => Len(f.kam) \in Nat /\ to_token(f)[BodyEnd(f) + 2] = Len(f.kam)
           /\ Len(to_token(f))
                  = IF f.kam = None THEN BodyEnd(f) + 1 ELSE BodyEnd(f) + 2 + Len(f.kam)
  <1>n. PICK n, b, m, z, s : /\ n = Len(f.nonce) /\ b = Len(f.body)
                             /\ m = NonceEnd(f) /\ z = BodyEnd(f) /\ s = ToBody(f)
    OBVIOUS
  <1>1. n \in Nat /\ b \in Nat /\ m \in Nat /\ z \in Nat /\ z = m + 1 + b /\ m = 3 + n
    BY <1>n DEF Given, NonceEnd, BodyEnd
  <1>2. s \in Seq(Nat) /\ Len(s) = z /\ s[3] = n /\ s[m + 1] = b
    BY <1>n, BodyPlaces
  <1>w. PICK w : w = IF f.kam = None THEN <<0>> ELSE <<1, Len(f.kam)>> \o f.kam
    OBVIOUS
  <1>3. /\ w \in Seq(Nat) /\ Len(w) = IF f.kam = None THEN 1 ELSE 2 + Len(f.kam)
        /\ w[1] = IF f.kam = None THEN 0 ELSE 1
        /\ f.kam # None => Len(f.kam) \in Nat /\ w[2] = Len(f.kam)
    <2>1. CASE f.kam = None
      BY <1>w, <2>1
    <2>2. CASE f.kam # None
      <3>1. PICK k \in Seq(Nat) : k = f.kam
        BY <2>2, CodecAssumption, SeqMonotonic DEF Given
      <3>2. PICK h : h = <<1, Len(k)>> /\ h \in Seq(Nat)
        <4>1. \A l \in Nat : <<1, l>> \in Seq(Nat)
          OBVIOUS
        <4>2. Len(k) \in Nat
          OBVIOUS
        <4> QED
          BY <4>1, <4>2, Zenon
      <3>3. Follows(w, h, k)
        BY <1>w, <2>2, <3>1, <3>2, Concatenated
      <3>4. Len(h) = 2 /\ h[1] = 1 /\ h[2] = Len(k)
        BY <3>2
      <3> QED
        BY <2>2, <3>1, <3>3, <3>4 DEF Follows
    <2> QED
      BY <2>1, <2>2
  <1>4. PICK t : t = s \o w /\ Follows(t, s, w)
    BY <1>2, <1>3, Concatenated
  <1>5. to_token(f) = t
    BY <1>n, <1>w, <1>4, Zenon DEF to_token, ToBody, ToNonce
  <1>6. t[3] = n /\ t[m + 1] = b
    BY <1>1, <1>2, <1>4 DEF Follows
  <1>l. PICK l \in Nat : l = Len(w) /\ l >= 1 /\ (f.kam # None => l >= 2)
    BY <1>3
  <1>7. /\ Len(t) = z + l
        /\ \A i \in 1 .. l : t[z + i] = w[i]
    BY <1>2, <1>4, <1>l, Zenon DEF Follows
  <1>8. t[z + 1] = w[1] /\ (f.kam # None => t[z + 2] = w[2])
    BY <1>7, <1>l
  <1>9. Len(t) = IF f.kam = None THEN z + 1 ELSE z + 2 + Len(f.kam)
    <2>1. CASE f.kam = None
      BY <1>1, <1>3, <1>7, <1>l, <2>1
    <2>2. CASE f.kam # None
      <3>1. PICK k \in Nat : k = Len(f.kam) /\ l = 2 + k
        BY <1>3, <1>l, <2>2
      <3>a. l = 2 + k
        BY <3>1, Zenon
      <3>2. \A x \in Nat : x + l = x + 2 + k
        BY <3>a
      <3>3. z + l = z + 2 + k
        BY <1>1, <3>2, Zenon
      <3> QED
        BY <1>7, <2>2, <3>1, <3>3, Zenon
    <2> QED
      BY <2>1, <2>2
  <1> QED
    BY <1>n, <1>1, <1>3, <1>5, <1>6, <1>7, <1>8, <1>9

\* The parser is where the parts of the frame are, and refuses nothing.
OnTrack(f) ==
    /\ field = "epoch" => off = 0
    /\ field = "index" => off = 1
    /\ field = "nonce_len" => off = 2
    /\ field = "nonce" => off = 3 /\ frame.len = Len(f.nonce)
    /\ field = "body_len" => off = NonceEnd(f)
    /\ field = "body" => off = NonceEnd(f) + 1 /\ frame.len = Len(f.body)
    /\ field = "kam_flag" => off = BodyEnd(f)
    /\ field = "kam_len" => off = BodyEnd(f) + 1 /\ f.kam # None
    /\ field = "kam" => off = BodyEnd(f) + 2 /\ f.kam # None /\ frame.len = Len(f.kam)
    /\ field = "end" => off = Len(blob)
    /\ field # "BadToken"

\* What fits in the blob is taken.
LEMMA FitsTaken ==
    ASSUME CursorInv, NEW n \in Nat, off + n <= Len(blob), NEW new, NEW next,
           Take(n, new, next)
    PROVE  off' = off + n /\ field' = next /\ frame' = new /\ blob' = blob
  <1>1. PICK o \in Nat, z \in Nat, M \in Nat :
            o = off /\ z = Len(blob) /\ M = UsizeMod /\ o <= z /\ z < M /\ o + n <= z
    BY CodecAssumption DEF CursorInv
  <1>2. AddUsize(n) = o + n
    <2>1. (o + n) % M = o + n
      <3>1. o < M /\ n < M /\ o + n < M
        BY <1>1
      <3> QED
        BY <3>1, WrapOnce
    <2> QED
      BY <1>1, <2>1 DEF AddUsize
  <1>3. ~ Truncated(n) /\ ~ (AddUsize(n) < off)
    BY <1>1, <1>2 DEF Truncated
  <1>4. off' = AddUsize(n) /\ field' = next /\ frame' = new /\ blob' = blob
    BY <1>3, Zenon DEF Take
  <1> QED
    BY <1>1, <1>2, <1>4

\* The parser follows the frame that was encoded.
LEMMA TrackStep ==
    ASSUME CursorInv, NEW f \in Given, to_token(f) = blob, OnTrack(f), [Next]_vars
    PROVE  OnTrack(f)'
  <1>0. PICK n \in Nat, b \in Nat, m \in Nat, z \in Nat, L \in Nat, o \in Nat :
            /\ n = Len(f.nonce) /\ b = Len(f.body) /\ m = NonceEnd(f) /\ z = BodyEnd(f)
            /\ L = Len(blob) /\ o = off
    <2>1. /\ Len(f.nonce) \in Nat /\ Len(f.body) \in Nat /\ NonceEnd(f) \in Nat
          /\ BodyEnd(f) \in Nat
      BY TokenPlaces
    <2>2. Len(blob) \in Nat /\ off \in Nat
      BY DEF CursorInv
    <2> QED
      BY <2>1, <2>2, Zenon
  <1>n. n = Len(f.nonce) /\ b = Len(f.body) /\ m = NonceEnd(f) /\ z = BodyEnd(f)
    BY <1>0
  <1>o. L = Len(blob) /\ o = off
    BY <1>0
  <1>1. m = 3 + n /\ z = m + 1 + b
    BY <1>n, TokenPlaces DEF NonceEnd
  <1>2. blob[3] = n /\ blob[m + 1] = b /\ blob[z + 1] = IF f.kam = None THEN 0 ELSE 1
    BY <1>n, TokenPlaces
  <1>3. f.kam = None => L = z + 1
    BY <1>n, <1>o, TokenPlaces
  <1>4. f.kam # None => \E c \in Nat : c = Len(f.kam) /\ blob[z + 2] = c /\ L = z + 2 + c
    BY <1>n, <1>o, TokenPlaces
  <1>5. L >= z + 1
    BY <1>3, <1>4
  <1>d. o < L => Digit = blob[o + 1]
    BY <1>o DEF Digit
  <1>r. frame \in Frames
    BY DEF CursorInv
  <1>6. CASE TakeEpoch
    <2>1. field = "epoch" /\ o = 0 /\ o + 1 <= L
      BY <1>o, <1>1, <1>5, <1>6 DEF TakeEpoch, OnTrack
    <2>2. off' = o + 1 /\ field' = "index"
      BY <1>o, <1>6, <2>1, FitsTaken DEF TakeEpoch
    <2> QED
      BY <1>o, <2>1, <2>2 DEF OnTrack
  <1>7. CASE TakeIndex
    <2>1. field = "index" /\ o = 1 /\ o + 1 <= L
      BY <1>o, <1>1, <1>5, <1>7 DEF TakeIndex, OnTrack
    <2>2. off' = o + 1 /\ field' = "nonce_len"
      BY <1>o, <1>7, <2>1, FitsTaken DEF TakeIndex
    <2> QED
      BY <1>o, <2>1, <2>2 DEF OnTrack
  <1>8. CASE TakeNonceLen
    <2>1. field = "nonce_len" /\ o = 2 /\ o + 1 <= L /\ Digit = n
      BY <1>o, <1>1, <1>2, <1>5, <1>8, <1>d DEF TakeNonceLen, OnTrack
    <2>2. off' = o + 1 /\ field' = "nonce" /\ frame' = [frame EXCEPT !.len = Digit]
      BY <1>o, <1>8, <2>1, FitsTaken DEF TakeNonceLen
    <2>3. frame'.len = n
      BY <1>r, <2>1, <2>2 DEF Frames
    <2> QED
      BY <1>o, <1>n, <2>1, <2>2, <2>3 DEF OnTrack
  <1>9. CASE TakeNonce
    <2>a. field = "nonce" /\ o = 3 /\ frame.len = n
      BY <1>o, <1>n, <1>9, Zenon DEF TakeNonce, OnTrack
    <2>b. o + n <= L
      BY <1>1, <1>5, <2>a
    <2>1. field = "nonce" /\ o = 3 /\ frame.len = n /\ o + n <= L
      BY <2>a, <2>b
    <2>2. off' = o + n /\ field' = "body_len"
      BY <1>o, <1>1, <1>9, <2>1, FitsTaken DEF TakeNonce
    <2> QED
      BY <1>o, <1>n, <1>1, <2>1, <2>2 DEF OnTrack
  <1>10. CASE TakeBodyLen
    <2>a. field = "body_len" /\ o = m
      BY <1>o, <1>n, <1>10, Zenon DEF TakeBodyLen, OnTrack
    <2>b. o + 1 <= L /\ o < L
      BY <1>1, <1>5, <2>a
    <2>1. field = "body_len" /\ o = m /\ o + 1 <= L /\ Digit = b
      BY <1>2, <1>d, <2>a, <2>b, Zenon
    <2>2. off' = o + 1 /\ field' = "body" /\ frame' = [frame EXCEPT !.len = Digit]
      BY <1>o, <1>10, <2>1, FitsTaken DEF TakeBodyLen
    <2>3. frame'.len = b
      BY <1>r, <2>1, <2>2 DEF Frames
    <2> QED
      BY <1>o, <1>n, <2>1, <2>2, <2>3 DEF OnTrack
  <1>11. CASE TakeBody
    <2>a. field = "body" /\ o = m + 1 /\ frame.len = b
      BY <1>o, <1>n, <1>11, Zenon DEF TakeBody, OnTrack
    <2>b. o + b <= L
      BY <1>1, <1>5, <2>a
    <2>1. field = "body" /\ o = m + 1 /\ frame.len = b /\ o + b <= L
      BY <2>a, <2>b
    <2>2. off' = o + b /\ field' = "kam_flag"
      BY <1>o, <1>1, <1>11, <2>1, FitsTaken DEF TakeBody
    <2> QED
      BY <1>o, <1>n, <1>1, <2>1, <2>2 DEF OnTrack
  <1>12. CASE TakeKamFlag
    <2>1. /\ field = "kam_flag" /\ o = z /\ o + 1 <= L
          /\ Digit = IF f.kam = None THEN 0 ELSE 1
      <3>1. field = "kam_flag" /\ o = z
        BY <1>o, <1>n, <1>12, Zenon DEF TakeKamFlag, OnTrack
      <3>2. o + 1 <= L /\ o < L
        BY <1>1, <1>5, <3>1
      <3> QED
        BY <1>2, <1>d, <3>1, <3>2, Zenon
    <2>2. PICK next :
              /\ next = CASE Digit = 0 -> "end" [] Digit = 1 -> "kam_len" [] OTHER -> "BadToken"
              /\ Take(1, frame, next)
      BY <1>12 DEF TakeKamFlag
    <2>3. off' = o + 1 /\ field' = next /\ blob' = blob
      BY <1>o, <2>1, <2>2, FitsTaken
    <2>4. CASE f.kam = None
      <3>1. next = "end" /\ L = z + 1
        BY <1>3, <2>1, <2>2, <2>4
      <3> QED
        BY <1>o, <2>1, <2>3, <3>1 DEF OnTrack
    <2>5. CASE f.kam # None
      <3>1. next = "kam_len"
        BY <2>1, <2>2, <2>5
      <3> QED
        BY <1>o, <1>n, <2>1, <2>3, <2>5, <3>1 DEF OnTrack
    <2> QED
      BY <2>4, <2>5
  <1>13. CASE TakeKamLen
    <2>1. /\ field = "kam_len" /\ o = z + 1 /\ f.kam # None
      BY <1>o, <1>n, <1>13 DEF TakeKamLen, OnTrack
    <2>2. PICK k \in Nat : k = Len(f.kam) /\ blob[z + 2] = k /\ L = z + 2 + k
      BY <1>4, <2>1
    <2>b. o = z + 1 /\ L = z + 2 + k
      BY <2>1, <2>2, Zenon
    <2>a. o + 1 <= L /\ o < L /\ o + 1 = z + 2
      BY <2>b
    <2>3. o + 1 <= L /\ Digit = k
      BY <1>d, <2>2, <2>a, Zenon
    <2>4. off' = o + 1 /\ field' = "kam" /\ frame' = [frame EXCEPT !.len = Digit]
      BY <1>o, <1>13, <2>3, FitsTaken DEF TakeKamLen
    <2>5. frame'.len = k
      BY <1>r, <2>3, <2>4 DEF Frames
    <2> QED
      BY <1>o, <1>n, <1>1, <2>1, <2>2, <2>4, <2>5 DEF OnTrack
  <1>14. CASE TakeKam
    <2>1. field = "kam" /\ o = z + 2 /\ f.kam # None /\ frame.len = Len(f.kam)
      BY <1>o, <1>n, <1>14 DEF TakeKam, OnTrack
    <2>2. PICK k \in Nat : k = Len(f.kam) /\ L = z + 2 + k
      BY <1>4, <2>1
    <2>3. o + k <= L /\ frame.len = k
      BY <1>1, <2>1, <2>2
    <2>4. off' = o + k /\ field' = "end" /\ blob' = blob
      BY <1>o, <1>14, <2>3, FitsTaken DEF TakeKam
    <2> QED
      BY <1>o, <2>1, <2>2, <2>4 DEF OnTrack
  <1>15. CASE End \/ OpenParsed \/ UNCHANGED vars
    BY <1>o, <1>15 DEF End, OpenParsed, vars, OnTrack
  <1> QED
    BY <1>6, <1>7, <1>8, <1>9, <1>10, <1>11, <1>12, <1>13, <1>14, <1>15 DEF Next

\* The parser is on the track of whatever frame the blob encodes.
TrackInv == \A f \in Given : to_token(f) = blob => OnTrack(f)

\* A blob that encodes some frame is never refused.
THEOREM NoEncodingRefusedHolds == Spec => []NoEncodingRefused
  <1>1. Init => TrackInv
    BY DEF Init, TrackInv, OnTrack
  <1>2. CursorInv /\ TrackInv /\ [Next]_vars => TrackInv'
    <2> SUFFICES ASSUME CursorInv, TrackInv, [Next]_vars, NEW f \in Given, to_token(f) = blob'
        PROVE  OnTrack(f)'
      BY DEF TrackInv
    <2>1. blob' = blob
      BY DEF Next, vars, Take, TakeEpoch, TakeIndex, TakeNonceLen, TakeNonce, TakeBodyLen, TakeBody,
             TakeKamFlag, TakeKamLen, TakeKam, End, OpenParsed
    <2> QED
      BY <2>1, TrackStep DEF TrackInv
  <1>3. TrackInv => NoEncodingRefused
    <2> SUFFICES ASSUME TrackInv, field = "BadToken", NEW e \in Digits, NEW i \in Digits,
                        NEW n \in BoundedSeq(Digits, MaxBlob - 5),
                        NEW b \in BoundedSeq(Digits, MaxBlob - 5),
                        NEW k \in BoundedSeq(Digits, MaxBlob - 6) \cup {None}
        PROVE  to_token([epoch |-> e, index |-> i, nonce |-> n, body |-> b, kam |-> k]) # blob
      BY DEF NoEncodingRefused
    <2>1. \A l \in Int : BoundedSeq(Digits, l) \subseteq Seq(Digits)
      BY DEF BoundedSeq, SeqOf
    <2>2. MaxBlob - 5 \in Int /\ MaxBlob - 6 \in Int
      BY CodecAssumption
    <2>3. n \in Seq(Digits) /\ b \in Seq(Digits) /\ k \in Seq(Digits) \cup {None}
      BY <2>1, <2>2
    <2>4. [epoch |-> e, index |-> i, nonce |-> n, body |-> b, kam |-> k] \in Given
      BY <2>3 DEF Given
    <2> QED
      BY <2>4 DEF TrackInv, OnTrack
  <1> QED
    BY <1>1, <1>2, <1>3, CursorInvariant, PTL DEF Spec
=============================================================================
