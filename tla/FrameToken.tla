---------------------------- MODULE FrameToken -----------------------------
(***************************************************************************)
(* The pqdr1 token codec of src/src/dm_session.rs: to_token as an          *)
(* operator, from_token as the cursor machine it is (one step per take!),  *)
(* followed by the call of open that reads the parsed frame.               *)
(*                                                                         *)
(* The codec is scaled down: a digit stands for an integer field as a      *)
(* whole (the u64 epoch and index, the u32 lengths, the flag byte) and     *)
(* for a byte of a payload.  The scheme prefix and the base64 text are     *)
(* outside: a token is the sequence of digits it decodes to.               *)
(***************************************************************************)
EXTENDS Integers, Sequences, SequencesExt

CONSTANTS
    Digits,      \* what a field or byte may hold; the greatest is u32::MAX
    UsizeMod,    \* 2^w for a usize of w bits, in which offsets are added
    NonceLen,    \* FRAME_NONCE_LEN
    None,        \* Option::None
    MaxBlob      \* bound: the length of a blob

ASSUME CodecAssumption ==
    /\ Digits \subseteq Nat /\ {0, 1} \subseteq Digits
    /\ NonceLen \in Nat /\ MaxBlob \in Nat
    /\ UsizeMod \in Nat /\ MaxBlob < UsizeMod
    /\ \A d \in Digits : d < UsizeMod
    /\ None \notin Seq(Digits)

VARIABLES
    blob,     \* the bytes under the token
    off,      \* the cursor
    field,    \* the field from_token reads next, or how it ended
    frame     \* the fields read so far

vars == <<blob, off, field, frame>>

\* (A payload of 2^32 bytes or more, whose length as u32 would be cut, is beyond
\* what a digit counts.)
to_token(f) ==
    <<f.epoch, f.index, Len(f.nonce)>> \o f.nonce \o <<Len(f.body)>> \o f.body
    \o (IF f.kam = None THEN <<0>> ELSE <<1, Len(f.kam)>> \o f.kam)

EmptyFrame ==
    [epoch |-> 0, index |-> 0, nonce |-> << >>, body |-> << >>, kam |-> None,
     len |-> 0]

-----------------------------------------------------------------------------
Init ==
    /\ blob \in BoundedSeq(Digits, MaxBlob)
    /\ off = 0
    /\ field = "epoch"
    /\ frame = EmptyFrame

\* off + n, in a build whose additions wrap around.
AddUsize(n) == (off + n) % UsizeMod

\* Mutant: a field that reaches the end of the blob is refused.
Truncated_OffByOne(n) == AddUsize(n) >= Len(blob)

\* The check of take!(n); a sum that wrapped around passes it.
Truncated(n) == AddUsize(n) > Len(blob)

Taken(n) == SubSeq(blob, off + 1, off + n)

\* take!(n): n bytes; or too few are left, or the sum wrapped around and the
\* slice would end before it starts, which stops the program.
Take(n, new, next) ==
    \/ /\ ~ Truncated(n) /\ AddUsize(n) >= off
       /\ off' = AddUsize(n)
       /\ frame' = new
       /\ field' = next
       /\ UNCHANGED blob
    \/ /\ Truncated(n) \/ AddUsize(n) < off
       /\ field' = IF Truncated(n) THEN "BadToken" ELSE "panic"
       /\ UNCHANGED <<blob, off, frame>>

\* The digit under the cursor; only looked at when Take has one.
Digit == IF off < Len(blob) THEN blob[off + 1] ELSE 0

TakeEpoch == field = "epoch" /\ Take(1, [frame EXCEPT !.epoch = Digit], "index")
TakeIndex == field = "index" /\ Take(1, [frame EXCEPT !.index = Digit], "nonce_len")
TakeNonceLen == field = "nonce_len" /\ Take(1, [frame EXCEPT !.len = Digit], "nonce")
TakeNonce ==
    field = "nonce" /\ Take(frame.len, [frame EXCEPT !.nonce = Taken(frame.len)], "body_len")
TakeBodyLen == field = "body_len" /\ Take(1, [frame EXCEPT !.len = Digit], "body")
TakeBody ==
    field = "body" /\ Take(frame.len, [frame EXCEPT !.body = Taken(frame.len)], "kam_flag")

\* Mutant: every flag but 0 means present.
TakeKamFlag_AnyNonzero ==
    /\ field = "kam_flag"
    /\ Take(1, frame, IF Digit = 0 THEN "end" ELSE "kam_len")

\* The presence flag: 0, 1 or an error.
TakeKamFlag ==
    /\ field = "kam_flag"
    /\ Take(1, frame, CASE Digit = 0 -> "end" [] Digit = 1 -> "kam_len" [] OTHER -> "BadToken")

TakeKamLen == field = "kam_len" /\ Take(1, [frame EXCEPT !.len = Digit], "kam")
TakeKam ==
    field = "kam" /\ Take(frame.len, [frame EXCEPT !.kam = Taken(frame.len)], "end")

\* Trailing bytes are an error.
End ==
    /\ field = "end"
    /\ field' = IF off = Len(blob) THEN "Ok" ELSE "BadToken"
    /\ UNCHANGED <<blob, off, frame>>

\* open hands the nonce to Nonce::from_slice, which stops the program unless it
\* has the length of a nonce; its other results are DmSession's subject.
OpenParsed ==
    /\ field = "Ok"
    /\ field' = IF Len(frame.nonce) = NonceLen THEN "opened" ELSE "open panic"
    /\ UNCHANGED <<blob, off, frame>>

Next ==
    \/ TakeEpoch \/ TakeIndex \/ TakeNonceLen \/ TakeNonce \/ TakeBodyLen \/ TakeBody
    \/ TakeKamFlag \/ TakeKamLen \/ TakeKam \/ End \/ OpenParsed

Spec == Init /\ [][Next]_vars

-----------------------------------------------------------------------------
\* Exactly the blobs to_token can produce are accepted: a parsed frame encodes
\* to the blob it was read from, so no two tokens give the same frame, an empty
\* KAM is not an absent one, and nothing is cut off or left over.  A length that
\* wraps the offset around, past the check for truncation, never gets a frame
\* accepted whose fields are not those of the blob.
ParsedIsEncoded == field = "Ok" => to_token(frame) = blob

\* Every frame that fits is parsed back: a blob that encodes some frame is never
\* refused.
NoEncodingRefused ==
    field = "BadToken" =>
        \A e \in Digits, i \in Digits, n, b \in BoundedSeq(Digits, MaxBlob - 5),
           k \in BoundedSeq(Digits, MaxBlob - 6) \cup {None} :
            to_token([epoch |-> e, index |-> i, nonce |-> n, body |-> b, kam |-> k]) # blob

\* "Malformed input returns a typed error, never a panic": a token that
\* from_token accepted does not stop open.
OpenNeverPanics == field # "open panic"
=============================================================================
