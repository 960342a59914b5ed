------------------------------- MODULE Codec -------------------------------
(***************************************************************************)
(* How a value becomes the bytes of a record and back: the transformer     *)
(* (vfs/transformer.go) and the conversions of vfs/segment.go.  Bytes are  *)
(* terms: a pair of what made them and what it was given, so that only the *)
(* inverse of the outermost conversion gives back the inner one.           *)
(*                                                                         *)
(* Decrypting with the wrong key yields arbitrary bytes.  That these are a *)
(* document of the right length, or a snappy block, by chance is left out. *)
(***************************************************************************)
CONSTANTS
    Secrets,   \* keys for AES, of a valid length
    NoSecret   \* encryption is off

ASSUME CodecAssumption ==
    /\ NoSecret \notin Secrets
    /\ {"bson", "snappy", "empty", "garbage", "broken", "panic"} \cap Secrets = {}

\* flags and secret of a Transformer; Plain is NewTransformer().
Transformer == [compress : BOOLEAN, secret : Secrets \cup {NoSecret}]

Plain == [compress |-> FALSE, secret |-> NoSecret]

Bson(payload) == <<"bson", payload>>  \* ToBSON of the value types
Empty   == <<"empty", "">>            \* the value of a tombstone
Garbage == <<"garbage", "">>          \* bytes that are nothing in particular

\* What a conversion does when it returns no bytes.
Broken == <<"broken", "">>            \* it returns an error
Panic  == <<"panic", "">>             \* it panics

-----------------------------------------------------------------------------

Compress(v) == <<"snappy", v>>

Encrypt(secret, v) == <<secret, v>>

\* Mutant: encrypt, then compress.
EncodeSwapped(t, v) ==
    LET sealed == IF t.secret = NoSecret THEN v ELSE Encrypt(t.secret, v)
    IN  IF t.compress THEN Compress(sealed) ELSE sealed

\* Transformer.Encode: compress, then encrypt.
Encode(t, v) ==
    LET packed == IF t.compress THEN Compress(v) ELSE v
    IN  IF t.secret = NoSecret THEN packed ELSE Encrypt(t.secret, packed)

Decompress(v) == IF v[1] = "snappy" THEN v[2] ELSE Broken

\* Decrypt cuts off the first block without looking at the length, requires
\* whole blocks, and takes the last byte for the number of bytes to drop: it
\* panics on an empty value and may panic on bytes it did not encrypt.
Decrypt(secret, v) ==
    IF v[1] = secret THEN {v[2]}
    ELSE IF v = Empty THEN {Panic}
    ELSE {Panic, Garbage}

\* Transformer.Decode: the results it may have.
Decode(t, v) ==
    LET opened == IF t.secret = NoSecret THEN {v} ELSE Decrypt(t.secret, v)
    IN  {IF t.compress /\ d # Panic THEN Decompress(d) ELSE d : d \in opened}

-----------------------------------------------------------------------------

\* Mutant: the type is not compared; bson ignores the fields it does not know.
ConvertUntyped(wanted, has, v) ==
    IF v[1] = "bson" THEN (IF wanted = has THEN v ELSE Bson("")) ELSE Broken

\* ToSet, ToZSet, ToText, ToList, ToTable, ToNumber of a segment of kind "has"
\* with decoded value v.
Convert(wanted, has, v) ==
    IF wanted = has /\ v[1] = "bson" THEN v ELSE Broken

=============================================================================
