------------------------------- MODULE OpPayloads -------------------------------
(***************************************************************************)
(* The bodies of the sshush-op requests that carry more than one field:    *)
(* vault/payload.go lays them out, the parsers of vault/op.go take them    *)
(* apart, in a daemon that may be older or newer than its client.          *)
(*                                                                         *)
(* A body is a sequence of byte values below Base, a length field is       *)
(* LengthBytes of them, most significant first (256 and 4 in the code).    *)
(* Positions are the code's, plus one.                                     *)
(***************************************************************************)
EXTENDS Integers, Sequences, SequencesExt

CONSTANTS Base,       \* bound: byte values 0 .. Base - 1
          MaxField,   \* bound: length of a field that is built, below Base: no key of 2^24 bytes
          MaxBody     \* bound: length of a body that is not built

LengthBytes == 2

(* The first byte of a length field is zero for every field there is. *)
FieldsAreShort ==
  /\ Base \in Nat /\ MaxField \in Nat /\ MaxBody \in Nat
  /\ MaxField < Base

VARIABLES op,      \* the parser at work
          fields,  \* what the client laid out, or NotBuilt
          body,
          answer   \* what the parser returned

vars == <<op, fields, body, answer>>

Byte == 0 .. Base - 1
Texts(n) == BoundedSeq(Byte, n)

NotBuilt == [key |-> <<>>, text |-> <<>>, flag |-> -1]
Fields == [key : Texts(MaxField), text : Texts(MaxField), flag : {0, 1}]

Fail(why) == [got |-> why, key |-> <<>>, text |-> <<>>, flag |-> -1]
Pending == Fail("pending")
Error == Fail("error")
Panic == Fail("panic")  \* index out of range
Parsed(key, text, flag) == [got |-> "fields", key |-> key, text |-> text, flag |-> flag]

Ops == {"autoload", "comment", "key", "legacyKey"}

(* ------------------------------- builders -------------------------------- *)

Length(s) == <<Len(s) \div Base, Len(s) % Base>>

BuildSetAutoload(f) == Length(f.key) \o f.key \o <<f.flag>>

BuildSetComment(f) == Length(f.key) \o f.key \o Length(f.text) \o f.text

(* Version 1: the PEM and the path it was read from. *)
BuildAddKey(f) == <<1>> \o Length(f.key) \o f.key \o <<f.flag>> \o Length(f.text) \o f.text

(* What an older client sends: no version and no path. *)
BuildLegacy(f) == Length(f.key) \o f.key \o <<f.flag>>

Build(o, f) ==
  CASE o = "autoload" -> BuildSetAutoload(f) [] o = "comment" -> BuildSetComment(f)
    [] o = "key" -> BuildAddKey(f) [] o = "legacyKey" -> BuildLegacy(f)

(* -------------------------------- parsers -------------------------------- *)

(* The length field that starts after the first n bytes, and the m bytes after them. *)
LengthAt(b, n) == b[n + 1] * Base + b[n + 2]
Part(b, n, m) == SubSeq(b, n + 1, n + m)

ParseSetAutoload(b) ==
  IF Len(b) < LengthBytes + 1 \/ LengthAt(b, 0) + LengthBytes + 1 # Len(b) THEN Error
  ELSE LET keyLen == LengthAt(b, 0)
       IN  IF b[Len(b)] \notin {0, 1} THEN Error
           ELSE Parsed(Part(b, LengthBytes, keyLen), <<>>, b[Len(b)])

(* Mutation of KeyFits: the autoload byte is not counted. *)
BugKeyFits(b, keyLen) == LengthBytes + keyLen <= Len(b)

(* The body holds its key and a second length field behind it. *)
KeyFits(b, keyLen) == 2 * LengthBytes + keyLen <= Len(b)

ParseSetComment(b) ==
  IF Len(b) < 2 * LengthBytes THEN Error
  ELSE LET keyLen == LengthAt(b, 0)
           start == LengthBytes + keyLen
       IN  IF ~KeyFits(b, keyLen) THEN Error
           ELSE IF start + LengthBytes > Len(b) THEN Panic
           ELSE IF start + LengthBytes + LengthAt(b, start) # Len(b) THEN Error
           ELSE Parsed(Part(b, LengthBytes, keyLen),
                       Part(b, start + LengthBytes, LengthAt(b, start)), -1)

(* A length field of a legacy body begins with zero for any key there is. *)
IsVersioned(b) == b[1] = 1 /\ Len(b) >= 2 + 2 * LengthBytes

(* Mutation of PathOf: a path that ends with the body is left out. *)
BugPathOf(b, n) ==
  IF n + LengthBytes > Len(b) THEN <<>>
  ELSE LET pathLen == LengthAt(b, n)
       IN  IF n + LengthBytes + pathLen >= Len(b) THEN <<>>
           ELSE Part(b, n + LengthBytes, pathLen)

(* The path is optional: one that does not fit is left out. *)
PathOf(b, n) ==
  IF n + LengthBytes > Len(b) THEN <<>>
  ELSE LET pathLen == LengthAt(b, n)
       IN  IF n + LengthBytes + pathLen > Len(b) THEN <<>>
           ELSE Part(b, n + LengthBytes, pathLen)

(* The guard lets the PEM reach the end of the body; the autoload byte is read next. *)
SplitVersioned(b) ==
  LET pemLen == LengthAt(b, 1)
      flagAt == 1 + LengthBytes + pemLen
  IN  IF flagAt > Len(b) THEN Error
      ELSE IF flagAt = Len(b) THEN Panic
      ELSE IF b[flagAt + 1] \notin {0, 1} THEN Error
      ELSE Parsed(Part(b, 1 + LengthBytes, pemLen), PathOf(b, flagAt + 1), b[flagAt + 1])

SplitLegacy(b) ==
  LET pemLen == LengthAt(b, 0)
  IN  IF pemLen > Len(b) - (LengthBytes + 1) THEN Error
      ELSE IF b[LengthBytes + pemLen + 1] \notin {0, 1} THEN Error
      ELSE Parsed(Part(b, LengthBytes, pemLen), <<>>, b[LengthBytes + pemLen + 1])

SplitAddKey(b) ==
  IF Len(b) < LengthBytes + 1 THEN Error
  ELSE IF IsVersioned(b) THEN SplitVersioned(b) ELSE SplitLegacy(b)

Parse(o, b) ==
  CASE o = "autoload" -> ParseSetAutoload(b) [] o = "comment" -> ParseSetComment(b)
    [] o \in {"key", "legacyKey"} -> SplitAddKey(b)

(* A body the client built, or any other up to MaxBody. *)
Init ==
  /\ op \in Ops
  /\ answer = Pending
  /\ \/ fields \in Fields /\ body = Build(op, fields)
     \/ fields = NotBuilt /\ body \in Texts(MaxBody)

Handle == answer = Pending /\ answer' = Parse(op, body) /\ UNCHANGED <<op, fields, body>>

Next == Handle

Spec == Init /\ [][Next]_vars

-----------------------------------------------------------------------------

(* What a client built is what the daemon takes apart, whichever of the two layouts of
   add-key-opts it uses (vault/payload.go:11-58, vault/op.go:122-198). *)
RoundTrip ==
  fields # NotBuilt /\ answer # Pending =>
    /\ answer.got = "fields" /\ answer.key = fields.key
    /\ op \in {"comment", "key"} => answer.text = fields.text
    /\ op # "comment" => answer.flag = fields.flag

(* No body makes a parser read past its end, but one: a version 1 key whose PEM fills
   the body, so that no autoload byte follows (vault/op.go:168-172). *)
ReadsInside ==
  answer = Panic =>
    op \in {"key", "legacyKey"} /\ body[1] = 1 /\ Len(body) = 1 + LengthBytes + LengthAt(body, 1)

(* A client and a daemon agree on every body, and no body harms the parser but one
   (vault/payload.go, op.go). *)
PayloadsAgree == RoundTrip /\ ReadsInside
=============================================================================
