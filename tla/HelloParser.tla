----------------------------- MODULE HelloParser -----------------------------
(***************************************************************************)
(* The ClientHello parser of the TCP capture server: readClientHello and   *)
(* analyze, capture/main.go:191-309, 420-436.  A slice out of bounds would *)
(* panic in a goroutine without a recover and end the server, so what      *)
(* matters is where each slice lies, for every length the wire can carry.  *)
(*                                                                         *)
(* Bytes are not kept: each length is read once, so reading it is choosing *)
(* any value of its width.  Positions are offsets into the hello's body;   *)
(* those inside an extension are offsets into its data.  `access` is the   *)
(* slice the last step took and the length of what it was taken from.      *)
(***************************************************************************)
EXTENDS Integers

CONSTANTS Bytes,   \* values of a one-byte length on the wire
          U16s,    \* values of a two-byte length
          U24s,    \* values of the three-byte length of the body
          Fixed    \* bytes before the session id: version and random (34)

ASSUME WireAssumption ==
  /\ Bytes \subseteq Nat /\ U16s \subseteq Nat /\ U24s \subseteq Nat
  /\ Fixed \in Nat \ {0, 1}

VARIABLES
  place,       \* where analyze is
  size,     \* len(hs), then len(body)
  pos,        \* the position in the body
  end,      \* the end of the extensions
  len,      \* len(data) of the extension being read, and of the cipher list
  off,        \* the position in it
  stop,     \* where the declared length says its list ends
  access    \* the last slice

parserVars == <<place, size, pos, end, len, off, stop, access>>

Slice(lo, hi, of) == [lo |-> lo, hi |-> hi, of |-> of]

\* readClientHello reads a whole record: its length is the one it declares.
ParserInit ==
  /\ place = "record" /\ size \in U16s
  /\ pos = 0 /\ end = 0 /\ len = 0 /\ off = 0 /\ stop = 0
  /\ access = Slice(0, 0, 0)

Fail == place' = "error" /\ UNCHANGED <<size, pos, end, len, off, stop, access>>

-----------------------------------------------------------------------------
(* The fixed part                                                          *)

TooShort(n) == size < 4 \/ size - 4 < n \/ n < Fixed

\* Another handshake message than a ClientHello fails, and so do less than a
\* header, a truncated body and a short one; then body = body[:bodyLen].
Handshake == place = "record" /\ \E n \in U24s, isHello \in BOOLEAN :
  IF TooShort(n) \/ ~isHello THEN Fail
  ELSE /\ access' = Slice(0, n, size - 4)
       /\ size' = n /\ pos' = Fixed /\ place' = "session"
       /\ UNCHANGED <<end, len, off, stop>>

\* Mutated form: the test leaves no room for the second byte.
RoomForOne(p, limit) == p + 1 <= limit

\* Is there room for a two-byte length?
RoomForTwo(p, limit) == p + 2 <= limit

SessionID == place = "session" /\
  IF pos >= size THEN Fail
  ELSE \E n \in Bytes :
    /\ access' = Slice(pos, pos + 1, size)
    /\ pos' = pos + 1 + n
    /\ place' = IF RoomForTwo(pos', size) THEN "ciphers" ELSE "error"
    /\ UNCHANGED <<size, end, len, off, stop>>

CipherLength == place = "ciphers" /\ \E n \in U16s :
  /\ access' = Slice(pos, pos + 2, size)
  /\ pos' = pos + 2
  /\ IF pos' + n > size THEN place' = "error" /\ UNCHANGED <<len, off>>
     ELSE place' = "cipher" /\ len' = n /\ off' = 0
  /\ UNCHANGED <<size, end, stop>>

Cipher == place = "cipher" /\
  IF RoomForTwo(off, len)
  THEN /\ access' = Slice(pos + off, pos + off + 2, size)
       /\ off' = off + 2
       /\ UNCHANGED <<place, size, pos, end, len, stop>>
  ELSE /\ pos' = pos + len /\ place' = "compression"
       /\ UNCHANGED <<size, end, len, off, stop, access>>

\* The position may be past the body now: then there are no extensions.
Compression == place = "compression" /\
  IF pos >= size THEN Fail
  ELSE \E n \in Bytes :
    /\ access' = Slice(pos, pos + 1, size)
    /\ pos' = pos + 1 + n
    /\ place' = IF RoomForTwo(pos', size) THEN "extensions" ELSE "done"
    /\ UNCHANGED <<size, end, len, off, stop>>

-----------------------------------------------------------------------------
(* The extensions                                                          *)

\* Mutated form: the declared length is believed.
ClippedNever(e) == e

Clipped(e) == IF e > size THEN size ELSE e

ExtensionsLength == place = "extensions" /\ \E n \in U16s :
  /\ access' = Slice(pos, pos + 2, size)
  /\ pos' = pos + 2
  /\ end' = Clipped(pos' + n)
  /\ place' = "extension"
  /\ UNCHANGED <<size, len, off, stop>>

\* The kinds of data analyze looks into; every other extension is "skipped".
Kinds == {"skipped", "sni", "list16", "list8", "alpn"}

\* The header of an extension; one that does not fit ends the loop.
Extension == place = "extension" /\
  IF pos + 4 > end THEN place' = "done" /\ UNCHANGED <<size, pos, end, len, off, stop, access>>
  ELSE \E n \in U16s :
    IF pos + 4 + n > end
    THEN /\ access' = Slice(pos, pos + 4, size)
         /\ pos' = pos + 4 /\ place' = "done"
         /\ UNCHANGED <<size, end, len, off, stop>>
    ELSE /\ access' = Slice(pos, pos + 4 + n, size)
         /\ pos' = pos + 4 + n /\ len' = n
         /\ \E kind \in Kinds : place' = IF kind = "skipped" THEN "extension" ELSE kind
         /\ UNCHANGED <<size, end, off, stop>>

\* server_name: the name's length is at 3, the name at 5.
ServerName == place = "sni" /\
  IF len < 5 THEN place' = "extension" /\ UNCHANGED <<size, pos, end, len, off, stop, access>>
  ELSE \E n \in U16s :
    /\ access' = IF 5 + n <= len THEN Slice(5, 5 + n, len) ELSE Slice(3, 5, len)
    /\ place' = "extension"
    /\ UNCHANGED <<size, pos, end, len, off, stop>>

\* supported_groups and signature_algorithms have a two-byte length,
\* supported_versions a one-byte length, and ALPN two bytes again.
ListHeader(kind, width, lengths, next) == place = kind /\
  IF len < width THEN place' = "extension" /\ UNCHANGED <<size, pos, end, len, off, stop, access>>
  ELSE \E n \in lengths :
    /\ access' = Slice(0, width, len)
    /\ off' = width /\ stop' = width + n
    /\ place' = next
    /\ UNCHANGED <<size, pos, end, len>>

MoreItems == off + 2 <= stop /\ off + 2 <= len

Item == place = "item" /\
  IF MoreItems
  THEN /\ access' = Slice(off, off + 2, len)
       /\ off' = off + 2
       /\ UNCHANGED <<place, size, pos, end, len, stop>>
  ELSE place' = "extension" /\ UNCHANGED <<size, pos, end, len, off, stop, access>>

\* Mutated form: the length byte of a name is not skipped.
AfterNameUnskipped(n) == off + n

AfterName(n) == off + 1 + n

Protocol == place = "protocol" /\
  IF off >= stop \/ off >= len
  THEN place' = "extension" /\ UNCHANGED <<size, pos, end, len, off, stop, access>>
  ELSE \E n \in Bytes :
    IF off + 1 + n > len
    THEN /\ access' = Slice(off, off + 1, len)
         /\ off' = off + 1 /\ place' = "extension"
         /\ UNCHANGED <<size, pos, end, len, stop>>
    ELSE /\ access' = Slice(off, off + 1 + n, len)
         /\ off' = AfterName(n)
         /\ UNCHANGED <<place, size, pos, end, len, stop>>

ParserNext ==
  \/ Handshake \/ SessionID \/ CipherLength \/ Cipher \/ Compression
  \/ ExtensionsLength \/ Extension \/ ServerName
  \/ ListHeader("list16", 2, U16s, "item") \/ ListHeader("list8", 1, Bytes, "item")
  \/ ListHeader("alpn", 2, U16s, "protocol")
  \/ Item \/ Protocol

ParserSpec == ParserInit /\ [][ParserNext]_parserVars

-----------------------------------------------------------------------------
(* Properties                                                              *)

\* No step takes a slice that is not inside what it is taken from: no hello
\* makes analyze panic (capture/main.go:200-309).
SlicesInBounds == 0 <= access.lo /\ access.lo <= access.hi /\ access.hi <= access.of

\* The strengthening of SlicesInBounds: what each place of analyze knows of its
\* positions when it takes the next slice.
Positions ==
  /\ place \in {"record", "session", "ciphers", "cipher", "compression", "extensions", "extension",
             "item", "protocol", "error", "done"} \cup Kinds
  /\ size \in Nat /\ pos \in Nat /\ end \in Nat /\ len \in Nat /\ off \in Nat /\ stop \in Nat
  /\ place = "record" => pos = 0
  /\ place \in {"ciphers", "extensions"} => pos + 2 <= size
  /\ place = "cipher" => pos + len <= size
  /\ place \in {"extension", "item", "protocol"} \cup Kinds => end <= size
  /\ access \in [lo : Nat, hi : Nat, of : Nat] /\ SlicesInBounds

\* How far each place is in one pass over an extension, or over the fixed part.
Order(p) ==
  CASE p = "record" -> 0 [] p = "session" -> 1 [] p = "ciphers" -> 2 [] p = "cipher" -> 3
    [] p = "compression" -> 4 [] p = "extensions" -> 5 [] p \in Kinds -> 6
    [] p \in {"item", "protocol"} -> 7 [] p = "extension" -> 8 [] OTHER -> 9

\* Every step moves forward: in the body, or to a later place, or in a list.
\* The loops of analyze run only inside the body and inside an extension, so
\* none of them goes on for ever (capture/main.go:227, 252, 273-303).
Advances == [][\/ pos' > pos
               \/ pos' = pos /\ Order(place') > Order(place)
               \/ pos' = pos /\ place' = place /\ off' > off]_parserVars
=============================================================================
