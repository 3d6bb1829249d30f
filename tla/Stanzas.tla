------------------------------ MODULE Stanzas ------------------------------
(***************************************************************************)
(* How a stanza becomes bytes and is read again (utils/coder.py).  A text  *)
(* is a word of one of the two dictionaries, a text of characters of one   *)
(* class, or a name put together of texts; bytes are a sequence of items:  *)
(* a byte with a meaning of its own, or the characters of one text.        *)
(***************************************************************************)
EXTENDS Integers, SequencesExt

(* Texts.  Of what is put together only that it is short matters. *)
Word(at)     == [of |-> "word", at |-> at]
RareWord(at) == [of |-> "rare word", at |-> at]
Chars(c, n)  == [of |-> c, size |-> n]
Typed(u)     == [of |-> "typed", user |-> u, size |-> 20]
Device(u, d) == [of |-> "device", user |-> u, device |-> d, size |-> 20]
Jid(u, s)    == [of |-> "jid", user |-> u, server |-> s, size |-> 40]

NotGiven == [of |-> "not given"]
Empty    == Word(0)
Phone    == Word(3)
Lid      == Word(118)
NoNumber == -1

TokenDictionary == {Word(i) : i \in 0..235} \cup {RareWord(i) : i \in 0..1023}

Byte(b)           == [byte |-> b]
Run(t, n, filler) == [text |-> t, bytes |-> n, filler |-> filler]

(* bytes() raises for what is no byte; so does None, where a text is due. *)
Unwritable == <<Byte(NoNumber)>>

IsByte(item) ==
    IF "byte" \in DOMAIN item THEN item.byte \in 0..255 ELSE item.text.of # "wide"

Sendable(data) == \A i \in DOMAIN data : IsByte(data[i])

----------------------------------------------------------------------------
(* Writing. *)

WriteInt16(v) == <<Byte((v \div 256) % 256), Byte(v % 256)>>
WriteInt20(v) == <<Byte((v \div 65536) % 16), Byte((v \div 256) % 256), Byte(v % 256)>>
WriteInt31(v) == <<Byte((v \div 16777216) % 128), Byte((v \div 65536) % 256),
                   Byte((v \div 256) % 256), Byte(v % 256)>>

WriteListStart(n) ==
    CASE n = 0 -> <<Byte(0)>>
      [] n \in 1..255 -> <<Byte(248), Byte(n)>>
      [] n > 255 -> <<Byte(249)>> \o WriteInt16(n)

(* Digits, "-" and "." are packed as nibbles, the letters A to F as well   *)
(* as hex; in an odd one the last half of a byte is filled up.             *)
TryPackAndWriteHeader(t) ==
    LET n   == (t.size + 1) \div 2
        odd == t.size % 2
    IN  <<Byte(IF t.of = "digits" THEN 255 ELSE 251), Byte(128 * odd + n), Run(t, n, odd = 1)>>

WriteBytes(t, packed) ==
    LET run == IF t.size = 0 THEN <<>> ELSE <<Run(t, t.size, FALSE)>>
    IN  IF t.size >= 1048576 THEN <<Byte(254)>> \o WriteInt31(t.size) \o run
        ELSE IF t.size >= 256 THEN <<Byte(253)>> \o WriteInt20(t.size) \o run
        ELSE IF packed /\ t.size < 128 /\ t.of \in {"digits", "hex"}
        THEN TryPackAndWriteHeader(t)
        ELSE <<Byte(252), Byte(t.size)>> \o run

RECURSIVE WriteString(_, _)

(* With a ":" in the user: the device, and the user up to the ":" of a     *)
(* lid, up to the "." of any other; a user without "." goes as it is.  A   *)
(* device that is no number raises a ValueError, which is taken for a text *)
(* without "@": the whole text is written after the two bytes.             *)
WriteJid(t, packed) ==
    LET lid  == t.server = Lid
        kind == <<Byte(247), Byte(IF lid THEN 1 ELSE 0)>>
    IN  IF t.user.of = "device" /\ t.user.device = NoNumber
        THEN kind \o WriteBytes(t, packed)
        ELSE IF t.user.of = "device"
        THEN kind \o <<Byte(t.user.device)>> \o
                WriteString(IF lid THEN t.user.user
                            ELSE IF t.user.user.of = "typed" THEN t.user.user.user
                            ELSE t.user, TRUE)
        ELSE IF lid
        THEN kind \o <<Byte(0)>> \o WriteString(t.user, TRUE)
        ELSE <<Byte(250)>> \o WriteString(t.user, TRUE) \o WriteString(t.server, FALSE)

WriteString(t, packed) ==
    CASE t.of = "word"      -> <<Byte(t.at)>>
      [] t.of = "rare word" -> <<Byte(236 + t.at \div 256), Byte(t.at % 256)>>
      [] t.of = "not given" -> Unwritable
      [] t.of = "jid"       -> WriteJid(t, packed)
      [] OTHER              -> WriteBytes(t, packed)

WriteAttributes(attributes) ==
    FlattenSeq([i \in DOMAIN attributes |->
                    WriteString(attributes[i].key, FALSE) \o WriteString(attributes[i].value, TRUE)])

RECURSIVE WriteInternal(_)
WriteInternal(node) ==
    LET given(b) == IF b THEN 1 ELSE 0
        some     == node.children # <<>>
    IN  WriteListStart(1 + 2 * Len(node.attributes) + given(some) + given(node.data # NotGiven))
            \o WriteString(node.tag, FALSE)
            \o WriteAttributes(node.attributes)
            \o (IF node.data = NotGiven THEN <<>> ELSE WriteBytes(node.data, FALSE))
            \o (IF some
                THEN WriteListStart(Len(node.children))
                         \o FlattenSeq([i \in DOMAIN node.children |->
                                            WriteInternal(node.children[i])])
                ELSE <<>>)

(* The first byte holds the flags: nothing is deflated, nothing segmented. *)
ProtocolNodeToBytes(node) == <<Byte(0)>> \o WriteInternal(node)

----------------------------------------------------------------------------
(* Reading.  An operator gives what it got and the data that is left.  A   *)
(* byte taken from where there is none, or from the middle of a text, an   *)
(* unknown token, a list that is no list: the stanza is torn, and stays so *)
(* (where the code raises at once or, at the latest, at the end of data).  *)

Got(x, rest) == [got |-> x, rest |-> rest]
Torn         == <<Byte(256)>>

(* The next n bytes have been written as bytes of their own. *)
AreBytes(n, data) == Len(data) >= n /\ \A i \in 1..n : "byte" \in DOMAIN data[i]
After(n, data)    == SubSeq(data, n + 1, Len(data))

ReadInt8(data) ==
    IF AreBytes(1, data) /\ data # Torn THEN Got(data[1].byte, Tail(data)) ELSE Got(256, Torn)

ReadInt16(data) ==
    IF AreBytes(2, data) THEN Got(256 * data[1].byte + data[2].byte, After(2, data))
    ELSE Got(0, Torn)

ReadInt20(data) ==
    IF AreBytes(3, data)
    THEN Got(65536 * (data[1].byte % 16) + 256 * data[2].byte + data[3].byte, After(3, data))
    ELSE Got(0, Torn)

(* The second byte is read into the place of the first one as well. *)
ReadInt31(data) ==
    IF AreBytes(4, data)
    THEN Got(16777216 * data[2].byte + 65536 * data[2].byte + 256 * data[3].byte + data[4].byte,
             After(4, data))
    ELSE Got(0, Torn)

(* A slice takes what there is: a length that is too large is right when   *)
(* the text comes last, and takes all that was to follow when it does not. *)
ReadArray(length) ==
    IF length.got = 0 /\ length.rest # Torn THEN Got(Chars("latin", 0), length.rest)
    ELSE IF length.rest = <<>> \/ "text" \notin DOMAIN length.rest[1] THEN Got(NotGiven, Torn)
    ELSE LET run == Head(length.rest)
         IN  IF length.got = run.bytes \/ (length.got > run.bytes /\ Len(length.rest) = 1)
             THEN Got(run.text, Tail(length.rest))
             ELSE Got(NotGiven, Torn)

(* The last half byte goes by the flag in hex, by its value in nibbles. *)
Unpacked_Even(token, size, out) ==  \* variant: half a byte is not taken off
    IF out.rest = Torn THEN out
    ELSE Got(Chars(out.got.of, 2 * (size.got % 128)), out.rest)
Unpacked(token, size, out) ==
    LET gone == IF token = 251 THEN size.got >= 128 ELSE size.rest[1].filler
    IN  IF out.rest = Torn THEN out
        ELSE Got(Chars(out.got.of, 2 * (size.got % 128) - (IF gone THEN 1 ELSE 0)), out.rest)
ReadPacked8(token, size) ==
    Unpacked(token, size, ReadArray(Got(size.got % 128, size.rest)))

RECURSIVE ReadString(_)

(* A name with a device: its server is one of two, its type is a number. *)
Named(type, device, user) ==
    Got(IF type = 1 THEN Jid(Device(user.got, device), Lid)
        ELSE Jid(Device(Typed(user.got), device), Phone), user.rest)
ReadDevice(data) ==
    IF AreBytes(2, data) THEN Named(data[1].byte, data[2].byte, ReadString(After(2, data)))
    ELSE Got(NotGiven, Torn)

At(user, server) ==
    IF server.got = NotGiven THEN Got(NotGiven, Torn)
    ELSE IF user.got = NotGiven THEN server
    ELSE Got(Jid(user.got, server.got), server.rest)
ReadName(user) == At(user, ReadString(user.rest))

ReadToken(token, data) ==
    CASE token \in 3..235   -> Got(Word(token), data)
      [] token = 0          -> Got(NotGiven, data)
      [] token \in 236..239 -> IF AreBytes(1, data)
                               THEN Got(RareWord(256 * (token - 236) + data[1].byte), Tail(data))
                               ELSE Got(NotGiven, Torn)
      [] token = 247        -> ReadDevice(data)
      [] token = 250        -> ReadName(ReadString(data))
      [] token \in {251, 255} -> ReadPacked8(token, ReadInt8(data))
      [] token = 252        -> ReadArray(ReadInt8(data))
      [] token = 253        -> ReadArray(ReadInt20(data))
      [] token = 254        -> ReadArray(ReadInt31(data))
      [] OTHER              -> Got(NotGiven, Torn)

ReadString(data) ==
    IF AreBytes(1, data) THEN ReadToken(data[1].byte, Tail(data)) ELSE Got(NotGiven, Torn)

ListTag == {248, 0, 249}

ReadListSize(data) ==
    CASE ~AreBytes(1, data) -> Got(0, Torn)
      [] data[1].byte = 0   -> Got(0, Tail(data))
      [] data[1].byte = 248 -> ReadInt8(Tail(data))
      [] data[1].byte = 249 -> ReadInt16(Tail(data))
      [] OTHER              -> Got(0, Torn)

(* The tag and, as the attributes follow it, their keys and values. *)
RECURSIVE ReadStrings(_, _)
Followed(first, n) ==
    LET more == ReadStrings(n, first.rest) IN Got(<<first.got>> \o more.got, more.rest)
ReadStrings(n, data) ==
    IF n = 0 \/ data = Torn THEN Got(<<>>, data) ELSE Followed(ReadString(data), n - 1)

ReadAttributes(strings) ==
    [i \in 1..(Len(strings) \div 2) |-> [key |-> strings[2 * i], value |-> strings[2 * i + 1]]]

RECURSIVE NextTreeInternal(_), ReadList(_, _)

Finished(strings, data, children, rest) ==
    Got([tag |-> strings[1], attributes |-> ReadAttributes(strings), data |-> data,
         children |-> children], rest)

WithData(strings, text)     == Finished(strings, text.got, <<>>, text.rest)
WithChildren(strings, list) == Finished(strings, NotGiven, list.got, list.rest)

(* One stanza after the other; in halves, to keep the recursion shallow. *)
Joined(first, n) ==
    LET more == ReadList(n, first.rest) IN Got(first.got \o more.got, more.rest)
Single(node) == Got(<<node.got>>, node.rest)
ReadList(n, data) ==
    IF n = 0 \/ data = Torn THEN Got(<<>>, data)
    ELSE IF n = 1 THEN Single(NextTreeInternal(data))
    ELSE Joined(ReadList(n \div 2, data), n - (n \div 2))
ReadChildren(size) == ReadList(size.got, size.rest)

(* An odd size is a stanza without content; content is a list of stanzas,  *)
(* or a text or bytes, which are read alike.                               *)
ReadContent(size, strings) ==
    IF strings.rest = Torn \/ strings.got[1] = NotGiven THEN Got(NotGiven, Torn)
    ELSE IF size % 2 = 1 THEN Finished(strings.got, NotGiven, <<>>, strings.rest)
    ELSE IF AreBytes(1, strings.rest) /\ strings.rest[1].byte \in ListTag
    THEN WithChildren(strings.got, ReadChildren(ReadListSize(strings.rest)))
    ELSE WithData(strings.got, ReadString(strings.rest))

(* The start of the stream is passed over, its end is nothing. *)
ReadTree(size) ==
    LET starts == AreBytes(1, size.rest) /\ size.rest[1].byte = 1
        ends   == AreBytes(1, size.rest) /\ size.rest[1].byte = 2
    IN  IF ends THEN Got(NotGiven, Tail(size.rest))
        ELSE IF size.got = 0 THEN Got(NotGiven, Torn)
        ELSE ReadContent(size.got,
                ReadStrings(1 + 2 * ((size.got - 2 + (size.got % 2)) \div 2),
                            IF starts THEN Tail(size.rest) ELSE size.rest))

NextTreeInternal(data) == ReadTree(ReadListSize(data))

(* Of the flags one asks for what the client cannot do; what is deflated   *)
(* is inflated first, and is a stanza like any other.                      *)
GetProtocolNode(data) ==
    IF data[1].byte % 2 = 1 THEN Got(NotGiven, Torn) ELSE NextTreeInternal(Tail(data))
=============================================================================
