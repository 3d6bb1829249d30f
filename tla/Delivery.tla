------------------------------ MODULE Delivery ------------------------------
(***************************************************************************)
(* A message on its way: an application calls the client, or builds the    *)
(* attribute object itself, the converter writes it to the wire, the       *)
(* receiving client reads it into an object of its own and announces it as *)
(* an event.  Messages of other programs come in on the wire, and what the *)
(* devices of an account share is encoded and decoded by its own classes.  *)
(* The stanzas all this is sent in are coded into bytes and decoded again. *)
(***************************************************************************)
EXTENDS Composing, SyncFormats, Stanzas

VARIABLES
    stage,       \* how far the message is
    origin,      \* the call, or who made the message
    args,        \* the arguments of the call
    object,      \* the attribute object, or the stanza, that is sent
    wire,        \* the protobuf message, or the bytes of the stanza
    received,    \* the attribute object, or the stanza, that was read
    event        \* what the application of the receiver is told

vars == <<stage, origin, args, object, wire, received, event>>

Nothing == [type |-> "", text |-> "none"]

----------------------------------------------------------------------------
(* The messages that are tried: in each, one field of one part differs     *)
(* from a base in which everything is given, or for a call also nothing.   *)

PartFields ==
       [message |-> Message, quoted |-> Message, image |-> Image, contact |-> Contact,
        extended_text |-> ExtendedText, edited_text |-> ExtendedText, document |-> Document,
        audio |-> Audio, video |-> Video, sticker |-> Sticker, reaction |-> Reaction,
        template |-> Template, product |-> Product, product_image |-> Image,
        poll_creation |-> PollCreation, poll_update |-> PollUpdate,
        buttons_response |-> ButtonsResponse, list_response |-> ListResponse,
        sender_key_distribution_message |-> SenderKeyDistributionMessage,
        protocol |-> Protocol, key |-> MessageKey, mode |-> DisappearingMode,
        security_sync |-> SecuritySync, history_sync |-> HistorySyncNotification,
        sync_key |-> AppStateSyncKey, fingerprint |-> Fingerprint, media |-> Downloadable,
        context |-> ContextInfo, context_mode |-> DisappearingMode,
        ad_reply |-> ExternalAdReply, business |-> {"business_owner_jid"}, location |-> {"name"}]
    @@ SyncFields

(* These raise an exception when they are given. *)
NeverGiven == [extended_text |-> {"doNotPlayInline"}, edited_text |-> {"doNotPlayInline"},
               key |-> {"participant"}, syncd_patch |-> {"exitCode", "externalMutations"},
               action_value |-> ActionsOfValue, message |-> {"conversation"}]

Base(p) ==
    [f \in PartFields[p] |->
        IF p \in DOMAIN NeverGiven /\ f \in NeverGiven[p] THEN "none" ELSE "some"]

Variants(p, base) ==
    OneVaries(base) \cup (IF p = "protocol" THEN {[base EXCEPT !.type = "other"]} ELSE {})

Varying(parts) ==
    UNION {{[q \in parts |-> IF q = p THEN part ELSE Base(q)] : part \in Variants(p, Base(p))} :
              p \in parts}

InContext == {"context", "context_mode", "ad_reply", "quoted", "business"}

(* The contents an application can build, with the parts they have. *)
Contents ==
    {{}, {"image", "media"} \cup InContext, {"contact"} \cup InContext,
     {"extended_text"} \cup InContext, {"video", "media"}, {"audio", "media"},
     {"document", "media"}, {"sticker", "media"}, {"reaction"}, {"poll_creation"}, {"template"},
     {"product", "product_image", "media"}, {"sender_key_distribution_message"},
     {"extended_text", "sender_key_distribution_message"}, {"protocol"},
     {"protocol", "key", "mode"}, {"protocol", "key", "security_sync"},
     {"protocol", "key", "history_sync"}, {"protocol", "key", "edited_text"},
     {"protocol", "key", "sync_key", "fingerprint"}}

Built == UNION {Varying({"message"} \cup c) : c \in Contents}

(* On the wire are the fields that the reader asks for. *)
WireFields(p) ==
    IF p \in DOMAIN ProtoToMessageTables
    THEN {ProtoToMessageTables[p][f].from : f \in DOMAIN ProtoToMessageTables[p]}
    ELSE PartFields[p]

WireBase(p) == [f \in WireFields(p) |-> IF f = "conversation" THEN "none" ELSE "some"]

WireVarying(parts) ==
    UNION {{[q \in parts |-> IF q = p THEN part ELSE WireBase(q)] :
               part \in Variants(p, WireBase(p))} : p \in parts}

ForeignContents ==
    {{"location"}, {"poll_update"}, {"buttons_response"}, {"list_response"}, {"template"},
     {"poll_creation"}, {"protocol"}, {"image", "media", "context", "quoted"},
     {"image", "media", "sender_key_distribution_message"}}

Foreign == UNION {WireVarying({"message"} \cup c) : c \in ForeignContents}

Shared == UNION {Varying({p}) : p \in DOMAIN SyncFields}

(* The texts of a stanza: words of the dictionaries and texts of a size,   *)
(* at the places where the form changes, and names of several shapes.      *)
Number == Chars("digits", 12)

Names ==
    {Jid(Number, Phone), Jid(Number, Lid), Jid(Chars("latin", 5), Word(28)),
     Jid(Device(Number, 255), Lid), Jid(Device(Number, 0), Phone),
     Jid(Device(Typed(Number), 3), Phone), Jid(Device(Number, 256), Lid),
     Jid(Device(Chars("latin", 5), NoNumber), Phone), Jid(Number, Empty)}

Texts ==
    {NotGiven, Empty, Word(3), Word(235)} \cup {RareWord(i) : i \in {0, 255, 256, 1023}}
        \cup {Chars(c, n) : c \in {"digits", "hex", "latin"}, n \in {1, 2, 3, 127, 128, 255, 256}}
        \cup {Chars("latin", n) : n \in {65535, 65536, 1048575, 1048576}}
        \cup {Chars("wide", 3)} \cup Names

Data == {NotGiven} \cup
        {Chars("latin", n) : n \in {0, 1, 127, 128, 255, 256, 65536, 1048575, 1048576}}

Node(attributes, d, nodes) ==
    [tag |-> Word(7), attributes |-> attributes, data |-> d, children |-> nodes]

Attributes(t) ==
    <<[key |-> Word(4), value |-> Number], [key |-> RareWord(300), value |-> t]>>

(* A text in an attribute of a stanza that ends there or goes on; bytes in *)
(* the only child and before another; lists of one length byte and of two. *)
StanzasSent ==
    UNION {{Node(Attributes(t), NotGiven, <<>>), Node(Attributes(t), Number, <<>>)} : t \in Texts}
        \cup UNION {{Node(<<>>, d, <<>>), Node(<<>>, NotGiven, <<Node(<<>>, d, <<>>)>>),
                     Node(<<>>, NotGiven, <<Node(Attributes(Number), d, <<>>), Node(<<>>, d, <<>>)>>)} :
                       d \in Data}
        \cup {Node(<<>>, NotGiven, [i \in 1..n |-> Node(<<>>, NotGiven, <<>>)]) :
                       n \in {255, 256}}

(* What the server and the file of an upload give is among the arguments. *)
Arguments(call) == OneVaries(All(Args[call], "some")) \cup OneVaries(All(Args[call], "none"))

----------------------------------------------------------------------------
(* The way of a message. *)

Init ==
    /\ stage = "idle"
    /\ origin = "nobody"
    /\ args = <<>> /\ object = <<>> /\ wire = <<>> /\ received = <<>>
    /\ event = Nothing

Call(call, a) ==
    /\ stage = "idle"
    /\ origin' = call /\ args' = a
    /\ IF Refused(call, a)
       THEN stage' = "refused" /\ UNCHANGED object
       ELSE stage' = "made" /\ object' = Composed(call, a)
    /\ UNCHANGED <<wire, received, event>>

Build(o) ==
    /\ stage = "idle"
    /\ stage' = "made" /\ origin' = "application" /\ object' = o
    /\ UNCHANGED <<args, wire, received, event>>

Share(o) ==
    /\ stage = "idle"
    /\ stage' = "made" /\ origin' = "account" /\ object' = o
    /\ UNCHANGED <<args, wire, received, event>>

Send(node) ==
    /\ stage = "idle"
    /\ stage' = "made" /\ origin' = "stanza" /\ object' = node
    /\ UNCHANGED <<args, wire, received, event>>

(* An exception of the converter reaches the caller: nothing is sent. *)
Write ==
    /\ stage = "made" /\ origin # "stanza"
    /\ LET proto == IF origin = "account" THEN ConvertAll(SyncEncode, object)
                    ELSE MessageToProto(object)
       IN  IF Fails(proto) THEN stage' = "refused" /\ UNCHANGED wire
           ELSE stage' = "sent" /\ wire' = proto
    /\ UNCHANGED <<origin, args, object, received, event>>

Come(w) ==
    /\ stage = "idle"
    /\ stage' = "sent" /\ origin' = "other program" /\ wire' = w
    /\ UNCHANGED <<args, object, received, event>>

SendProtocolNode ==
    /\ stage = "made" /\ origin = "stanza"
    /\ LET encoded == ProtocolNodeToBytes(object)
       IN  IF Sendable(encoded) THEN stage' = "sent" /\ wire' = encoded
           ELSE stage' = "refused" /\ UNCHANGED wire
    /\ UNCHANGED <<origin, args, object, received, event>>

(* An exception here loses the message: nobody is told. *)
Read ==
    /\ stage = "sent" /\ origin # "stanza"
    /\ LET message == IF origin = "account" THEN ConvertAll(SyncDecode, wire)
                      ELSE ProtoToMessage(wire)
       IN  IF Fails(message) \/ ~Printable(message)
           THEN stage' = "lost" /\ UNCHANGED received
           ELSE stage' = "read" /\ received' = message
    /\ UNCHANGED <<origin, args, object, wire, event>>

ReceiveAndDecode ==
    /\ stage = "sent" /\ origin = "stanza"
    /\ LET node == GetProtocolNode(wire)
       IN  IF node.rest = Torn THEN stage' = "lost" /\ UNCHANGED received
           ELSE stage' = "read" /\ received' = node.got
    /\ UNCHANGED <<origin, args, object, wire, event>>

Announce ==
    /\ stage = "read" /\ origin \notin {"account", "stanza"}
    /\ stage' = "announced" /\ event' = MessageAttributesToDict(received)
    /\ UNCHANGED <<origin, args, object, wire, received>>

Next ==
    \/ \E call \in DOMAIN Args : \E a \in Arguments(call) : Call(call, a)
    \/ \E o \in Built : Build(o)
    \/ \E o \in Shared : Share(o)
    \/ \E w \in Foreign : Come(w)
    \/ \E node \in StanzasSent : Send(node)
    \/ Write \/ Read \/ Announce
    \/ SendProtocolNode \/ ReceiveAndDecode

Spec == Init /\ [][Next]_vars

----------------------------------------------------------------------------
(* Properties. *)

IsRead == stage \in {"read", "announced"}

(* Every object that was read has all the fields of its class, with values *)
(* of the five kinds and no exception in them.                             *)
TypeOK ==
    /\ stage \in {"idle", "made", "refused", "sent", "lost", "read", "announced"}
    /\ origin # "stanza" =>
        /\ \A p \in DOMAIN object : DOMAIN object[p] = PartFields[p]
        /\ \A p \in DOMAIN wire : \A f \in DOMAIN wire[p] : wire[p][f] \in Value
        /\ \A p \in DOMAIN received :
              /\ DOMAIN received[p] = PartFields[p]
              /\ \A f \in DOMAIN received[p] : received[p][f] \in Value

(* None and an empty value are not told apart on the wire. *)
Same(v, w) == v = w \/ {v, w} \subseteq {"none", "zero"}

(* What the converters are known to drop or to make up. *)
NotKept ==
       [message |-> {"message_secret"}, quoted |-> {"message_secret"}, context |-> NotCarried,
        mode |-> {"initiator"}, context_mode |-> {"initiator"}, document |-> {"file_length"},
        product_image |-> {"caption"}, reaction |-> {"sender_timestamp_ms"},
        protocol |-> {"ephemeral_setting_timestamp", "timestamp_ms"},
        ad_reply |-> {"body", "thumbnail_url", "media_url", "source_type", "source_id"}]
    @@ [p \in DOMAIN PartFields |-> {}]

PartsNotKept ==
    {"business", "sync_key", "fingerprint"} \cup
        (IF ValueOf(PartOf(object, "context"), "stanza_id") = "none" THEN InContext ELSE {})

(* What is read is what was built: the two converters of a class and the   *)
(* two directions of a class that encodes itself agree field by field, but *)
(* for the losses named above.                                             *)
Kept ==
    IsRead /\ origin # "stanza" =>
        \A p \in DOMAIN object \ PartsNotKept : \A f \in DOMAIN object[p] \ NotKept[p] :
            Same(object[p][f], ValueOf(PartOf(received, p), f))

(* Where the reader of a message finds an argument of the call. *)
Place(call) ==
    CASE call = "SendText" ->
            ("reply_message_id" :> <<"context", "stanza_id">>)
                @@ [f \in TextOptions \cup {"text"} |-> <<"extended_text", f>>]
      [] call = "SendStatusText" ->
            [text |-> <<"extended_text", "text">>, font |-> <<"extended_text", "font">>,
             text_color |-> <<"extended_text", "text_argb">>,
             background_color |-> <<"extended_text", "background_argb">>]
      [] call = "DeleteMessage" -> [message_id |-> <<"key", "id">>]
      [] call = "EditMessage" ->
            [message_id |-> <<"key", "id">>, text |-> <<"edited_text", "text">>]
      [] call = "SendReaction" ->
            [message_id |-> <<"reaction", "msgid">>, reaction |-> <<"reaction", "text">>,
             from_me |-> <<"reaction", "from_me">>]
      [] call = "SetDisappearing" ->
            [disappearing_days |-> <<"protocol", "ephemeral_expiration">>]
      [] call = "SetDisappearingDisabled" -> <<>>
      [] call \in {"SendImage", "SendVideo", "SendDocument"} ->
            LET part == Stanza(call).mediatype
            IN  [direct_path |-> <<"media", "direct_path">>,
                 thumbnail |-> <<part, "jpeg_thumbnail">>, caption |-> <<part, "caption">>,
                 filename |-> <<part, "file_name">>]
      [] call = "SendAudio" ->
            [direct_path |-> <<"media", "direct_path">>, ptt |-> <<"audio", "ptt">>]
      [] call = "SendSticker" ->
            ("direct_path" :> <<"media", "direct_path">>)
                @@ [f \in StickerFlags |-> <<"sticker", f>>]
      [] OTHER ->
            LET part == Stanza(call).mediatype
            IN  [f \in Downloadable |-> <<"media", f>>]
                @@ (IF part = "sticker" THEN "jpeg_thumbnail" :> <<part, "png_thumbnail">>
                    ELSE "duration" :> <<part, "seconds">>)
                @@ [f \in Args[call] |-> <<part, f>>]

(* Every argument that an application gives a call is where the reader of  *)
(* the message looks for it (a quoted text only beside the id of the       *)
(* message it quotes; mentions and a sticker's thumbnail are given up).    *)
Arrives ==
    IsRead /\ origin \in DOMAIN Args =>
        /\ \A name \in DOMAIN Place(origin) \cap DOMAIN args :
              args[name] = "some" =>
                  LET at == Place(origin)[name]
                  IN  ValueOf(PartOf(received, at[1]), at[2]) = "some"
        /\ origin = "SendText" /\ args.reply_message_id = "some" /\ args.quoted = "some" =>
              ValueOf(PartOf(received, "quoted"), "conversation") = "some"

(* The kinds of event that fit the stanza in which a call is sent. *)
Fitting(call) ==
    CASE Stanza(call).type = "media"    -> {Stanza(call).mediatype}
      [] Stanza(call).type = "reaction" -> {"reaction"}
      [] OTHER                          -> {"text", "protocol"}

(* A message is announced as what its stanza said it is; a key that comes  *)
(* along with a content never hides it; and no message is lost but a vote  *)
(* and a protocol message of a type without a name.                        *)
Recognised ==
    /\ stage = "announced" /\ origin \in DOMAIN Args => event.type \in Fitting(origin)
    /\ stage = "announced" /\ "sender_key_distribution_message" \in DOMAIN received
           /\ DOMAIN received \cap {"image", "extended_text"} # {} =>
              event.type \in {"image", "text"}
    /\ stage = "lost" /\ origin \notin {"account", "stanza"} =>
          "poll_update" \in DOMAIN wire \/ ValueOf(PartOf(wire, "protocol"), "type") = "other"

(* An empty text comes back as None.  A name with a type and a device      *)
(* comes back as a phone's, of type 0 whatever server and type it had; the *)
(* name of a lid always has a device.                                      *)
AsRead(t) ==
    CASE t = Empty -> NotGiven
      [] t.of = "jid" /\ t.server = Lid /\ t.user.of # "device" -> Jid(Device(t.user, 0), Lid)
      [] t.of = "jid" /\ t.server # Lid /\ t.user.of = "device" -> Jid(t.user, Phone)
      [] OTHER -> t

ReadBack(node) ==
    [node EXCEPT !.attributes =
        [i \in DOMAIN @ |-> [key |-> @[i].key, value |-> AsRead(@[i].value)]]]

(* What the code is known to spoil: a phone's device without a type, as    *)
(* user:3@s.whatsapp.net, which is read as user:3.0:3@s.whatsapp.net; "@"  *)
(* with words that look like a device before it or with nothing behind it; *)
(* and a text of a megabyte that is not the end of its stanza.             *)
Harmed(node) ==
    LET huge(t) == "size" \in DOMAIN t /\ t.size >= 1048576
    IN  \/ \E i \in DOMAIN node.attributes :
              LET t == node.attributes[i].value
              IN  \/ t = Jid(Number, Empty)
                  \/ /\ t.of = "jid" /\ t.user.of = "device"
                     /\ t.user.device = NoNumber \/ (t.server # Lid /\ t.user.user.of # "typed")
                  \/ huge(t) /\ node.data # NotGiven
        \/ \E i \in DOMAIN node.children : i < Len(node.children) /\ huge(node.children[i].data)

(* A stanza that is sent is read as it was written, whatever the lengths   *)
(* of its texts and of its lists, with the names above; the writer, not    *)
(* the reader, refuses what has no bytes.                                  *)
Intact ==
    origin = "stanza" /\ stage \in {"read", "lost"} /\ ~Harmed(object) =>
        stage = "read" /\ received = ReadBack(object)
=============================================================================
