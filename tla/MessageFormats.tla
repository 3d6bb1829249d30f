--------------------------- MODULE MessageFormats ---------------------------
(***************************************************************************)
(* The attribute classes of zowpy/protocol/entities/attributes and the     *)
(* tables by which AttributesConverter writes them to protobuf messages    *)
(* and reads them back.  A set of fields named X holds what an object of   *)
(* XAttributes keeps; XToProto and ProtoToX are its two converters.        *)
(***************************************************************************)
EXTENDS Formats, Naturals, Sequences

----------------------------------------------------------------------------
(* Media. *)

Downloadable ==
    {"mimetype", "file_length", "file_sha256", "media_key", "media_key_timestamp",
     "file_enc_sha256", "url", "direct_path"}

Image    == {"width", "height", "caption", "jpeg_thumbnail"}
Video    == {"width", "height", "seconds", "caption", "gif_playback", "jpeg_thumbnail",
             "gif_attribution", "streaming_sidecar"}
Audio    == {"seconds", "ptt", "streaming_sidecar", "waveform"}
Document == {"file_name", "file_length", "title", "page_count", "jpeg_thumbnail", "caption"}
Sticker  == {"width", "height", "png_thumbnail", "is_animated", "sticker_sent_ts",
             "is_avatar", "is_ai_sticker", "is_lottie"}
Product  == {"product_id", "title", "description", "business_owner_jid"}

DownloadableMediaToProto ==
    By(OrEmpty, {"mimetype"}) @@ By(Always, {"file_length", "file_sha256"})
        @@ By(IfGiven, Downloadable)

ProtoToDownloadableMedia == By(Plain, {"file_length", "file_sha256"}) @@ By(HasField, Downloadable)

ImageToProto    == By(Always, {"width", "height"}) @@ By(IfGiven, Image)
ProtoToImage    == By(Plain, {"width", "height"}) @@ By(HasField, Image)
VideoToProto    == By(IfGiven, Video)
ProtoToVideo    == By(Plain, Video)
AudioToProto    == By(IfGiven, Audio)
ProtoToAudio    == By(Plain, {"seconds", "ptt"}) @@ By(HasField, Audio)
DocumentToProto == By(IfGiven, Document)
ProtoToDocument == By(HasField, Document)
StickerToProto  == By(IfGiven, Sticker)
ProtoToSticker  == By(Plain, Sticker)

(* The caption of a product's image is the only field that is not written. *)
ProductToProto      == By(Always, Product)
ProductImageToProto == By(Ignored, {"caption"}) @@ ImageToProto
ProtoToProduct      == By(Plain, Product)

----------------------------------------------------------------------------
(* The context of a message: what it answers, who is mentioned, timers.    *)

ContextInfo ==
    {"stanza_id", "participant", "remote_jid", "mentioned_jid", "edit_version",
     "revoke_message", "conversion_delay_seconds", "forwarding_score", "is_forwarded",
     "expiration", "ephemeral_setting_timestamp", "entry_point_conversion_source",
     "entry_point_conversion_app", "entry_point_conversion_delay_seconds", "action_link"}

NotCarried == {"edit_version", "revoke_message", "action_link"}

ContextInfoToProto ==
    By(IfTrue, {"mentioned_jid"}) @@ By(Ignored, NotCarried) @@ By(IfGiven, ContextInfo)

(* variant: the timer of a message is not read. *)
ProtoToContextInfo_NoTimer ==
    By(Plain, {"mentioned_jid"}) @@ By(Ignored, NotCarried \cup {"expiration"})
        @@ By(HasField, ContextInfo)

ProtoToContextInfo ==
    By(Plain, {"mentioned_jid"}) @@ By(Ignored, NotCarried) @@ By(HasField, ContextInfo)

(* The accessor of the initiator reads the trigger. *)
DisappearingMode == {"initiator", "trigger", "initiatedByMe", "initiatorDeviceJid"}

DisappearingModeToProto ==
    Renamed(IfGiven, "initiator", "trigger") @@ By(Rule("none", Raises), {"initiatorDeviceJid"})
        @@ By(IfGiven, DisappearingMode)

ProtoToDisappearingMode == By(HasField, DisappearingMode)

ExternalAdReply ==
    {"title", "body", "media_type", "thumbnail_url", "media_url", "thumbnail", "source_type",
     "source_id", "source_url", "contains_auto_reply", "render_larger_thumbnail",
     "show_ad_attribution"}

ExternalAdReplyToProto == By(IfGiven, ExternalAdReply)

ProtoToExternalAdReply ==
    By(Ignored, {"body", "thumbnail_url", "media_url", "source_type", "source_id"})
        @@ By(HasField, ExternalAdReply)

BusinessMessageForwardInfoToProto == Renamed(IfGiven, "businessOwnerJID", "business_owner_jid")

----------------------------------------------------------------------------
(* Text and small messages. *)

ExtendedText ==
    {"text", "matched_text", "canonical_url", "description", "title", "jpeg_thumbnail",
     "text_argb", "background_argb", "font", "preview_type", "invite_link_group_type_v2",
     "doNotPlayInline"}

(* The schema calls the last one doNotPlayInline, the code do_not_play_inline. *)
ExtendedTextToProto ==
    By(Always, {"text"}) @@ By(Unknown, {"doNotPlayInline"})
        @@ By(IfTrue, {"matched_text", "canonical_url", "description", "title", "jpeg_thumbnail"})
        @@ By(IfGiven, ExtendedText)

ProtoToExtendedText == By(Ignored, {"doNotPlayInline"}) @@ By(HasField, ExtendedText)

Contact         == {"display_name", "vcard"}
ContactToProto  == By(Always, Contact)
ProtoToContact  == By(Plain, Contact)

Reaction == {"msgid", "remote_jid", "from_me", "text", "sender_timestamp_ms", "participant"}

ReactionToProto == By(IfGiven, {"participant"}) @@ By(Always, Reaction)

ProtoToReaction ==
    By(OrOwn, {"sender_timestamp_ms"}) @@ By(HasField, {"participant"}) @@ By(Plain, Reaction)

(* Choosing several options is sent as a count of 0, a single one as 1. *)
Negated == ("some" :> "zero") @@ ("own" :> "zero") @@ [v \in Value |-> "some"]

PollCreation == {"name", "options", "multi", "message_secret"}

PollCreationToProto ==
    Renamed(Negated, "selectable_options_count", "multi")
        @@ By(Always, PollCreation \ {"multi"})

ProtoToPollCreation ==
    Renamed(Negated, "multi", "selectable_options_count") @@ By(Plain, PollCreation)

(* A vote is decrypted with the voter's jid and a database, which are None. *)
PollUpdate        == {"msgid", "creator_jid", "voter_jid", "options"}
ProtoToPollUpdate == By(Broken, PollUpdate)

ButtonsResponse        == {"selected_button_id", "selected_display_text", "type"}
ProtoToButtonsResponse == By(Plain, ButtonsResponse)

ListResponse        == {"selected_row_id", "title", "list_type"}
ProtoToListResponse == By(Plain, ListResponse)

(* Templates are written with subscripts that the class does not have. *)
Template        == {"text", "buttons"}
TemplateToProto == By(Broken, Template)
ProtoToTemplate == By(Plain, Template)

SenderKeyDistributionMessage        == {"group_id", "axolotl_sender_key_distribution_message"}
SenderKeyDistributionMessageToProto == By(Always, SenderKeyDistributionMessage)
ProtoToSenderKeyDistributionMessage == By(Plain, SenderKeyDistributionMessage)

----------------------------------------------------------------------------
(* Protocol messages: revocations, edits, timers, notifications and keys.  *)

Protocol   == {"type", "ephemeral_expiration", "ephemeral_setting_timestamp", "timestamp_ms"}
MessageKey == {"remote_jid", "from_me", "id", "participant"}

ProtocolToProto ==
    By(Always, {"type"}) @@ By(IfGiven, {"ephemeral_expiration"}) @@ By(Ignored, Protocol)

ProtoToProtocol ==
    By(Plain, {"type"}) @@ By(HasField, {"ephemeral_expiration"}) @@ By(Made, {"timestamp_ms"})
        @@ By(Ignored, Protocol)

(* The participant, a jid, is asked for its own participant. *)
MessageKeyToProto ==
    By(Always, {"remote_jid", "from_me"}) @@ By(IfGiven, {"id"}) @@ By(Misread, {"participant"})

ProtoToMessageKey == By(Plain, MessageKey)

SecuritySync        == {"security_notification_enabled"}
SecuritySyncToProto == By(Always, SecuritySync)
ProtoToSecuritySync == By(Plain, SecuritySync)

HistorySyncNotification ==
    {"mediaSha256", "mediaEncryptedSha256", "mediaKey", "mediaDirectPath", "mediaSize", "syncType"}

OnWire == ("mediaSha256" :> "fileSha256") @@ ("mediaEncryptedSha256" :> "fileEncSha256")
              @@ ("mediaDirectPath" :> "directPath") @@ ("mediaSize" :> "fileLength")
              @@ [f \in HistorySyncNotification |-> f]

HistorySyncNotificationEncode ==
    By(IfGiven, {"syncType"})
        @@ [w \in {OnWire[f] : f \in HistorySyncNotification} |->
               [from |-> CHOOSE f \in HistorySyncNotification : OnWire[f] = w, by |-> Always]]

HistorySyncNotificationDecodeFrom ==
    [f \in HistorySyncNotification |-> [from |-> OnWire[f], by |-> HasField]]

AppStateSyncKey == {"key_id", "key_data", "timestamp"}
Fingerprint     == {"raw_id", "current_index", "device_indexes"}

AppStateSyncKeyToProto            == By(Always, AppStateSyncKey)
AppStateSyncKeyFingerprintToProto == By(Always, Fingerprint)

----------------------------------------------------------------------------
(* Whole messages. *)

Message == {"conversation", "message_secret"}

MessageToProtoTables ==
       ("message"          :> (By(IfTrue, {"conversation"}) @@ By(Made, {"message_secret"})))
    @@ ("quoted"           :> (By(IfTrue, {"conversation"}) @@ By(Made, {"message_secret"})))
    @@ ("image"            :> ImageToProto)
    @@ ("contact"          :> ContactToProto)
    @@ ("extended_text"    :> ExtendedTextToProto)
    @@ ("edited_text"      :> ExtendedTextToProto)
    @@ ("document"         :> DocumentToProto)
    @@ ("audio"            :> AudioToProto)
    @@ ("video"            :> VideoToProto)
    @@ ("sticker"          :> StickerToProto)
    @@ ("reaction"         :> ReactionToProto)
    @@ ("template"         :> TemplateToProto)
    @@ ("product"          :> ProductToProto)
    @@ ("product_image"    :> ProductImageToProto)
    @@ ("poll_creation"    :> PollCreationToProto)
    @@ ("sender_key_distribution_message" :> SenderKeyDistributionMessageToProto)
    @@ ("protocol"         :> ProtocolToProto)
    @@ ("key"              :> MessageKeyToProto)
    @@ ("mode"             :> DisappearingModeToProto)
    @@ ("security_sync"    :> SecuritySyncToProto)
    @@ ("history_sync"     :> HistorySyncNotificationEncode)
    @@ ("sync_key"         :> AppStateSyncKeyToProto)
    @@ ("fingerprint"      :> AppStateSyncKeyFingerprintToProto)
    @@ ("media"            :> DownloadableMediaToProto)
    @@ ("context"          :> ContextInfoToProto)
    @@ ("context_mode"     :> DisappearingModeToProto)
    @@ ("ad_reply"         :> ExternalAdReplyToProto)
    @@ ("business"         :> BusinessMessageForwardInfoToProto)

(* A document and its media share the field of the length: the media's is *)
(* written last.  A reaction is sent without the secret.                   *)
MessageToProto(object) ==
    LET proto == ConvertAll(MessageToProtoTables, object)
    IN  CASE "document" \in DOMAIN proto ->
                 [proto EXCEPT !.document.file_length = proto.media.file_length]
          [] "reaction" \in DOMAIN proto -> [proto EXCEPT !.message.message_secret = "none"]
          [] OTHER -> proto

ProtoToMessageTables ==
       ("message"          :> (By(IfTrue, {"conversation"}) @@ By(Made, {"message_secret"})))
    @@ ("quoted"           :> (By(IfTrue, {"conversation"}) @@ By(Made, {"message_secret"})))
    @@ ("image"            :> ProtoToImage)
    @@ ("contact"          :> ProtoToContact)
    @@ ("extended_text"    :> ProtoToExtendedText)
    @@ ("edited_text"      :> ProtoToExtendedText)
    @@ ("document"         :> ProtoToDocument)
    @@ ("audio"            :> ProtoToAudio)
    @@ ("video"            :> ProtoToVideo)
    @@ ("sticker"          :> ProtoToSticker)
    @@ ("reaction"         :> ProtoToReaction)
    @@ ("template"         :> ProtoToTemplate)
    @@ ("buttons_response" :> ProtoToButtonsResponse)
    @@ ("list_response"    :> ProtoToListResponse)
    @@ ("poll_creation"    :> ProtoToPollCreation)
    @@ ("poll_update"      :> ProtoToPollUpdate)
    @@ ("product"          :> ProtoToProduct)
    @@ ("product_image"    :> ProtoToImage)
    @@ ("sender_key_distribution_message" :> ProtoToSenderKeyDistributionMessage)
    @@ ("protocol"         :> ProtoToProtocol)
    @@ ("key"              :> ProtoToMessageKey)
    @@ ("mode"             :> ProtoToDisappearingMode)
    @@ ("security_sync"    :> ProtoToSecuritySync)
    @@ ("history_sync"     :> HistorySyncNotificationDecodeFrom)
    @@ ("media"            :> ProtoToDownloadableMedia)
    @@ ("context"          :> ProtoToContextInfo)
    @@ ("context_mode"     :> ProtoToDisappearingMode)
    @@ ("ad_reply"         :> ProtoToExternalAdReply)

ContextParts == {"context", "context_mode", "ad_reply", "quoted", "business"}

(* A context that names no stanza is not read, with all that is in it.  A *)
(* location is never read, and a protocol message always has a key.        *)
ProtoToMessage(proto) ==
    LET read == ConvertAll(ProtoToMessageTables, proto)
        kept == IF ValueOf(PartOf(proto, "context"), "stanza_id") = "none"
                THEN Without(read, ContextParts) ELSE read
    IN  kept @@ (IF "protocol" \in DOMAIN proto
                 THEN "key" :> Convert(ProtoToMessageKey, <<>>) ELSE <<>>)

(* The parser prints what it has read, and ProtocolAttributes.__str__ looks *)
(* the type up in TYPES, which lacks some of those of the schema.          *)
Printable(object) == "protocol" \in DOMAIN object => object.protocol.type # "other"

(* The kinds of content, in the order in which the parser asks for them,  *)
(* with the kind of event that each makes and the field of its text.       *)
Kinds ==
    << [part |-> "extended_text",    type |-> "text",             text |-> "text"],
       [part |-> "image",            type |-> "image",            text |-> "caption"],
       [part |-> "video",            type |-> "video",            text |-> "caption"],
       [part |-> "audio",            type |-> "audio",            text |-> ""],
       [part |-> "document",         type |-> "document",         text |-> "title"],
       [part |-> "sticker",          type |-> "sticker",          text |-> ""],
       [part |-> "contact",          type |-> "contact",          text |-> ""],
       [part |-> "location",         type |-> "location",         text |-> ""],
       [part |-> "reaction",         type |-> "reaction",         text |-> ""],
       [part |-> "buttons_response", type |-> "buttons_response", text |-> ""],
       [part |-> "list_response",    type |-> "list_response",    text |-> ""],
       [part |-> "poll_creation",    type |-> "poll",             text |-> ""],
       [part |-> "poll_update",      type |-> "poll_response",    text |-> ""],
       [part |-> "product",          type |-> "product",          text |-> ""],
       [part |-> "template",         type |-> "template",         text |-> ""],
       [part |-> "protocol",         type |-> "protocol",         text |-> ""],
       [part |-> "sender_key_distribution_message",
        type |-> "sender_key_distribution", text |-> ""] >>

(* variant: the last kind that is there is taken. *)
Foremost_Last(kinds) == CHOOSE i \in kinds : \A j \in kinds : j <= i

Foremost(kinds) == CHOOSE i \in kinds : \A j \in kinds : i <= j

Text(part, field) == IF ValueOf(part, field) = "none" THEN "zero" ELSE ValueOf(part, field)

MessageAttributesToDict(object) ==
    LET has == {i \in DOMAIN Kinds : Kinds[i].part \in DOMAIN object}
        k   == Kinds[Foremost(has)]
    IN  CASE object.message.conversation # "none" ->
                 [type |-> "text", text |-> object.message.conversation]
          [] object.message.conversation = "none" /\ has # {} ->
                 [type |-> k.type, text |-> Text(object[k.part], k.text)]
          [] OTHER -> [type |-> "unknown", text |-> "zero"]
=============================================================================
