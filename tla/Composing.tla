----------------------------- MODULE Composing -----------------------------
(***************************************************************************)
(* What the calls of the client (core/client.py, core/builders and         *)
(* core/handlers/chat_handler.py) put into the attribute objects: for      *)
(* every call its arguments, the object it composes and the place at which *)
(* the reader of the message should find each argument.                    *)
(***************************************************************************)
EXTENDS MessageFormats

(* What the application passes: a function from argument names to values.  *)
Given(a, name)      == a[name]
OwnIfNone(a, name)  == Rule("own", "zero")[a[name]]
OwnIfFalse(a, name) == OrOwn[a[name]]
ZeroIfNone(a, name) == OrEmpty[a[name]]

(* A part whose fields are all None but for those of f. *)
With(fields, f) == f @@ All(fields, "none")

NoText == "message" :> [conversation |-> "none", message_secret |-> "own"]

----------------------------------------------------------------------------
(* Texts. *)

TextOptions ==
    {"matched_text", "canonical_url", "description", "title", "jpeg_thumbnail", "text_argb",
     "background_argb", "font", "preview_type", "invite_link_group_type_v2"}

(* No caller passes mentions, a timer or a source: those branches are dead. *)
PrepareContextInfo ==
       ("context" :> With(ContextInfo, [mentioned_jid |-> "zero", expiration |-> "zero",
                                        ephemeral_setting_timestamp |-> "own"]))
    @@ ("context_mode" :> With(DisappearingMode, [initiator |-> "zero", trigger |-> "zero"]))

(* variant: the id of the answered message is not put into the context. *)
Quoting_NoId(a) ==
    LET plain == PrepareContextInfo
    IN  [plain EXCEPT !.context.participant = "own"]
            @@ ("quoted" :> [conversation |-> ZeroIfNone(a, "quoted"), message_secret |-> "own"])

(* send_text always quotes, also when nothing is answered. *)
Quoting(a) ==
    LET plain == PrepareContextInfo
    IN  [plain EXCEPT !.context.stanza_id = Given(a, "reply_message_id"),
                      !.context.participant = "own"]
            @@ ("quoted" :> [conversation |-> ZeroIfNone(a, "quoted"), message_secret |-> "own"])

SendText(a) ==
    LET defaults == {"preview_type", "invite_link_group_type_v2"}
    IN  NoText @@ Quoting(a)
        @@ ("extended_text" :>
               (   ("text" :> Given(a, "text"))
                @@ [f \in defaults |-> ZeroIfNone(a, f)]
                @@ [f \in TextOptions |-> Given(a, f)]
                @@ All(ExtendedText, "none")))

SendStatusText(a) ==
    NoText @@ PrepareContextInfo
    @@ ("extended_text" :>
           With(ExtendedText,
                [text |-> Given(a, "text"), text_argb |-> Given(a, "text_color"),
                 background_argb |-> Given(a, "background_color"), font |-> Given(a, "font"),
                 preview_type |-> "zero", invite_link_group_type_v2 |-> "zero"]))

(* A revocation is type 0. *)
DeleteMessage(a) ==
    NoText
    @@ ("protocol" :> With(Protocol, [type |-> "zero", timestamp_ms |-> "own"]))
    @@ ("key" :> With(MessageKey, [id |-> Given(a, "message_id"), from_me |-> "own",
                                   remote_jid |-> "own"]))

EditMessage(a) ==
    NoText @@ PrepareContextInfo
    @@ ("protocol" :> With(Protocol, [type |-> "own", timestamp_ms |-> "own"]))
    @@ ("key" :> With(MessageKey, [id |-> Given(a, "message_id"), from_me |-> "own",
                                   remote_jid |-> "own"]))
    @@ ("edited_text" :> With(ExtendedText, [text |-> Given(a, "text"), preview_type |-> "zero"]))

SendReaction(a) ==
    NoText
    @@ ("reaction" :> [msgid |-> Given(a, "message_id"), remote_jid |-> "own",
                       from_me |-> ZeroIfNone(a, "from_me"), text |-> Given(a, "reaction"),
                       sender_timestamp_ms |-> "own", participant |-> "none"])

TimerKey == With(MessageKey, [from_me |-> "own", remote_jid |-> "own"])

SetDisappearing(a) ==
    NoText
    @@ ("protocol" :> With(Protocol, [type |-> "own", timestamp_ms |-> "own",
                                      ephemeral_expiration |-> OwnIfNone(a, "disappearing_days")]))
    @@ ("key" :> TimerKey)
    @@ ("mode" :> With(DisappearingMode, [trigger |-> "own", initiatedByMe |-> "own"]))

SetDisappearingDisabled(a) ==
    NoText
    @@ ("protocol" :> With(Protocol, [type |-> "own", timestamp_ms |-> "own",
                                      ephemeral_expiration |-> "zero"]))
    @@ ("key" :> TimerKey)
    @@ ("mode" :> With(DisappearingMode, [trigger |-> "zero"]))

----------------------------------------------------------------------------
(* Media that the client uploads.  What is read of the file: a thumbnail   *)
(* cannot be made of every image, and never is of a video.                 *)

ImageFile(a) == [width |-> "own", height |-> "own", jpeg_thumbnail |-> Given(a, "thumbnail")]
VideoFile    == [width |-> "own", height |-> "own", seconds |-> "own", gif_playback |-> "own",
                 jpeg_thumbnail |-> "zero"]

(* A waveform is only made of a voice message. *)
AudioFile(a) == [seconds |-> "own", waveform |-> IF a.ptt \in Set THEN "own" ELSE "none"]

(* The name of the file stands in for a name that was not given. *)
DocumentFile(a) == [file_name |-> OwnIfFalse(a, "filename"), file_length |-> "own",
                    jpeg_thumbnail |-> Given(a, "thumbnail")]

StickerFlags == {"is_animated", "is_avatar", "is_ai_sticker", "is_lottie"}

(* What the builders write once a file is uploaded: the server may not     *)
(* answer with a direct_path, and a flag that is None cannot be written.   *)
UploadAndBuild(a) ==
    "media" :> [All(Downloadable, "own") EXCEPT !.direct_path = IfTrue[a.direct_path]]

BuildImage(a) ==
    LET file == ImageFile(a)
    IN  [caption |-> IfTrue[a.caption], jpeg_thumbnail |-> IfTrue[file.jpeg_thumbnail]] @@ file
BuildVideo(a) ==
    [caption |-> IfTrue[a.caption], jpeg_thumbnail |-> IfTrue[VideoFile.jpeg_thumbnail]]
        @@ VideoFile
BuildAudio(a) == [ptt |-> Always[a.ptt]] @@ AudioFile(a)
BuildDocument(a) ==
    LET file == DocumentFile(a)
    IN  [caption |-> IfTrue[a.caption], jpeg_thumbnail |-> IfTrue[file.jpeg_thumbnail]] @@ file
BuildSticker(a) ==
    [f \in StickerFlags |-> Always[a[f]]]
        @@ [width |-> "own", height |-> "own", sticker_sent_ts |-> "own"]

(* The calls take the sizes and thumbnails from what was built, the rest   *)
(* from their arguments again.                                             *)
SendImage(a) ==
    LET image == BuildImage(a)
    IN  NoText @@ UploadAndBuild(a)
        @@ ("image" :> [image EXCEPT !.caption = Given(a, "caption")])

SendVideo(a) ==
    LET video == BuildVideo(a)
    IN  NoText @@ UploadAndBuild(a)
        @@ ("video" :> With(Video, [video EXCEPT !.caption = Given(a, "caption")]))

SendAudio(a) ==
    LET audio == BuildAudio(a)
    IN  NoText @@ UploadAndBuild(a)
        @@ ("audio" :> With(Audio, [audio EXCEPT !.ptt = Given(a, "ptt")]))

(* A caption that was not built is asked of the argument again. *)
SendDocument(a) ==
    LET document == BuildDocument(a)
    IN  NoText @@ UploadAndBuild(a)
        @@ ("document" :> With(Document,
                [document EXCEPT !.caption = IF @ \in Set THEN @ ELSE Given(a, "caption")]))

SendSticker(a) ==
    LET sticker == BuildSticker(a)
    IN  NoText @@ UploadAndBuild(a) @@ ("sticker" :> With(Sticker, sticker))

----------------------------------------------------------------------------
(* Media that was uploaded before: the application passes everything.      *)

Direct(a) ==
    "media" :> [f \in Downloadable |-> IF f = "media_key_timestamp" THEN OwnIfNone(a, f)
                                       ELSE Given(a, f)]

SendDirectImage(a) == NoText @@ Direct(a) @@ ("image" :> [f \in Image |-> Given(a, f)])

SendDirectVideo(a) ==
    NoText @@ Direct(a)
    @@ ("video" :> [width |-> a.width, height |-> a.height, seconds |-> ZeroIfNone(a, "duration"),
                    caption |-> a.caption, gif_playback |-> "zero",
                    jpeg_thumbnail |-> a.jpeg_thumbnail, gif_attribution |-> "zero",
                    streaming_sidecar |-> "none"])

SendDirectAudio(a) ==
    NoText @@ Direct(a)
    @@ ("audio" :> [seconds |-> ZeroIfNone(a, "duration"), ptt |-> ZeroIfNone(a, "ptt"),
                    streaming_sidecar |-> "none", waveform |-> a.waveform])

SendDirectDocument(a) ==
    NoText @@ Direct(a)
    @@ ("document" :> With(Document, [file_name |-> ZeroIfNone(a, "file_name"),
                                      file_length |-> a.file_length,
                                      jpeg_thumbnail |-> a.jpeg_thumbnail, caption |-> a.caption]))

SendDirectSticker(a) ==
    NoText @@ Direct(a)
    @@ ("sticker" :> (   [f \in StickerFlags |-> ZeroIfNone(a, f)]
                      @@ [width |-> a.width, height |-> a.height,
                          png_thumbnail |-> a.jpeg_thumbnail, sticker_sent_ts |-> "own"]))

----------------------------------------------------------------------------
(* The calls: their arguments, what they refuse, compose and how the       *)
(* stanza around the message is marked.                                    *)


Args ==
    [SendText       |-> TextOptions \cup {"text", "reply_message_id", "quoted", "mentions"},
     SendStatusText |-> {"text", "text_color", "background_color", "font"},
     DeleteMessage  |-> {"message_id"},
     EditMessage    |-> {"message_id", "text"},
     SendReaction   |-> {"message_id", "reaction", "from_me"},
     SetDisappearing         |-> {"disappearing_days"},
     SetDisappearingDisabled |-> {},
     SendImage    |-> {"direct_path", "thumbnail", "caption"},
     SendVideo    |-> {"direct_path", "caption"},
     SendAudio    |-> {"direct_path", "ptt"},
     SendDocument |-> {"direct_path", "thumbnail", "filename", "caption"},
     SendSticker  |-> {"direct_path"} \cup StickerFlags,
     SendDirectImage    |-> Downloadable \cup Image,
     SendDirectVideo    |-> Downloadable \cup {"width", "height", "caption", "jpeg_thumbnail",
                                               "duration"},
     SendDirectAudio    |-> Downloadable \cup {"duration", "ptt", "waveform"},
     SendDirectDocument |-> Downloadable \cup {"file_name", "caption", "jpeg_thumbnail"},
     SendDirectSticker  |-> Downloadable \cup StickerFlags \cup {"width", "height",
                                                                 "jpeg_thumbnail"}]

(* A reaction needs the id of a message, a picture its size; what a        *)
(* builder cannot write is refused once the file is uploaded.              *)
Refused(call, a) ==
    \/ call = "SendReaction" /\ a.message_id \in {"none", "zero"}
    \/ /\ call \in {"SendDirectImage", "SendDirectVideo", "SendDirectSticker"}
       /\ "none" \in {a.width, a.height}
    \/ call = "SendAudio" /\ Fails("audio" :> BuildAudio(a))
    \/ call = "SendSticker" /\ Fails("sticker" :> BuildSticker(a))

Composed(call, a) ==
    CASE call = "SendText"       -> SendText(a)
      [] call = "SendStatusText" -> SendStatusText(a)
      [] call = "DeleteMessage"  -> DeleteMessage(a)
      [] call = "EditMessage"    -> EditMessage(a)
      [] call = "SendReaction"   -> SendReaction(a)
      [] call = "SetDisappearing"         -> SetDisappearing(a)
      [] call = "SetDisappearingDisabled" -> SetDisappearingDisabled(a)
      [] call = "SendImage"    -> SendImage(a)
      [] call = "SendVideo"    -> SendVideo(a)
      [] call = "SendAudio"    -> SendAudio(a)
      [] call = "SendDocument" -> SendDocument(a)
      [] call = "SendSticker"  -> SendSticker(a)
      [] call = "SendDirectImage"    -> SendDirectImage(a)
      [] call = "SendDirectVideo"    -> SendDirectVideo(a)
      [] call = "SendDirectAudio"    -> SendDirectAudio(a)
      [] call = "SendDirectDocument" -> SendDirectDocument(a)
      [] call = "SendDirectSticker"  -> SendDirectSticker(a)

TextStanza             == [type |-> "text", mediatype |-> ""]
ReactionStanza         == [type |-> "reaction", mediatype |-> ""]
MediaStanza(mediatype) == [type |-> "media", mediatype |-> mediatype]

Stanza(call) ==
    CASE call \in {"SendImage", "SendDirectImage"}       -> MediaStanza("image")
      [] call \in {"SendVideo", "SendDirectVideo"}       -> MediaStanza("video")
      [] call \in {"SendAudio", "SendDirectAudio"}       -> MediaStanza("audio")
      [] call \in {"SendDocument", "SendDirectDocument"} -> MediaStanza("document")
      [] call \in {"SendSticker", "SendDirectSticker"}   -> MediaStanza("sticker")
      [] call = "SendReaction" -> ReactionStanza
      [] OTHER                 -> TextStanza
=============================================================================
