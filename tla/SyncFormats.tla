---------------------------- MODULE SyncFormats ----------------------------
(***************************************************************************)
(* The attribute classes of zowpy/protocol/historysync: what is shared     *)
(* between the devices of an account.  Each class encodes and decodes      *)
(* itself.  Named X is the set of fields of class XAttribute, Encode and   *)
(* Decode tables of the classes that differ from the usual "is not None"   *)
(* and HasField are XEncode and XDecode.                                   *)
(***************************************************************************)
EXTENDS Formats

Encode(fields) == By(IfGiven, fields)
Decode(fields) == By(HasField, fields)

(* A class whose protobuf message is looked up where it is not, or whose   *)
(* static decodeFrom takes one argument too many.                          *)
Fault(fields) == By(Broken, fields)

----------------------------------------------------------------------------
(* History. *)

Conversation       == {"id"}
ConversationEncode == By(Always, Conversation)

Pushname        == {"id", "pushname"}
PastParticipant == {"userJid", "leaveReason", "leaveTs"}

PastParticipants       == {"groupJid", "pastParticipants"}
PastParticipantsEncode == By(Always, {"pastParticipants"}) @@ Encode(PastParticipants)
PastParticipantsDecode == By(Plain, {"pastParticipants"}) @@ Decode(PastParticipants)

SyncMessageKey == {"remoteJid", "fromMe", "id", "participant"}

(* The key of a message that has none is read as an empty key. *)
WebMessageInfo       == {"key"}
WebMessageInfoEncode == By(Always, WebMessageInfo)
WebMessageInfoDecode == By(Plain, WebMessageInfo)

HistoryLists      == {"conversations", "pastParticipants", "statusV3Messages", "pushnames"}
HistorySync       == HistoryLists \cup {"syncType"}
HistorySyncEncode == By(Always, {"syncType"}) @@ By(IfTrue, HistoryLists)
HistorySyncDecode == By(HasField, {"syncType"}) @@ By(Plain, HistoryLists)

Renames == ("mediaSha256" :> "fileSha256") @@ ("mediaEncryptedSha256" :> "fileEncSha256")
               @@ ("mediaDirectPath" :> "directPath") @@ ("mediaSize" :> "fileLength")

SyncNotification == DOMAIN Renames \cup {"mediaKey", "syncType"}

SyncNotificationEncode ==
    Encode({"mediaKey", "syncType"})
        @@ [w \in {Renames[f] : f \in DOMAIN Renames} |->
               [from |-> CHOOSE f \in DOMAIN Renames : Renames[f] = w, by |-> IfGiven]]

SyncNotificationDecode ==
    [f \in DOMAIN Renames |-> [from |-> Renames[f], by |-> HasField]]
        @@ Decode({"mediaKey", "syncType"})

----------------------------------------------------------------------------
(* Keys: the messages are nested in Message, the classes ask for them at   *)
(* the top of the schema.                                                  *)

SyncKey            == {"key_id", "key_data"}
SyncKeyId          == {"key_id"}
SyncKeyData        == {"key_data", "fingerprint", "timestamp"}
SyncKeyFingerprint == {"raw_id", "current_index", "device_indexes"}
SyncKeyShare       == {"keys"}
SecuritySetting    == {"security_notification_enabled"}

SyncKeyFingerprintDecode ==
    By(Plain, {"device_indexes"}) @@ Decode(SyncKeyFingerprint)
SecuritySettingDecode == By(OrOwn, SecuritySetting)

----------------------------------------------------------------------------
(* Actions on the state of the account. *)

ContactAction        == {"fullName", "firstName", "lidJid", "saveOnPrimaryAddressbook"}
LocaleSetting        == {"locale"}
NuxAction            == {"acknowledged"}
PushNameSetting      == {"name"}
TimeFormatAction     == {"isTwentyFourHourFormatEnabled"}
PrimaryVersionAction == {"version"}

ActionsOfValue ==
    {"contactAction", "localeSetting", "pushNameSetting", "timeFormatAction", "nuxAction"}

SyncActionValue == ActionsOfValue \cup {"timestamp", "primaryVersionAction"}

SyncActionValueDecode == By(Unknown, ActionsOfValue) @@ Decode(SyncActionValue)

(* Decoding makes an object of the value's class with fields it lacks. *)
SyncActionData == {"index", "value", "padding", "version"}

----------------------------------------------------------------------------
(* Patches of the state of the account. *)

SyncdIndex    == {"blob"}
SyncdValue    == {"blob"}
SyncdKeyId    == {"id"}
SyncdVersion  == {"version"}
SyncdRecord   == {"index", "value", "keyId"}
SyncdMutation == {"operation", "record"}
SyncdExitCode == {"code", "text"}
ExternalBlobReference ==
    {"mediaKey", "directPath", "handle", "fileSizeBytes", "fileSha256", "fileEncSha256"}

SyncdPatch ==
    {"version", "mutations", "externalMutations", "snapshotMac", "patchMac", "keyId",
     "exitCode", "deviceIndex", "clientDebugData"}

(* The blobs of other mutations are assigned to a misspelt field and read  *)
(* as a list that they are not; an exit code has no message.               *)
SyncdPatchEncode ==
    By(IfTrue, {"mutations"}) @@ By(Unknown, {"exitCode"})
        @@ By(("none" :> "none") @@ ("zero" :> "none") @@ Broken, {"externalMutations"})
        @@ Encode(SyncdPatch)

SyncdPatchDecode == By(Broken, {"externalMutations"}) @@ Decode(SyncdPatch)

----------------------------------------------------------------------------

SyncFields ==
    [conversation |-> Conversation, pushname |-> Pushname, past_participant |-> PastParticipant,
     past_participants |-> PastParticipants, sync_message_key |-> SyncMessageKey,
     web_message_info |-> WebMessageInfo, sync_history |-> HistorySync,
     sync_notification |-> SyncNotification,
     app_key |-> SyncKey, app_key_id |-> SyncKeyId, app_key_data |-> SyncKeyData,
     app_key_fingerprint |-> SyncKeyFingerprint, app_key_share |-> SyncKeyShare,
     security_setting |-> SecuritySetting,
     contact_action |-> ContactAction, locale_setting |-> LocaleSetting,
     nux_action |-> NuxAction, push_name_setting |-> PushNameSetting,
     time_format_action |-> TimeFormatAction, primary_version |-> PrimaryVersionAction,
     action_value |-> SyncActionValue, action_data |-> SyncActionData,
     syncd_index |-> SyncdIndex, syncd_value |-> SyncdValue, syncd_key_id |-> SyncdKeyId,
     syncd_version |-> SyncdVersion, syncd_record |-> SyncdRecord,
     syncd_mutation |-> SyncdMutation, syncd_exit_code |-> SyncdExitCode,
     syncd_blob |-> ExternalBlobReference, syncd_patch |-> SyncdPatch]

SyncEncode ==
       [conversation |-> ConversationEncode, past_participants |-> PastParticipantsEncode,
        web_message_info |-> WebMessageInfoEncode, sync_history |-> HistorySyncEncode,
        sync_notification |-> SyncNotificationEncode, syncd_patch |-> SyncdPatchEncode]
    @@ [p \in {"app_key", "app_key_id", "app_key_data", "app_key_fingerprint", "app_key_share",
               "security_setting", "syncd_exit_code"} |-> Fault(SyncFields[p])]
    @@ [p \in DOMAIN SyncFields |-> Encode(SyncFields[p])]

SyncDecode ==
       [past_participants |-> PastParticipantsDecode, web_message_info |-> WebMessageInfoDecode,
        sync_history |-> HistorySyncDecode, sync_notification |-> SyncNotificationDecode,
        app_key_fingerprint |-> SyncKeyFingerprintDecode,
        security_setting |-> SecuritySettingDecode, action_value |-> SyncActionValueDecode,
        syncd_patch |-> SyncdPatchDecode]
    @@ [p \in {"contact_action", "locale_setting", "nux_action", "push_name_setting",
               "time_format_action", "action_data"} |-> Fault(SyncFields[p])]
    @@ [p \in DOMAIN SyncFields |-> Decode(SyncFields[p])]
=============================================================================
