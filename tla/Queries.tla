------------------------------ MODULE Queries ------------------------------
(***************************************************************************)
(* The operations an application asks of the server: what each sends, from *)
(* the builders of core/builders and the entities of protocol/entities,    *)
(* and how the callback of each, in core/handlers, reads the answer.       *)
(*                                                                         *)
(* A request is the tag of its child, whom it names and the text it        *)
(* carries; an answer has the same, and whom it lists otherwise: with an   *)
(* error, as no contact of the network, or by device.                      *)
(***************************************************************************)
EXTENDS Naturals, FiniteSets

CONSTANTS
    me,         \* this account
    group       \* a group it is in

None == "none"
Iq(type, to, tag, jids, value) ==
    [type |-> type, to |-> to, tag |-> tag, jids |-> jids, value |-> value]

(* What an operation is for, as its description says: a property of some   *)
(* accounts, or of a chat, takes a value.                                  *)
Change(of, jids, is) == [of |-> of, jids |-> jids, is |-> is]
Nothing == Change("nothing", {}, None)

(* An operation: what it sends, how its answer is read, what it is for,    *)
(* what its caller gets when it fails, and which accounts may ask it.      *)
(* keeps: the callback stays registered when the request cannot be sent.   *)
Op(iq, reads, means, fails, keeps, account) ==
    [iq |-> iq, reads |-> reads, means |-> means,
     fails |-> fails, keeps |-> keeps, account |-> account]
-----------------------------------------------------------------------------
(* core/builders/group_builder.py *)
BuildCreateGroup(subject, P) == Iq("set", "g.us", "create", P, subject)
ParticipantsOperation(tag, P) == Iq("set", group, tag, P, None)
BuildLeaveGroup == Iq("set", group, "leave", {}, None)
BuildSetSubject(s) == Iq("set", group, "subject", {}, s)
BuildSetDescription(d) ==           \* a blank description is asked to be deleted
    Iq("set", group, IF d = "" THEN "delete" ELSE "description", {}, d)
BuildGetInviteCode == Iq("get", group, "invite", {}, None)
BuildJoinWithCode(code) == Iq("set", "g.us", "invite", {}, code)
BuildGetInfo == Iq("get", group, "query", {}, None)
BuildListGroups == Iq("get", "g.us", "participating", {}, None)
BuildApproveParticipants(action, P) == Iq("set", group, action, P, None)
BuildSetSettings(setting, value) == \* a value only two settings have a place for
    IF value = None \/ setting \in {"member_add_mode", "membership_approval_mode"}
    THEN Iq("set", group, setting, {}, value)
    ELSE Iq("set", group, None, {}, None)

GroupOp(iq, reads, means) == Op(iq, reads, means, "raised", TRUE, "any")

CreateGroup(s, P) == GroupOp(BuildCreateGroup(s, P), "group", Change("role", P, "member"))
GetGroupInfo == GroupOp(BuildGetInfo, "info", Nothing)
ListGroups == GroupOp(BuildListGroups, "list", Nothing)
AddParticipants(P) ==
    GroupOp(ParticipantsOperation("add", P), "listed", Change("role", P, "member"))
RemoveParticipants(P) ==
    GroupOp(ParticipantsOperation("remove", P), "others", Change("role", P, None))
PromoteParticipants(P) ==
    GroupOp(ParticipantsOperation("promote", P), "done", Change("role", P, "admin"))
DemoteParticipants(P) ==
    GroupOp(ParticipantsOperation("demote", P), "done", Change("role", P, "member"))
LeaveGroup == GroupOp(BuildLeaveGroup, "done", Change("role", {me}, None))
SetSubject(s) == GroupOp(BuildSetSubject(s), "done", Change("subject", {}, s))
SetDescription(d) == GroupOp(BuildSetDescription(d), "done", Change("description", {}, d))
GetInviteCode == GroupOp(BuildGetInviteCode, "value", Nothing)
JoinWithCode(code) ==
    GroupOp(BuildJoinWithCode(code), "group", Change("role", {me}, "member"))
ApproveParticipants(action, P) ==
    GroupOp(BuildApproveParticipants(action, P), "done",
            Change("role", P, IF action = "approve" THEN "member" ELSE None))
SetSettings(setting, value) ==
    GroupOp(BuildSetSettings(setting, value), "done", Change(setting, {}, value))
-----------------------------------------------------------------------------
(* core/handlers/contact_handler.py, integrity_handler.py, config_handler  *)
(* .py (of get_config one of the two requests it sends and awaits side by  *)
(* side), and the media connection of core/client.py                       *)
BuildSyncContacts(numbers) == Iq("get", None, "usync", numbers, "contact")
BuildSyncDevices(jids) == Iq("get", None, "usync", jids, "devices")
TrustTokens(jids) == Iq("set", "server", "tokens", jids, None)
WmexQuery(phones) == Iq("get", "server", "query", phones, None)
Props == Iq("get", "server", "props", {}, None)

SyncContacts(numbers) ==
    Op(BuildSyncContacts(numbers), "contacts", Nothing, "raised", TRUE, "any")
SyncDevices(jids) == Op(BuildSyncDevices(jids), "devices", Nothing, "raised", TRUE, "any")
TrustContact(jids) ==
    Op(TrustTokens(jids), "done", Change("trusted", jids, None), "raised", TRUE, "any")
IntegrityCheck(phones) ==
    Op(WmexQuery(phones), "value", Nothing, "raised", FALSE, "any")
GetConfig == Op(Props, "any", Nothing, "unsaid", TRUE, "any")
MediaConn ==
    Op(Iq("set", "server", "media_conn", {}, None), "value", Nothing, "failed", FALSE, "any")
-----------------------------------------------------------------------------
(* core/handlers/profile_handler.py *)
AppSyncState(name) == Iq("set", "server", "sync", {}, name)
VerifiedName(name) == Iq("set", "server", "verified_name", {}, name)
ProfileField(text) == Iq("set", "server", "business_profile", {}, text)
ProfileOf == Iq("get", "server", "business_profile", {}, None)

Account(iq, reads, means, keeps) == Op(iq, reads, means, "failed", keeps, "any")

SetProfilePicture ==
    Account(Iq("set", "server", "picture", {}, "photo"), "done",
            Change("picture", {}, "photo"), TRUE)
GetAvatar == Account(Iq("get", "server", "picture", {}, None), "optional", Nothing, TRUE)
GetAccountInfo == Account(Iq("get", "server", "account", {}, None), "value", Nothing, TRUE)
GetStatus == Account(Iq("get", "contact", "status", {}, None), "optional", Nothing, TRUE)
SetProfileName(n) ==
    Op(AppSyncState(n), "name", Change("name", {}, n),
       "failed", FALSE, "person")
SetBusinessName(n) ==
    Op(VerifiedName(n), "name", Change("name", {}, n),
       "unsaid", FALSE, "business")
UpdateBusinessProfile(text) ==
    Op(ProfileField(text), "done",
       Change("business_profile", {}, text), "failed", FALSE, "business")
GetBusinessProfile ==
    Account(ProfileOf, "done", Nothing, FALSE)
GetUserInfo(j) == Account(BuildSyncContacts({j}), "done", Nothing, FALSE)
-----------------------------------------------------------------------------
(* What an answer says: its type, the tag of its child, the value in it,   *)
(* and whom it lists.                                                      *)
Reply(type, tag, value, good, rest) ==
    [type |-> type, tag |-> tag, value |-> value, good |-> good, rest |-> rest]

Outcome(kind, value, good, rest) ==
    [kind |-> kind, value |-> value, good |-> good, rest |-> rest]
Failed(q) == Outcome(q.fails, None, {}, {})
Fine(value) == Outcome("ok", value, {}, {})

(* Only the participants an answer to <add> lists are known to be in. *)
Listed(a) == IF a.tag = "add" THEN Outcome("ok", None, a.good, a.rest) ELSE Fine(None)

(* Of a removal those without an error are taken to be out. *)
NotListed_All(q, a) ==              \* variant: errors in the answer are not looked for
    Outcome("ok", None, q.iq.jids, {})
NotListed(q, a) ==
    LET bad == IF a.tag = "remove" THEN a.rest ELSE {}
    IN Outcome("ok", None, q.iq.jids \ bad, bad)

(* The group an answer names. *)
Named(q, a) == IF a.tag = "group" /\ a.value # None THEN Fine(a.value) ELSE Failed(q)

(* The participants an answer shows, by the address of the group's mode. *)
Info(q, a) == IF a.tag = "group" THEN Outcome("ok", None, a.good, {}) ELSE Failed(q)
Groups(a) == Outcome("ok", None, IF a.tag = "groups" THEN a.good ELSE {}, {})

(* Numbers that are contacts, and those that are not. *)
Contacts(q, a) ==
    IF a.tag = "usync" THEN Outcome("ok", None, a.good, a.rest) ELSE Failed(q)

(* The account of each user beside each device the answer lists for it,    *)
(* device 0, the account's own, among them.                                *)
Devices(q, a) ==
    IF a.tag = "usync"
    THEN Outcome("ok", None, {<<j, "bare">> : j \in a.good} \cup (a.good \X a.rest), {})
    ELSE Failed(q)

Value(q, a) == IF a.tag # None /\ a.value # None THEN Fine(a.value) ELSE Failed(q)
Optional(a) == Fine(IF a.tag = None THEN None ELSE a.value)

(* How each operation reads an answer of type result. *)
Reads(q, a) ==
    CASE q.reads = "group" -> Named(q, a)
      [] q.reads = "info" -> Info(q, a)
      [] q.reads = "list" -> Groups(a)
      [] q.reads = "listed" -> Listed(a)
      [] q.reads = "others" -> NotListed(q, a)
      [] q.reads = "contacts" -> Contacts(q, a)
      [] q.reads = "devices" -> Devices(q, a)
      [] q.reads = "value" -> Value(q, a)
      [] q.reads = "optional" -> Optional(a)
      [] OTHER -> Fine(None)

(* set_business_name says nothing of its answer, get_config hands over any. *)
Read(q, a) ==
    IF q.fails = "unsaid" THEN Outcome("unsaid", None, {}, {})
    ELSE IF a.type = "result" THEN Reads(q, a) ELSE Failed(q)
=============================================================================
