----------------------------- MODULE MCRequests -----------------------------
(***************************************************************************)
(* Instance of Uploads: a call of any operation, and two calls that set    *)
(* the account's name or send a file.                                      *)
(***************************************************************************)
EXTENDS Uploads, TLC

CONSTANTS c1, c2, m1, m2

MCCalls == {c1, c2}
MCMembers == {me, m1}
MCAccounts == {me, m1, m2}
MCTexts == {"", "a", "b", "s", "d", "all", "code", "text"}

App(b, first, second) == [business |-> b, asks |-> (c1 :> first) @@ (c2 :> second)]

MCOperations ==
    {CreateGroup("s", {m1}), GetGroupInfo, ListGroups, AddParticipants({m1, m2}),
     RemoveParticipants({m1, m2}), PromoteParticipants({m1}), DemoteParticipants({m1}),
     LeaveGroup, SetSubject("s"), SetDescription(""), SetDescription("d"), GetInviteCode,
     JoinWithCode("code"), ApproveParticipants("approve", {m2}),
     ApproveParticipants("reject", {m2}), SetSettings("locked", None),
     SetSettings("member_add_mode", "all"), SetSettings("locked", "all"),
     SyncContacts({m1, m2}), SyncDevices({m1}), TrustContact({m1}), IntegrityCheck({m1}),
     GetConfig, SetProfilePicture, GetAvatar, GetAccountInfo, GetStatus,
     SetProfileName("a"), SetBusinessName("a"), UpdateBusinessProfile("text"),
     GetBusinessProfile, GetUserInfo(m1)}

MCApps ==
    {App(b, MCOperations, {}) : b \in BOOLEAN}
    \cup {App(FALSE, {SetProfileName("a")}, {SetProfileName("b")}),
          App(TRUE, {SetBusinessName("a")}, {SetBusinessName("b")}),
          App(FALSE, {MediaConn}, {MediaConn})}
=============================================================================
