------------------------------ MODULE Requests ------------------------------
(***************************************************************************)
(* Calls of the operations of Queries on the one registry of callbacks of  *)
(* core/processors/iq_response.py.  A call registers a callback under the  *)
(* id of its request, sends it, and waits 30 s on a future; a worker of    *)
(* the message loop takes the answer to the callback, which sets the       *)
(* future; a registered callback expires 30 s after its registration, when *)
(* the call may wait a little longer; every 5 s the expired are removed.   *)
(* disconnect() forgets all callbacks and tells no call.                   *)
(***************************************************************************)
EXTENDS Queries

CONSTANTS
    Calls,
    Apps,           \* what an application may be: a business, and the operations it asks
    Members,        \* members of the group
    Accounts, Texts \* whom an operation may name, and the texts it may be given

Settings == {"announcement", "not_announcement", "locked", "unlocked",
             "member_add_mode", "membership_approval_mode"}

(* Every operation, with everything it may be asked for. *)
Operations ==
    LET Some == SUBSET Accounts
    IN  {GetGroupInfo, ListGroups, LeaveGroup, GetInviteCode, GetConfig, MediaConn,
         SetProfilePicture, GetAvatar, GetAccountInfo, GetStatus, GetBusinessProfile}
        \cup {CreateGroup(s, P) : s \in Texts, P \in Some}
        \cup {AddParticipants(P) : P \in Some} \cup {RemoveParticipants(P) : P \in Some}
        \cup {PromoteParticipants(P) : P \in Some} \cup {DemoteParticipants(P) : P \in Some}
        \cup {ApproveParticipants(act, P) : act \in {"approve", "reject"}, P \in Some}
        \cup {SetSettings(s, v) : s \in Settings, v \in Texts \cup {None}}
        \cup {SetSubject(s) : s \in Texts} \cup {SetDescription(d) : d \in Texts}
        \cup {JoinWithCode(code) : code \in Texts}
        \cup {SyncContacts(P) : P \in Some} \cup {SyncDevices(P) : P \in Some}
        \cup {TrustContact(P) : P \in Some} \cup {IntegrityCheck(P) : P \in Some}
        \cup {GetUserInfo(j) : j \in Accounts}
        \cup {SetProfileName(n) : n \in Texts} \cup {SetBusinessName(n) : n \in Texts}
        \cup {UpdateBusinessProfile(text) : text \in Texts}

ASSUME RequestsAssumption ==
    \A a \in Apps : a.business \in BOOLEAN /\ a.asks \in [Calls -> SUBSET Operations]

VARIABLES
    app,            \* the application
    pc, ask,        \* where each call is suspended, and its operation
    callbacks,      \* calls with a callback registered
    late,           \* calls whose registration is 30 s old
    writing,        \* calls whose callback waits for the profile to be written
    future, result, \* what the callback has set, and the call returned
    net,            \* requests and answers on their way, with their call
    change,         \* what the server did for each call
    server, config, saved, \* the account's name there, in memory and on disk
    line,           \* whether the client is connected, and how often it may be
    temps           \* calls with a temporary file of what they upload

calls == <<pc, ask, future, result>>
registry == <<callbacks, late, writing>>
names == <<server, config, saved>>
requests == <<app, calls, registry, net, change, names, line, temps>>

Asked(c) == pc[c] \notin {"idle", "ready"}

RequestsTypeOK ==
    /\ app \in Apps
    /\ pc \in [Calls -> {"idle", "ready", "queued", "sending", "waiting", "connected", "posting", "done"}]
    /\ \A c \in Calls : Asked(c) => ask[c] \in app.asks[c]
    /\ callbacks \subseteq Calls /\ late \subseteq Calls
    /\ writing \subseteq callbacks \cup late    \* a callback in use is removed only as expired
    /\ \A c \in Calls : future[c] # {} => \E r \in future[c] :
          r.kind \in {"ok", "failed", "raised", "unsaid"} /\ future[c] = {r}
    /\ \A m \in net : m.call \in Calls
    /\ temps \subseteq Calls

RequestsInit ==
    /\ app \in Apps
    /\ pc = [c \in Calls |-> "idle"] /\ ask = [c \in Calls |-> GetConfig]
    /\ future = [c \in Calls |-> {}] /\ result = future
    /\ callbacks = {} /\ late = {} /\ writing = {}
    /\ net = {} /\ change = [c \in Calls |-> Nothing]
    /\ server = None /\ config = None /\ saved = None
    /\ line = [up |-> TRUE, drops |-> 1]
    /\ temps = {}
-----------------------------------------------------------------------------
Request(c) == [call |-> c, answer |-> {}]
Answer(c, a) == [call |-> c, answer |-> {a}]

IsMedia(c) == ask[c] = MediaConn

(* A call ends; a request for the media connection is part of an upload. *)
End(c, r) ==
    /\ pc' = [pc EXCEPT ![c] = IF IsMedia(c) THEN "connected" ELSE "done"]
    /\ result' = [result EXCEPT ![c] = {r}]
    /\ temps' = IF IsMedia(c) THEN temps ELSE temps \ {c}

(* What a call answers that got no answer: set_business_name raises. *)
Unanswered(q) ==
    IF q.fails = "unsaid" /\ ~q.keeps THEN Outcome("raised", None, {}, {}) ELSE Failed(q)
NotSent(q) == IF q.keeps THEN Outcome("raised", None, {}, {}) ELSE Unanswered(q)

MayAsk(q) == q.account \in {"any", IF app.business THEN "business" ELSE "person"}

(* register_callback *)
Register(c) ==
    /\ callbacks' = callbacks \cup {c}
    /\ pc' = [pc EXCEPT ![c] = "sending"]

(* An operation that is not for this kind of account is refused at once;   *)
(* set_avatar has by now fetched and scaled the photo, set_profile_picture *)
(* is given it.                                                            *)
Call(c, q, fetched) ==
    /\ pc[c] = "idle"
    /\ fetched => q = SetProfilePicture
    /\ ask' = [ask EXCEPT ![c] = q]
    /\ IF MayAsk(q)
       THEN Register(c) /\ UNCHANGED result
       ELSE /\ pc' = [pc EXCEPT ![c] = "done"]
            /\ result' = [result EXCEPT ![c] = {Unanswered(q)}]
            /\ UNCHANGED callbacks
    /\ temps' = IF fetched THEN temps \cup {c} ELSE temps
    /\ UNCHANGED <<app, future, late, writing, net, change, names, line>>

Sent(c) ==
    /\ pc[c] = "sending" /\ line.up
    /\ pc' = [pc EXCEPT ![c] = "waiting"]
    /\ net' = net \cup {Request(c)}
    /\ UNCHANGED <<app, ask, future, result, registry, change, names, line, temps>>

(* A send that fails may have got through. *)
SendFails(c) ==
    /\ pc[c] = "sending"
    /\ \/ net' = net
       \/ line.up /\ net' = net \cup {Request(c)}
    /\ End(c, NotSent(ask[c]))
    /\ callbacks' = IF ask[c].keeps THEN callbacks ELSE callbacks \ {c}
    /\ UNCHANGED <<app, ask, future, late, writing, change, names, line>>
-----------------------------------------------------------------------------
(* The server: what a request makes of those it accepts it for, and what   *)
(* it answers.  It lists whom it did not accept, where it lists anybody.   *)
Role(tag) == CASE tag = "promote" -> "admin"
               [] tag \in {"remove", "reject", "leave"} -> None
               [] OTHER -> "member"
Makes(iq, D) ==
    CASE iq.tag \in {"create", "add", "remove", "promote", "demote", "approve", "reject"} ->
            Change("role", D, Role(iq.tag))
      [] iq.tag \in {"invite", "leave"} -> Change("role", {me}, Role(iq.tag))
      [] iq.tag = "delete" -> Change("description", {}, "")
      [] iq.tag \in {"sync", "verified_name"} -> Change("name", {}, iq.value)
      [] iq.tag = "tokens" -> Change("trusted", D, None)
      [] OTHER -> Change(iq.tag, {}, iq.value)

Done(tag, value, good, rest) == Reply("result", tag, value, good, rest)
Empty == Done(None, None, {}, {})
Shows(q, D) ==
    CASE q.reads = "group" -> {Done("group", group, {}, {}), Empty}
      [] q.reads \in {"listed", "others"} -> {Done(q.iq.tag, None, D, q.iq.jids \ D)}
      [] q.reads = "info" -> {Done("group", None, M, {}) : M \in SUBSET Members} \cup {Empty}
      [] q.reads = "list" -> {Done("groups", None, Members, {}), Empty}
      [] q.reads = "contacts" -> {Done("usync", None, D, q.iq.jids \ D), Empty}
      [] q.reads = "devices" -> {Done("usync", None, D, {"0", "1"}), Empty}
      [] q.reads \in {"value", "optional"} ->
            {Done(q.iq.tag, "value", {}, {}), Done(q.iq.tag, None, {}, {}), Empty}
      [] OTHER -> {Empty}

Service(q) ==
    {[answer |-> {}, change |-> Nothing],
     [answer |-> {Reply("error", None, None, {}, {})}, change |-> Nothing]}
    \cup IF q.iq.tag = None THEN {}
         ELSE UNION {{[answer |-> A, change |-> IF q.means = Nothing THEN Nothing
                                                ELSE Makes(q.iq, D)] :
                        A \in {{}} \cup {{a} : a \in Shows(q, D)}} : D \in SUBSET q.iq.jids}

(* A request is served once; the answer may be lost. *)
Serve(c) ==
    /\ Request(c) \in net
    /\ \E s \in Service(ask[c]) :
          /\ net' = (net \ {Request(c)}) \cup {Answer(c, a) : a \in s.answer}
          /\ change' = [change EXCEPT ![c] = s.change]
          /\ server' = IF s.change.of = "name" THEN s.change.is ELSE server
    /\ UNCHANGED <<app, calls, registry, config, saved, line, temps>>

(* process_iq_response: an answer nobody waits for, or too late.           *)
Dropped(c) ==
    /\ \E m \in net : m.call = c /\ m.answer # {} /\ net' = net \ {m}
    /\ c \notin callbacks \/ c \in late
    /\ callbacks' = callbacks \ {c}
    /\ UNCHANGED <<app, calls, late, writing, change, names, line, temps>>

Saves(c, a) == ask[c].reads = "name" /\ a.type = "result"

(* A future that is set or cancelled already is left as it is. *)
SetFuture(c, r) ==
    future' = IF future[c] = {} /\ pc[c] \in {"sending", "waiting"}
              THEN [future EXCEPT ![c] = {r}] ELSE future

Process(c) ==
    /\ c \in callbacks \ late
    /\ \E m \in net : \E a \in m.answer :
          /\ m.call = c /\ net' = net \ {m} /\ ~Saves(c, a)
          /\ SetFuture(c, Read(ask[c], a))
    /\ callbacks' = callbacks \ {c}
    /\ UNCHANGED <<app, pc, ask, result, late, writing, change, names, line, temps>>

(* A new name is in the configuration at once; the profile as it is then   *)
(* is written.                                                             *)
ProcessName_SetsFirst(c) ==         \* variant: the future is set before the profile is written
    /\ c \in callbacks \ late
    /\ \E m \in net : \E a \in m.answer :
          /\ m.call = c /\ net' = net \ {m} /\ Saves(c, a)
          /\ SetFuture(c, Read(ask[c], a))
    /\ config' = ask[c].iq.value /\ writing' = writing \cup {c}
    /\ UNCHANGED <<app, pc, ask, result, callbacks, late, change, server, saved, line, temps>>
ProcessName(c) ==
    /\ c \in callbacks \ late
    /\ \E m \in net : \E a \in m.answer : m.call = c /\ net' = net \ {m} /\ Saves(c, a)
    /\ config' = ask[c].iq.value /\ writing' = writing \cup {c}
    /\ UNCHANGED <<app, calls, callbacks, late, change, server, saved, line, temps>>

Written(c) ==
    /\ c \in writing
    /\ writing' = writing \ {c} /\ callbacks' = callbacks \ {c}
    /\ saved' = ask[c].iq.value
    /\ SetFuture(c, Read(ask[c], Reply("result", None, None, {}, {})))
    /\ UNCHANGED <<app, pc, ask, result, late, net, change, server, config, line, temps>>

WriteFails(c) ==
    /\ c \in writing
    /\ writing' = writing \ {c} /\ callbacks' = callbacks \ {c}
    /\ UNCHANGED <<app, calls, late, net, change, names, line, temps>>
-----------------------------------------------------------------------------
Return(c) ==
    /\ pc[c] = "waiting"
    /\ \E r \in future[c] : End(c, r)
    /\ UNCHANGED <<app, ask, future, registry, net, change, names, line>>

(* 30 s since the registration: no earlier does the call give up. *)
Ages(c) ==
    /\ pc[c] \in {"sending", "waiting"} \/ c \in callbacks
    /\ c \notin late
    /\ late' = late \cup {c}
    /\ UNCHANGED <<app, calls, callbacks, writing, net, change, names, line, temps>>

Timeout(c) ==
    /\ pc[c] = "waiting" /\ c \in late /\ future[c] = {}
    /\ End(c, Unanswered(ask[c]))
    /\ callbacks' = IF ask[c] = GetConfig THEN callbacks ELSE callbacks \ {c}
    /\ UNCHANGED <<app, ask, future, late, writing, net, change, names, line>>

(* The application cancels the task of a call: its callback stays. *)
Cancel(c) ==
    /\ pc[c] = "waiting"
    /\ End(c, Outcome("raised", None, {}, {}))
    /\ UNCHANGED <<app, ask, future, registry, net, change, names, line>>

Clean_Answered(c) ==                \* variant: only what has been answered is removed
    /\ c \in callbacks \cap late /\ future[c] # {}
    /\ callbacks' = callbacks \ {c}
    /\ UNCHANGED <<app, calls, late, writing, net, change, names, line, temps>>
Clean(c) ==                         \* _cleanup_expired_callbacks
    /\ c \in callbacks \cap late
    /\ callbacks' = callbacks \ {c}
    /\ UNCHANGED <<app, calls, late, writing, net, change, names, line, temps>>

(* disconnect(): the workers, with the callbacks they run, are cancelled,  *)
(* the processor is shut down; what is on its way is lost, a write perhaps *)
(* not.                                                                    *)
Disconnect ==
    /\ line.up
    /\ line' = [line EXCEPT !.up = FALSE]
    /\ callbacks' = {} /\ writing' = {} /\ net' = {}
    /\ saved' \in {saved} \cup {ask[c].iq.value : c \in writing}
    /\ UNCHANGED <<app, calls, late, change, server, config, temps>>

Reconnect ==
    /\ ~line.up /\ line.drops > 0
    /\ line' = [up |-> TRUE, drops |-> line.drops - 1]
    /\ UNCHANGED <<app, calls, registry, net, change, names, temps>>
-----------------------------------------------------------------------------
CallStep(c) ==
    \/ Sent(c) \/ SendFails(c) \/ Return(c) \/ Timeout(c) \/ Ages(c)
AnswerStep(c) ==
    \/ Dropped(c) \/ Process(c) \/ ProcessName(c) \/ Written(c) \/ WriteFails(c)
=============================================================================
