---------------------------- MODULE Uploads_proofs ----------------------------
(***************************************************************************)
(* For every application, whatever operations its calls ask for: what a    *)
(* call is told is what the server did, what is on disk when the account's *)
(* name was set, and what uploads share and leave behind.                  *)
(***************************************************************************)
EXTENDS Uploads, FiniteSetTheorems, TLAPS

(* What an answer with which the server did ch may tell the caller of q:   *)
(* Answered, of one outcome.                                               *)
Says(q, ch, r) ==
    /\ r.kind \in {"ok", "failed", "raised", "unsaid"}
    /\ r.kind = "ok" =>
          \/ q.means = Nothing
          \/ /\ ch.of = q.means.of /\ ch.is = q.means.is
             /\ q.reads \in {"listed", "others"} => r.good \subseteq ch.jids
             /\ ch.jids \subseteq q.means.jids
    /\ r.kind \in {"failed", "raised"} => ch = Nothing \/ q.reads = "group"

Agrees(c, a) == \E s \in Service(ask[c]) : a \in s.answer /\ s.change = change[c]

(* The life of one call: no trace of it before it is sent, then at most    *)
(* one message, then an outcome that agrees with what the server did.      *)
Early == {"idle", "ready", "queued", "sending"}

Unsent(c) ==
    pc[c] \in Early => /\ \A m \in net : m.call # c
                       /\ change[c] = Nothing /\ c \notin writing
                       /\ future[c] = {} /\ result[c] = {}

OnItsWay(c) ==
    /\ \A m, n \in net : m.call = c /\ n.call = c => m = n
    /\ \A m \in net : m.call = c =>
          /\ c \notin writing /\ future[c] = {}
          /\ \/ m = Request(c) /\ change[c] = Nothing
             \/ \E a : m = Answer(c, a) /\ Agrees(c, a)

Saving(c) ==
    c \in writing => /\ c \in callbacks \cup late
                     /\ ask[c].reads = "name" /\ future[c] = {} /\ Agrees(c, Empty)

Told(c) ==
    /\ \A r \in future[c] : future[c] = {r} /\ Says(ask[c], change[c], r)
    /\ \A r \in result[c] : /\ pc[c] = "connected" \/ pc[c] = "done"
                            /\ r.kind = "ok" /\ ~IsMedia(c) => r \in future[c]

Files(c) ==
    /\ c \in encrypted => pc[c] = "posting"
    /\ c \in temps => /\ pc[c] # "idle" /\ (IsMedia(c) \/ ask[c] = SetProfilePicture)
                      /\ pc[c] = "done" => IsMedia(c) /\ \E r \in result[c] : r.kind = "raised"
    /\ pc[c] \in {"ready", "queued", "connected", "posting"} => IsMedia(c)

CallInv(c) ==
    /\ pc[c] # "idle" => ask[c] \in app.asks[c]
    /\ Unsent(c) /\ OnItsWay(c) /\ Saving(c) /\ Told(c) /\ Files(c)

(* Who waits for the lock of the media connection is suspended there, and  *)
(* whoever asks for the connection has the lock.                           *)
HasLock(c) == IsMedia(c) /\ pc[c] \in {"sending", "waiting", "connected"}

LockInv ==
    /\ queue \in Seq(Calls)
    /\ \A i \in 1..Len(queue) : pc[queue[i]] = "queued"
    /\ \A i, j \in 1..Len(queue) : queue[i] = queue[j] => i = j
    /\ \A c \in Calls : HasLock(c) => holder = {c}
    /\ holder = {} \/ \E c \in Calls : holder = {c} /\ HasLock(c)
    /\ conn = {} \/ \E k : conn = {k}

(* The name, while one call only has been made for it: at the server from  *)
(* its answer on, on disk from the outcome on.                             *)
OnlyNaming(c) == Naming(c) /\ \A d \in Calls : Naming(d) => d = c

NameInv ==
    \A c \in Calls : OnlyNaming(c) =>
        /\ \/ c \in writing
           \/ \E m \in net : \E a \in m.answer : m.call = c /\ a.type = "result"
           \/ \E r \in future[c] : r.kind = "ok"
           => server = ask[c].iq.value
        /\ (\E r \in future[c] : r.kind = "ok") => saved = ask[c].iq.value

IsMap(f) == f = [c \in Calls |-> f[c]]

Typed ==
    /\ app \in Apps
    /\ pc \in [Calls -> {"idle", "ready", "queued", "sending", "waiting",
                         "connected", "posting", "done"}]
    /\ ask \in [Calls -> Operations]
    /\ IsMap(future) /\ IsMap(result) /\ IsMap(change)
    /\ callbacks \subseteq Calls /\ late \subseteq Calls /\ writing \subseteq Calls
    /\ temps \subseteq Calls /\ encrypted \subseteq Calls
    /\ \A m \in net : m.call \in Calls

CallsInv == \A c \in Calls : CallInv(c)

IInv == Typed /\ CallsInv /\ LockInv /\ NameInv
-----------------------------------------------------------------------------
(* What is true of every operation: its request has the server make the    *)
(* change it is for, or none; and only the account's name is a name.       *)
Fulfils(q, D) ==
    LET ch == Makes(q.iq, D)
    IN  /\ ch.of = q.means.of /\ ch.is = q.means.is /\ ch.jids \subseteq q.means.jids
        /\ q.reads \in {"listed", "others"} => ch.jids = D

OpInv(q) ==
    /\ q.fails \in {"raised", "failed", "unsaid"}
    /\ q.reads = "listed" => q.iq.tag = "add"
    /\ q.reads = "others" => q.iq.tag = "remove"
    /\ \/ q.means = Nothing /\ q.reads # "name"
       \/ /\ q.reads \in {"group", "listed", "others", "done", "name"}
          /\ q.iq.tag # None => \A D \in SUBSET q.iq.jids : Fulfils(q, D)
    /\ q.reads = "name" => q.means = Change("name", {}, q.iq.value)
    /\ q.means.of = "name" => q.reads = "name"

LEMMA GroupOps ==
    ASSUME NEW P \in SUBSET Accounts
    PROVE  /\ OpInv(AddParticipants(P)) /\ OpInv(RemoveParticipants(P))
           /\ OpInv(PromoteParticipants(P)) /\ OpInv(DemoteParticipants(P))
           /\ OpInv(ApproveParticipants("approve", P)) /\ OpInv(ApproveParticipants("reject", P))
           /\ OpInv(TrustContact(P))
           /\ \A s : OpInv(CreateGroup(s, P))
<1> USE DEF OpInv, Fulfils, Makes, Role, Change, Nothing, None, GroupOp, Op, Iq
<1>1. ASSUME NEW s PROVE OpInv(CreateGroup(s, P))
  BY DEF CreateGroup, BuildCreateGroup
<1>2. OpInv(AddParticipants(P)) /\ OpInv(RemoveParticipants(P))
  BY DEF AddParticipants, RemoveParticipants, ParticipantsOperation
<1>3. OpInv(PromoteParticipants(P)) /\ OpInv(DemoteParticipants(P))
  BY DEF PromoteParticipants, DemoteParticipants, ParticipantsOperation
<1>4. OpInv(ApproveParticipants("approve", P))
  BY DEF ApproveParticipants, BuildApproveParticipants
<1>6. OpInv(ApproveParticipants("reject", P))
  BY DEF ApproveParticipants, BuildApproveParticipants
<1>5. OpInv(TrustContact(P))
  BY DEF TrustContact, TrustTokens
<1> QED BY <1>1, <1>2, <1>3, <1>4, <1>5, <1>6

LEMMA TextOps ==
    ASSUME NEW s
    PROVE  /\ OpInv(SetSubject(s)) /\ OpInv(SetDescription(s)) /\ OpInv(JoinWithCode(s))
           /\ OpInv(SetProfileName(s)) /\ OpInv(SetBusinessName(s)) /\ OpInv(UpdateBusinessProfile(s))
<1> USE DEF OpInv, Fulfils, Makes, Role, Change, Nothing, None, GroupOp, Op, Iq
<1>1. OpInv(SetSubject(s)) /\ OpInv(SetDescription(s))
  BY DEF SetSubject, SetDescription, BuildSetSubject, BuildSetDescription
<1>2. OpInv(JoinWithCode(s))
  BY DEF JoinWithCode, BuildJoinWithCode
<1>3. OpInv(SetProfileName(s)) /\ OpInv(SetBusinessName(s))
  BY DEF SetProfileName, SetBusinessName, AppSyncState, VerifiedName
<1>4. OpInv(UpdateBusinessProfile(s))
  BY DEF UpdateBusinessProfile, ProfileField
<1> QED BY <1>1, <1>2, <1>3, <1>4

LEMMA SettingOps ==
    ASSUME NEW s \in Settings, NEW v PROVE OpInv(SetSettings(s, v))
<1> DEFINE q == SetSettings(s, v)
<1>1. /\ q.fails = "raised" /\ q.reads = "done" /\ q.means = Change(s, {}, v)
      /\ q.iq.tag = None \/ (q.iq.tag = s /\ q.iq.value = v)
  BY DEF SetSettings, BuildSetSettings, GroupOp, Op, Iq, None
<1>2. q.iq.tag = s => \A D : Makes(q.iq, D) = Change(s, {}, q.iq.value)
  BY DEF Makes, Settings
<1> HIDE DEF q
<1>3. q.iq.tag # None => \A D \in SUBSET q.iq.jids : Fulfils(q, D)
  BY <1>1, <1>2 DEF Fulfils, Change
<1>4. q.means.of # "name"
  BY <1>1 DEF Change, Settings
<1>5. OpInv(q)
  BY <1>1, <1>3, <1>4 DEF OpInv
<1> QED BY <1>5 DEF q

LEMMA QueryOps ==
    ASSUME NEW q, q.means = Nothing, q.reads \notin {"name", "listed", "others"},
           q.fails \in {"raised", "failed", "unsaid"}
    PROVE  OpInv(q)
BY DEF OpInv, Nothing, Change

LEMMA OpsInv == \A q \in Operations : OpInv(q)
<1> SUFFICES ASSUME NEW q \in Operations PROVE OpInv(q)
  OBVIOUS
<1>1. CASE q \in {GetGroupInfo, ListGroups, GetInviteCode, GetConfig, MediaConn,
                  GetAvatar, GetAccountInfo, GetStatus, GetBusinessProfile}
  BY <1>1, QueryOps
  DEF GetGroupInfo, ListGroups, GetInviteCode, GetConfig, MediaConn, GetAvatar,
      GetAccountInfo, GetStatus, GetBusinessProfile, GroupOp, Account, Op
<1>2. CASE \E P \in SUBSET Accounts : \/ q \in {SyncContacts(P), SyncDevices(P), IntegrityCheck(P)}
                                      \/ \E j \in Accounts : q = GetUserInfo(j)
  BY <1>2, QueryOps DEF SyncContacts, SyncDevices, IntegrityCheck, GetUserInfo, Account, Op
<1>3. CASE q = LeaveGroup
  BY <1>3 DEF OpInv, Fulfils, Makes, Role, Change, Nothing, None, GroupOp, Op, Iq,
              LeaveGroup, BuildLeaveGroup
<1>7. CASE q = SetProfilePicture
  BY <1>7 DEF OpInv, Fulfils, Makes, Role, Change, Nothing, None, Account, Op, Iq,
              SetProfilePicture
<1>4. CASE \E P \in SUBSET Accounts :
             \/ q \in {AddParticipants(P), RemoveParticipants(P), PromoteParticipants(P),
                       DemoteParticipants(P), TrustContact(P), ApproveParticipants("approve", P),
                       ApproveParticipants("reject", P)}
             \/ \E s \in Texts : q = CreateGroup(s, P)
  <2>1. PICK P \in SUBSET Accounts :
             \/ q \in {AddParticipants(P), RemoveParticipants(P), PromoteParticipants(P),
                       DemoteParticipants(P), TrustContact(P), ApproveParticipants("approve", P),
                       ApproveParticipants("reject", P)}
             \/ \E s \in Texts : q = CreateGroup(s, P)
    BY <1>4
  <2> QED BY <2>1, GroupOps
<1>5. CASE \E s \in Settings, v \in Texts \cup {None} : q = SetSettings(s, v)
  BY <1>5, SettingOps
<1>6. CASE \E s \in Texts :
             q \in {SetSubject(s), SetDescription(s), JoinWithCode(s), SetProfileName(s),
                    SetBusinessName(s), UpdateBusinessProfile(s)}
  <2>1. PICK s \in Texts :
             q \in {SetSubject(s), SetDescription(s), JoinWithCode(s), SetProfileName(s),
                    SetBusinessName(s), UpdateBusinessProfile(s)}
    BY <1>6
  <2> QED BY <2>1, TextOps
<1> QED BY <1>1, <1>2, <1>3, <1>4, <1>5, <1>6, <1>7 DEF Operations

(* What the caller reads in an answer of the server agrees with what the   *)
(* server did.                                                             *)
LEMMA ReadSays ==
    ASSUME NEW q, OpInv(q), NEW s \in Service(q), NEW a \in s.answer
    PROVE  Says(q, s.change, Read(q, a))
<1> USE DEF Service, Shows, Read, Reads, Reply, Done, Outcome, Fine, Failed
<1>1. CASE q.fails = "unsaid"
  BY <1>1 DEF Says
<1>2. CASE q.fails # "unsaid" /\ a.type # "result"
  <2>1. s.change = Nothing
    BY <1>2, s \in Service(q), a \in s.answer DEF Empty
  <2> QED BY <1>2, <2>1 DEF Says, OpInv
<1>3. CASE q.fails # "unsaid" /\ a.type = "result" /\ q.means = Nothing
  <2>1. s.change = Nothing
    BY <1>3, s \in Service(q), a \in s.answer DEF Empty
  <2>2. Read(q, a).kind \in {"ok", "failed", "raised"}
    BY <1>3 DEF OpInv, Named, Info, Groups, Listed, NotListed, Contacts, Devices, Value, Optional
  <2> QED BY <1>3, <2>1, <2>2 DEF Says
<1>4. CASE q.fails # "unsaid" /\ a.type = "result" /\ q.means # Nothing
  <2>1. PICK D \in SUBSET q.iq.jids : q.iq.tag # None /\ s.change = Makes(q.iq, D) /\ a \in Shows(q, D)
    BY <1>4
  <2>2. Fulfils(q, D)
    BY <1>4, <2>1 DEF OpInv
  <2>3. CASE q.reads = "group"
    BY <1>4, <2>1, <2>2, <2>3 DEF Says, Fulfils, Named, OpInv
  <2>4. CASE q.reads = "listed"
    BY <1>4, <2>1, <2>2, <2>4 DEF Says, Fulfils, Listed, OpInv
  <2>5. CASE q.reads = "others"
    BY <1>4, <2>1, <2>2, <2>5 DEF Says, Fulfils, NotListed, OpInv
  <2>6. CASE q.reads \in {"done", "name"}
    BY <1>4, <2>1, <2>2, <2>6 DEF Says, Fulfils
  <2> QED BY <1>4, <2>3, <2>4, <2>5, <2>6 DEF OpInv
<1> QED BY <1>1, <1>2, <1>3, <1>4
-----------------------------------------------------------------------------
(* What a step of a call leaves alone: the application and every other     *)
(* call, with its message, its callback and its files.                     *)
Alone(d) ==
    /\ pc'[d] = pc[d] /\ ask'[d] = ask[d] /\ change'[d] = change[d]
    /\ future'[d] = future[d] /\ result'[d] = result[d]
    /\ d \in callbacks' <=> d \in callbacks
    /\ d \in late' <=> d \in late
    /\ d \in writing' <=> d \in writing
    /\ d \in temps' <=> d \in temps
    /\ d \in encrypted' <=> d \in encrypted
    /\ \A m : m.call = d => (m \in net' <=> m \in net)

LEMMA AloneKeeps ==
    ASSUME NEW d \in Calls, CallInv(d), app' = app, Alone(d)
    PROVE  CallInv(d)'
<1> USE DEF Alone
<1>1. \A a : Agrees(d, a)' <=> Agrees(d, a)
  BY DEF Agrees
<1>2. Unsent(d)'
  BY DEF CallInv, Unsent
<1>3. OnItsWay(d)'
  BY <1>1 DEF CallInv, OnItsWay, Request, Answer
<1>4. Saving(d)'
  BY <1>1 DEF CallInv, Saving
<1>5. Told(d)'
  BY DEF CallInv, Told, IsMedia
<1>6. Files(d)'
  BY DEF CallInv, Files, IsMedia
<1> QED BY <1>2, <1>3, <1>4, <1>5, <1>6 DEF CallInv

Acts(c) == UploadStep(c) \/ RequestStep(c)

LEMMA ActsAlone ==
    ASSUME Typed, LockInv, NEW c \in Calls, Acts(c)
    PROVE  Typed' /\ app' = app /\ \A d \in Calls \ {c} : Alone(d)
<1> DEFINE Goal == Typed' /\ app' = app /\ \A d \in Calls \ {c} : Alone(d)
<1> USE DEF Typed, Alone, IsMap, End, Ends, Register, Request, Answer, SetFuture,
            calls, registry, names, requests, media
<1>1. app.asks[c] \subseteq Operations /\ MediaConn \in Operations
  BY RequestsAssumption DEF Operations
<1>2. ASSUME NEW q \in app.asks[c], NEW f \in BOOLEAN, Call(c, q, f), UNCHANGED media PROVE Goal
  BY <1>1, <1>2 DEF Call
<1>3. CASE Sent(c) /\ UNCHANGED media
  BY <1>3 DEF Sent
<1>4. CASE SendFails(c) /\ UNCHANGED media
  <2>1. \A m : m.call # c => (m \in net' <=> m \in net)
    BY <1>4 DEF SendFails
  <2>2. \A m \in net' : m.call \in Calls
    BY <1>4 DEF SendFails
  <2>3. Typed'
    BY <1>4, <2>2 DEF SendFails
  <2> QED BY <1>4, <2>1, <2>3 DEF SendFails
<1>5. CASE (Return(c) \/ Cancel(c)) /\ UNCHANGED media
  BY <1>5 DEF Return, Cancel
<1>6. CASE Timeout(c) /\ UNCHANGED media
  BY <1>6 DEF Timeout
<1>7. CASE (Ages(c) \/ Clean(c) \/ Dropped(c)) /\ UNCHANGED media
  BY <1>7 DEF Ages, Clean, Dropped
<1>8. CASE (Process(c) \/ ProcessName(c)) /\ UNCHANGED media
  BY <1>8 DEF Process, ProcessName
<1>9. CASE (Written(c) \/ WriteFails(c)) /\ UNCHANGED media
  BY <1>9 DEF Written, WriteFails
<1>10. CASE Serve(c) /\ UNCHANGED media
  <2>1. PICK s \in Service(ask[c]) :
           /\ net' = (net \ {Request(c)}) \cup {Answer(c, a) : a \in s.answer}
           /\ change' = [change EXCEPT ![c] = s.change]
    BY <1>10 DEF Serve
  <2>2. \A m : m.call # c => (m \in net' <=> m \in net)
    BY <2>1
  <2>3. \A m \in net' : m.call \in Calls
    BY <2>1
  <2>4. IsMap(change') /\ \A d \in Calls \ {c} : change'[d] = change[d]
    BY <2>1
  <2>5. Typed'
    BY <1>10, <2>3, <2>4 DEF Serve
  <2> QED BY <1>10, <2>2, <2>4, <2>5 DEF Serve
<1>11. ASSUME NEW f \in BOOLEAN, Fetch(c, f) PROVE Goal
  BY <1>1, <1>11 DEF Fetch
<1>12. CASE Wait(c) \/ Cached(c) \/ Acquire(c)
  BY <1>12 DEF Wait, Cached, Acquire
<1>13. CASE Connected(c) \/ Posted(c)
  BY <1>13 DEF Connected, Posted
<1> QED
  BY <1>2, <1>3, <1>4, <1>5, <1>6, <1>7, <1>8, <1>9, <1>10, <1>11, <1>12, <1>13
  DEF Acts, UploadStep, RequestStep, CallStep, AnswerStep

LEMMA NameAnswer ==
    ASSUME NEW q, q.reads = "name", NEW s \in Service(q), NEW a \in s.answer, a.type = "result"
    PROVE  a = Empty
BY DEF Service, Shows, Empty, Done, Reply

LEMMA ActsKeep ==
    ASSUME Typed, CallsInv, LockInv, NEW c \in Calls, Acts(c)
    PROVE  CallInv(c)'
<1> DEFINE q == ask[c]
<1>1. CallInv(c) /\ OpInv(q) /\ app' = app
  BY OpsInv, ActsAlone DEF CallsInv, Typed
<1>2. \A r \in {Unanswered(q), NotSent(q), Outcome("raised", None, {}, {})} :
         r.kind \in {"raised", "failed", "unsaid"}
  BY <1>1 DEF Unanswered, NotSent, Failed, Outcome, OpInv
<1>3. ask'[c] = ask[c] /\ change'[c] = change[c] => \A a : Agrees(c, a)' <=> Agrees(c, a)
  BY DEF Agrees
<1> USE DEF Typed, IsMap, CallInv, Unsent, OnItsWay, Saving, Told, Files, Early, IsMedia,
            Request, Answer, End, Ends, Register, calls, registry, names, requests, media
<1>4. ASSUME NEW p \in app.asks[c] \ {MediaConn}, NEW f \in BOOLEAN, Call(c, p, f), UNCHANGED media
      PROVE  CallInv(c)'
  <2>1. OpInv(p) /\ p \in Operations
    BY OpsInv, RequestsAssumption
  <2>2. Unanswered(p).kind \in {"raised", "failed", "unsaid"}
    BY <2>1 DEF Unanswered, Failed, Outcome, OpInv
  <2>3. f => MayAsk(p)
    BY <1>4 DEF Call, MayAsk, SetProfilePicture, Account, Op
  <2> QED BY <1>1, <1>4, <2>1, <2>2, <2>3 DEF Call
<1>5. CASE Sent(c) /\ UNCHANGED media
  BY <1>1, <1>3, <1>5 DEF Sent
<1>6. CASE SendFails(c) /\ UNCHANGED media
  BY <1>1, <1>2, <1>3, <1>6 DEF SendFails
<1>7. CASE (Return(c) \/ Cancel(c)) /\ UNCHANGED media
  BY <1>1, <1>2, <1>3, <1>7 DEF Return, Cancel
<1>8. CASE Timeout(c) /\ UNCHANGED media
  BY <1>1, <1>2, <1>3, <1>8 DEF Timeout
<1>9. CASE (Ages(c) \/ Clean(c) \/ Dropped(c)) /\ UNCHANGED media
  BY <1>1, <1>3, <1>9 DEF Ages, Clean, Dropped
<1>10. CASE (Process(c) \/ ProcessName(c)) /\ UNCHANGED media
  <2>0. PICK m \in net : \E a \in m.answer :
           /\ m.call = c /\ net' = net \ {m}
           /\ \/ ProcessName(c) /\ Saves(c, a)
              \/ Process(c) /\ SetFuture(c, Read(q, a))
    BY <1>10 DEF Process, ProcessName
  <2>1. PICK a \in m.answer :
           /\ m.call = c /\ net' = net \ {m}
           /\ \/ ProcessName(c) /\ Saves(c, a)
              \/ Process(c) /\ SetFuture(c, Read(q, a))
    BY <2>0
  <2>2. Agrees(c, a) /\ future[c] = {} /\ c \notin writing /\ pc[c] \notin Early
    BY <1>1, <2>1
  <2>3. \A n \in net' : n.call # c
    BY <1>1, <2>1
  <2>4. /\ pc' = pc /\ ask' = ask /\ change' = change /\ result' = result /\ late' = late
        /\ temps' = temps /\ encrypted' = encrypted
    BY <1>10 DEF Process, ProcessName
  <2>5. CASE ProcessName(c) /\ Saves(c, a)
    <3>1. q.reads = "name" /\ Agrees(c, Empty)
      BY <2>2, <2>5, NameAnswer DEF Saves, Agrees
    <3>2. future' = future /\ writing' = writing \cup {c} /\ callbacks' = callbacks /\ c \in callbacks
      BY <2>5 DEF ProcessName
    <3> QED BY <1>1, <1>3, <2>2, <2>3, <2>4, <3>1, <3>2
  <2>6. CASE Process(c) /\ SetFuture(c, Read(q, a))
    <3>1. Says(q, change[c], Read(q, a))
      BY <1>1, <2>2, ReadSays DEF Agrees
    <3>2. future'[c] \in {{}, {Read(q, a)}} /\ writing' = writing
      BY <2>2, <2>6 DEF SetFuture, Process
    <3> QED BY <1>1, <1>3, <2>2, <2>3, <2>4, <3>1, <3>2
  <2> QED BY <2>1, <2>5, <2>6
<1>11. CASE (Written(c) \/ WriteFails(c)) /\ UNCHANGED media
  <2>1. Says(q, change[c], Read(q, Empty))
    BY <1>1, <1>11, ReadSays DEF Written, WriteFails, Agrees
  <2>2. /\ pc' = pc /\ ask' = ask /\ change' = change /\ result' = result /\ late' = late
        /\ temps' = temps /\ encrypted' = encrypted /\ net' = net /\ c \notin writing'
        /\ c \in writing /\ future'[c] \in {{}, {Read(q, Empty)}}
    BY <1>1, <1>11 DEF Written, WriteFails, SetFuture, Empty, Done
  <2> QED BY <1>1, <1>3, <2>1, <2>2
<1>12. CASE Serve(c) /\ UNCHANGED media
  <2>1. PICK s \in Service(q) :
           /\ net' = (net \ {Request(c)}) \cup {Answer(c, a) : a \in s.answer}
           /\ change' = [change EXCEPT ![c] = s.change]
    BY <1>12 DEF Serve
  <2>2. /\ Request(c) \in net /\ pc' = pc /\ ask' = ask /\ result' = result /\ future' = future
        /\ temps' = temps /\ encrypted' = encrypted /\ writing' = writing
    BY <1>12 DEF Serve
  <2>3. future[c] = {} /\ c \notin writing /\ pc[c] \notin Early
    BY <1>1, <2>2
  <2>4. \A m \in net' : m.call = c => \E a \in s.answer : m = Answer(c, a)
    BY <1>1, <2>1, <2>2
  <2>5. \A a \in s.answer : Agrees(c, a)'
    BY <2>1, <2>2 DEF Agrees
  <2>6. \A a, b \in s.answer : a = b
    BY <2>1 DEF Service
  <2>7. OnItsWay(c)'
    BY <2>2, <2>3, <2>4, <2>5, <2>6
  <2> QED BY <1>1, <2>2, <2>3, <2>7
<1>13. ASSUME NEW f \in BOOLEAN, Fetch(c, f) PROVE CallInv(c)'
  BY <1>1, <1>3, <1>13 DEF Fetch
<1>14. CASE Wait(c)
  BY <1>1, <1>3, <1>14 DEF Wait
<1>15. CASE Cached(c) \/ Acquire(c)
  BY <1>1, <1>3, <1>15 DEF Cached, Acquire, LockInv
<1>16. CASE Connected(c) \/ Posted(c)
  <2>1. /\ ask' = ask /\ change' = change /\ future' = future /\ net' = net
        /\ writing' = writing /\ callbacks' = callbacks /\ late' = late
    BY <1>16 DEF Connected, Posted
  <2>2. IsMedia(c) /\ pc[c] \notin Early
    BY <1>1, <1>16 DEF Connected, Posted
  <2>3. /\ temps' \subseteq temps
        /\ \/ pc'[c] = "posting" /\ result'[c] = {}
           \/ /\ pc'[c] = "done" /\ c \notin encrypted'
              /\ \/ result'[c] = {Outcome("raised", None, {}, {})}
                 \/ result'[c] = {Outcome("ok", None, {}, {})} /\ c \notin temps'
    <3>1. CASE Connected(c)
      <4>1. PICK r \in result[c] :
              IF r.kind = "ok" THEN /\ pc' = [pc EXCEPT ![c] = "posting"]
                                    /\ result' = [result EXCEPT ![c] = {}]
              ELSE Ends(c, "raised") /\ UNCHANGED encrypted
        BY <3>1 DEF Connected
      <4>2. temps' = temps /\ c \notin encrypted
        BY <1>1, <3>1 DEF Connected
      <4>3. CASE r.kind = "ok"
        BY <4>1, <4>2, <4>3
      <4>4. CASE r.kind # "ok"
        BY <4>1, <4>2, <4>4
      <4> QED BY <4>3, <4>4
    <3>2. CASE Posted(c)
      BY <1>1, <3>2 DEF Posted
    <3> QED BY <1>16, <3>1, <3>2
  <2>4. pc[c] \in {"connected", "posting"} /\ encrypted' \subseteq encrypted \cup {c}
    BY <1>16 DEF Connected, Posted
  <2>5. Unsent(c)' /\ OnItsWay(c)' /\ Saving(c)'
    BY <1>1, <1>3, <2>1, <2>2, <2>3
  <2>6. Told(c)'
    BY <1>1, <2>1, <2>2, <2>3 DEF Outcome
  <2>7. Files(c)'
    <3>1. Outcome("raised", None, {}, {}).kind = "raised"
      BY DEF Outcome
    <3>2. pc'[c] = "done" /\ c \in temps' => \E r \in result'[c] : r.kind = "raised"
      BY <2>3, <3>1
    <3>3. c \in encrypted' => pc'[c] = "posting"
      BY <2>3
    <3>4. ask'[c] = MediaConn /\ pc'[c] # "idle"
      BY <2>1, <2>2, <2>3
    <3> QED BY <3>2, <3>3, <3>4
  <2> QED BY <1>1, <2>1, <2>2, <2>5, <2>6, <2>7
<1> QED
  BY <1>4, <1>5, <1>6, <1>7, <1>8, <1>9, <1>10, <1>11, <1>12, <1>13, <1>14, <1>15, <1>16
  DEF Acts, UploadStep, RequestStep, CallStep, AnswerStep

LEMMA ActsLock ==
    ASSUME Typed, CallsInv, LockInv, NEW c \in Calls, Acts(c)
    PROVE  LockInv'
<1>1. /\ \A d \in Calls \ {c} : pc'[d] = pc[d] /\ ask'[d] = ask[d]
      /\ CallInv(c)
  BY ActsAlone DEF Alone, CallsInv
<1>2. \A d \in Calls \ {c} : HasLock(d)' <=> HasLock(d)
  BY <1>1 DEF HasLock, IsMedia
<1>3. ASSUME UNCHANGED <<queue, holder, conn>>, pc[c] # "queued", HasLock(c)' <=> HasLock(c)
      PROVE  LockInv'
  <2>1. \A i \in 1..Len(queue) : queue[i] \in Calls /\ queue[i] # c
    BY <1>3 DEF LockInv
  <2>2. \A i \in 1..Len(queue) : pc'[queue[i]] = "queued"
    BY <1>1, <2>1 DEF LockInv
  <2>3. \A d \in Calls : HasLock(d)' <=> HasLock(d)
    BY <1>2, <1>3
  <2> HIDE DEF HasLock
  <2> QED BY <1>3, <2>2, <2>3 DEF LockInv
<1>4. CASE RequestStep(c)
  <2>1. UNCHANGED <<queue, holder, conn>>
    BY <1>4 DEF RequestStep, media
  <2>2. CASE pc' = pc /\ ask' = ask
    BY <2>1, <2>2, <1>2 DEF LockInv, HasLock, IsMedia
  <2>3. CASE ~(pc' = pc /\ ask' = ask)
    <3>1. CASE \E q \in app.asks[c] \ {MediaConn}, f \in BOOLEAN : Call(c, q, f)
      BY <1>3, <2>1, <3>1 DEF Call, Typed, HasLock, IsMedia
    <3>2. CASE Sent(c) \/ SendFails(c) \/ Return(c) \/ Timeout(c) \/ Cancel(c)
      BY <1>3, <2>1, <3>2 DEF Sent, SendFails, Return, Timeout, Cancel, End, Typed, HasLock, IsMedia
    <3>3. CASE Ages(c) \/ AnswerStep(c) \/ Serve(c) \/ Clean(c)
      BY <2>3, <3>3
      DEF Ages, AnswerStep, Dropped, Process, ProcessName, Written, WriteFails, Serve, Clean, calls
    <3> QED BY <1>4, <3>1, <3>2, <3>3 DEF RequestStep, CallStep
  <2> QED BY <2>2, <2>3
<1>5. CASE (\E f \in BOOLEAN : Fetch(c, f)) \/ Posted(c)
  BY <1>1, <1>3, <1>5 DEF Fetch, Posted, Ends, Typed, HasLock, IsMedia, media
<1>6. CASE Wait(c)
  <2>1. /\ queue' = Append(queue, c) /\ pc'[c] = "queued" /\ UNCHANGED <<holder, conn>>
        /\ pc[c] = "ready"
    BY <1>6 DEF Wait, Typed
  <2>2. \A i \in 1..Len(queue) : queue[i] # c
    BY <2>1 DEF LockInv
  <2>3. ~HasLock(c) /\ ~HasLock(c)'
    BY <2>1 DEF HasLock
  <2>4. \A d \in Calls : HasLock(d)' <=> HasLock(d)
    BY <1>2, <2>3
  <2>5. /\ queue' \in Seq(Calls) /\ Len(queue') = Len(queue) + 1 /\ Len(queue) \in Nat
        /\ \A i \in 1..Len(queue) : queue'[i] = queue[i] /\ queue[i] \in Calls
        /\ queue'[Len(queue) + 1] = c
    BY <2>1 DEF LockInv
  <2>6. \A i \in 1..Len(queue') : i = Len(queue) + 1 \/ i \in 1..Len(queue)
    BY <2>5
  <2>7. \A i \in 1..Len(queue') : pc'[queue'[i]] = "queued"
    BY <1>1, <2>1, <2>2, <2>5, <2>6 DEF LockInv
  <2>8. \A i, j \in 1..Len(queue') : queue'[i] = queue'[j] => i = j
    BY <2>2, <2>5, <2>6 DEF LockInv
  <2> QED BY <2>1, <2>4, <2>5, <2>7, <2>8 DEF LockInv
<1>7. ASSUME queue # <<>>, c = Head(queue), queue' = Tail(queue), holder = {}, UNCHANGED conn,
             (holder' = {} /\ ~HasLock(c)') \/ (holder' = {c} /\ HasLock(c)')
      PROVE  LockInv'
  <2>1. /\ queue' \in Seq(Calls) /\ Len(queue') = Len(queue) - 1 /\ Len(queue) \in Nat
        /\ \A i \in 1..Len(queue') : queue'[i] = queue[i + 1]
        /\ c = queue[1]
    BY <1>7 DEF LockInv
  <2>2. \A i \in 1..Len(queue') : i + 1 \in 1..Len(queue) /\ queue'[i] # c /\ queue'[i] \in Calls
    BY <2>1 DEF LockInv
  <2>3. \A i \in 1..Len(queue') : pc'[queue'[i]] = "queued"
    BY <1>1, <2>1, <2>2 DEF LockInv
  <2>4. \A i, j \in 1..Len(queue') : queue'[i] = queue'[j] => i = j
    BY <2>1, <2>2 DEF LockInv
  <2>5. \A d \in Calls \ {c} : ~HasLock(d)'
    BY <1>2, <1>7 DEF LockInv
  <2> QED BY <1>7, <2>1, <2>3, <2>4, <2>5 DEF LockInv
<1>8. CASE Cached(c)
  BY <1>7, <1>8 DEF Cached, Typed, HasLock
<1>9. CASE Acquire(c)
  <2>1. pc[c] = "queued"
    BY <1>9 DEF Acquire, LockInv
  <2> QED BY <1>1, <1>7, <1>9, <2>1 DEF Acquire, Register, Typed, HasLock, IsMedia, CallInv, Files
<1>10. CASE Connected(c)
  <2>1. HasLock(c) /\ holder = {c} /\ pc[c] = "connected"
    BY <1>1, <1>10 DEF Connected, CallInv, Files, HasLock, LockInv
  <2>2. holder' = {} /\ queue' = queue /\ pc'[c] \in {"posting", "done"}
        /\ (conn' = conn \/ \E k : conn' = {k})
    <3>1. PICK r \in result[c] :
             IF r.kind = "ok" THEN conn' = {Conn(r.value)} /\ pc' = [pc EXCEPT ![c] = "posting"]
             ELSE Ends(c, "raised") /\ UNCHANGED conn
      BY <1>10 DEF Connected
    <3> QED BY <1>10, <2>1, <3>1 DEF Connected, Ends, Typed
  <2>3. \A d \in Calls : ~HasLock(d)'
    BY <1>2, <2>1, <2>2 DEF LockInv, HasLock
  <2>4. \A i \in 1..Len(queue) : queue[i] \in Calls /\ queue[i] # c
    BY <2>1 DEF LockInv
  <2>5. \A i \in 1..Len(queue) : pc'[queue[i]] = "queued"
    BY <1>1, <2>4 DEF LockInv
  <2> QED BY <2>2, <2>3, <2>5 DEF LockInv
<1> QED BY <1>4, <1>5, <1>6, <1>8, <1>9, <1>10 DEF Acts, UploadStep

(* What NameInv says of one call, and the steps that do not concern it.    *)
Known(c) ==
    /\ \/ c \in writing
       \/ \E m \in net : \E a \in m.answer : m.call = c /\ a.type = "result"
       \/ \E r \in future[c] : r.kind = "ok"
       => server = ask[c].iq.value
    /\ (\E r \in future[c] : r.kind = "ok") => saved = ask[c].iq.value

Quiet(c) ==
    /\ UNCHANGED <<server, saved, future>>
    /\ writing' \subseteq writing
    /\ \A m \in net' : m \in net \/ m.answer = {}

LEMMA QuietOrName ==
    ASSUME Typed, CallsInv, LockInv, NEW c \in Calls, Acts(c)
    PROVE  \/ Quiet(c)
           \/ /\ Serve(c) \/ Process(c) \/ ProcessName(c) \/ Written(c)
              /\ pc' = pc /\ ask' = ask /\ Naming(c) /\ pc[c] \notin Early
           \/ /\ ~Naming(c) /\ UNCHANGED <<server, saved, pc, ask>>
<1>1. CallInv(c) /\ OpInv(ask[c])
  BY OpsInv DEF CallsInv, Typed
<1>2. CASE RequestStep(c) /\ (Process(c) \/ ProcessName(c) \/ Written(c))
  <2>1. pc' = pc /\ ask' = ask
    BY <1>2 DEF Process, ProcessName, Written, calls
  <2>2. pc[c] \notin Early
    BY <1>1, <1>2 DEF Process, ProcessName, Written, CallInv, Unsent
  <2>3. Naming(c) \/ UNCHANGED <<server, saved>>
    BY <1>1, <1>2, <2>2
    DEF Process, ProcessName, Written, CallInv, Saving, Naming, Early, names
  <2> QED BY <1>2, <2>1, <2>2, <2>3
<1>3. CASE Serve(c)
  <2>1. pc' = pc /\ ask' = ask /\ saved' = saved
    BY <1>3 DEF Serve, calls
  <2>2. pc[c] \notin Early
    BY <1>1, <1>3 DEF Serve, CallInv, Unsent, Request
  <2>3. Naming(c) \/ server' = server
    <3>1. PICK s \in Service(ask[c]) : server' = IF s.change.of = "name" THEN s.change.is ELSE server
      BY <1>3 DEF Serve
    <3>2. CASE s.change = Nothing
      BY <3>1, <3>2 DEF Nothing, Change
    <3>3. CASE s.change # Nothing
      <4>1. ask[c].means # Nothing
            /\ \E D \in SUBSET ask[c].iq.jids : ask[c].iq.tag # None /\ s.change = Makes(ask[c].iq, D)
        BY <3>3 DEF Service
      <4>2. s.change.of = ask[c].means.of
        BY <1>1, <4>1 DEF OpInv, Fulfils
      <4> QED BY <1>1, <2>2, <3>1, <4>2 DEF OpInv, Naming, Early
    <3> QED BY <3>2, <3>3
  <2> QED BY <1>3, <2>1, <2>2, <2>3
<1>4. CASE UploadStep(c)
  BY <1>4
  DEF UploadStep, Fetch, Wait, Cached, Acquire, Connected, Posted, Register, Quiet, registry, names
<1>5. CASE RequestStep(c) /\ ~(Serve(c) \/ Process(c) \/ ProcessName(c) \/ Written(c))
  BY <1>5
  DEF RequestStep, CallStep, AnswerStep, Call, Sent, SendFails, Return, Timeout, Ages, Dropped,
      WriteFails, Cancel, Clean, Register, Request, Quiet, calls, registry, names
<1> QED BY <1>2, <1>3, <1>4, <1>5 DEF Acts

LEMMA ServeName ==
    ASSUME Typed, NEW c \in Calls, CallInv(c), OpInv(ask[c]), Known(c), ask[c].reads = "name",
           Serve(c)
    PROVE  Known(c)'
<1>1. PICK s \in Service(ask[c]) :
         /\ net' = (net \ {Request(c)}) \cup {Answer(c, a) : a \in s.answer}
         /\ server' = IF s.change.of = "name" THEN s.change.is ELSE server
  BY DEF Serve
<1>2. Request(c) \in net /\ UNCHANGED <<future, writing, saved, ask>>
  BY DEF Serve, calls, registry
<1>3. future[c] = {} /\ c \notin writing /\ \A m \in net : m.call = c => m = Request(c)
  BY <1>2 DEF CallInv, OnItsWay, Request
<1>4. ASSUME NEW m \in net', NEW a \in m.answer, m.call = c, a.type = "result"
      PROVE  server' = ask[c].iq.value
  <2>1. a \in s.answer
    BY <1>1, <1>3, <1>4 DEF Request, Answer
  <2>2. ask[c].means = Change("name", {}, ask[c].iq.value) /\ ask[c].means # Nothing
    BY DEF OpInv, Change, Nothing
  <2>3. \E D \in SUBSET ask[c].iq.jids : ask[c].iq.tag # None /\ s.change = Makes(ask[c].iq, D)
    BY <1>4, <2>1, <2>2 DEF Service, Reply
  <2>4. s.change.of = "name" /\ s.change.is = ask[c].iq.value
    BY <2>2, <2>3 DEF OpInv, Fulfils, Change
  <2> QED BY <1>1, <2>4
<1> QED BY <1>2, <1>3, <1>4 DEF Known

LEMMA ProcessNames ==
    ASSUME Typed, NEW c \in Calls, CallInv(c), OpInv(ask[c]), Known(c), ask[c].reads = "name",
           Process(c)
    PROVE  Known(c)'
<1>1. PICK m \in net : \E a \in m.answer :
         m.call = c /\ net' = net \ {m} /\ ~Saves(c, a) /\ SetFuture(c, Read(ask[c], a))
  BY DEF Process
<1>2. PICK a \in m.answer :
         m.call = c /\ net' = net \ {m} /\ ~Saves(c, a) /\ SetFuture(c, Read(ask[c], a))
  BY <1>1
<1>3. c \notin writing /\ future[c] = {} /\ \A n \in net' : n.call # c
  BY <1>2 DEF CallInv, OnItsWay
<1>4. Read(ask[c], a).kind # "ok"
  BY <1>2 DEF Saves, Read, Failed, Outcome, OpInv
<1>5. \A r \in future'[c] : r.kind # "ok"
  BY <1>2, <1>3, <1>4 DEF SetFuture, Typed, IsMap
<1> QED BY <1>3, <1>5 DEF Known, Process

LEMMA ActsName ==
    ASSUME Typed, CallsInv, LockInv, NameInv, NEW c \in Calls, Acts(c)
    PROVE  NameInv'
<1>1. /\ CallInv(c) /\ OpInv(ask[c]) /\ CallInv(c)'
      /\ \A d \in Calls \ {c} : Alone(d)
  BY OpsInv, ActsKeep, ActsAlone DEF CallsInv, Typed
<1>2. pc[c] # "idle" => pc'[c] # "idle" /\ ask'[c] = ask[c]
  BY DEF Acts, UploadStep, RequestStep, CallStep, AnswerStep, Call, Sent, SendFails, Return,
         Timeout, Ages, Dropped, Process, ProcessName, Written, WriteFails, Serve, Cancel, Clean,
         Fetch, Wait, Cached, Acquire, Connected, Posted, End, Ends, Register, calls, Typed
<1>3. \A d \in Calls : Naming(d) => Naming(d)' /\ ask'[d] = ask[d]
  BY <1>1, <1>2 DEF Naming, Alone
<1>4. ASSUME NEW d \in Calls, OnlyNaming(d)'
      PROVE  Known(d)'
  <2>1. CASE pc[d] = "idle"
    <3>1. d = c
      BY <1>1, <1>4, <2>1 DEF Alone, OnlyNaming, Naming
    <3>2. /\ \A m \in net : m.call # c
          /\ c \notin writing /\ future[c] = {}
      BY <1>1, <2>1, <3>1 DEF CallInv, Unsent, Early
    <3>3. Quiet(c)
      BY <1>4, <2>1, <3>1, QuietOrName DEF Early, OnlyNaming, Naming
    <3> QED BY <3>1, <3>2, <3>3 DEF Quiet, Known
  <2>2. CASE pc[d] # "idle"
    <3>1. OnlyNaming(d) /\ Known(d) /\ ask'[d] = ask[d]
      BY <1>1, <1>2, <1>3, <1>4, <2>2 DEF OnlyNaming, NameInv, Known, Naming, Alone
    <3>2. CASE d # c
      <4>1. UNCHANGED <<server, saved>>
        BY <1>3, <1>4, <3>2, QuietOrName DEF OnlyNaming, Quiet
      <4> QED BY <1>1, <3>1, <3>2, <4>1 DEF Known, Alone
    <3>3. CASE d = c /\ Quiet(c)
      BY <3>1, <3>3 DEF Known, Quiet
    <3>4. CASE /\ d = c /\ pc' = pc /\ ask' = ask
               /\ Serve(c) \/ Process(c) \/ ProcessName(c) \/ Written(c)
      <4>1. Naming(c) /\ ask[c].reads = "name"
        BY <3>1, <3>4 DEF OnlyNaming, Naming
      <4>2. CASE Serve(c)
        BY <1>1, <3>1, <3>4, <4>1, <4>2, ServeName DEF Typed
      <4>3. CASE Process(c)
        BY <1>1, <3>1, <3>4, <4>1, <4>3, ProcessNames DEF Typed
      <4>4. CASE ProcessName(c)
        <5>1. \E m \in net : \E a \in m.answer : m.call = c /\ a.type = "result"
          BY <4>4 DEF ProcessName, Saves
        <5>2. UNCHANGED <<server, saved, future>>
          BY <4>4 DEF ProcessName, names, calls
        <5> QED BY <3>1, <3>4, <5>1, <5>2 DEF Known
      <4>5. CASE Written(c)
        <5>1. c \in writing /\ server' = server /\ saved' = ask[c].iq.value
          BY <4>5 DEF Written
        <5> QED BY <3>1, <3>4, <5>1 DEF Known
      <4> QED BY <3>4, <4>2, <4>3, <4>4, <4>5
    <3> QED BY <3>1, <3>2, <3>3, <3>4, QuietOrName DEF OnlyNaming
  <2> QED BY <2>1, <2>2
<1> QED BY <1>4 DEF NameInv, Known
-----------------------------------------------------------------------------
LEMMA InitIInv == Init => IInv
<1> SUFFICES ASSUME Init PROVE IInv
  OBVIOUS
<1> USE DEF Init, RequestsInit
<1>1. GetConfig \in Operations
  BY DEF Operations
<1>2. Typed
  BY <1>1 DEF Typed, IsMap
<1>3. CallsInv
  BY DEF CallsInv, CallInv, Unsent, OnItsWay, Saving, Told, Files
<1>4. LockInv
  BY DEF LockInv, HasLock
<1>5. NameInv
  BY DEF NameInv, OnlyNaming, Naming
<1> QED BY <1>2, <1>3, <1>4, <1>5 DEF IInv

LEMMA DisconnectKeeps == IInv /\ Disconnect /\ UNCHANGED media => IInv'
<1> SUFFICES ASSUME IInv, Disconnect, UNCHANGED media PROVE IInv'
  OBVIOUS
<1> USE DEF IInv, Disconnect, calls, media
<1>1. Typed'
  BY DEF Typed, IsMap
<1>2. CallsInv'
  BY DEF CallsInv, CallInv, Unsent, OnItsWay, Saving, Told, Files, IsMedia
<1>3. LockInv'
  BY DEF LockInv, HasLock, IsMedia
<1>4. ASSUME NEW c \in Calls, OnlyNaming(c)' PROVE Known(c)'
  <2>1. OnlyNaming(c) /\ Known(c)
    BY <1>4 DEF OnlyNaming, Naming, NameInv, Known
  <2>2. \A d \in writing : Naming(d) /\ d \in Calls
    BY DEF Typed, CallsInv, CallInv, Unsent, Saving, Early, Naming
  <2>3. saved' \in {saved, ask[c].iq.value}
    BY <2>1, <2>2 DEF OnlyNaming
  <2> QED BY <2>1, <2>3 DEF Known, names
<1> QED BY <1>1, <1>2, <1>3, <1>4 DEF NameInv, Known

LEMMA OthersKeep ==
    IInv /\ ((Reconnect /\ UNCHANGED media) \/ Expires \/ UNCHANGED vars) => IInv'
<1> SUFFICES ASSUME IInv, (Reconnect /\ UNCHANGED media) \/ Expires \/ UNCHANGED vars PROVE IInv'
  OBVIOUS
<1>1. /\ UNCHANGED <<app, pc, ask, future, result, callbacks, late, writing, net, change, server,
                     config, saved, temps, holder, queue, encrypted>>
      /\ conn' = conn \/ conn' = {[k EXCEPT !.expired = TRUE] : k \in conn}
  BY DEF Reconnect, Expires, vars, media, requests, calls, registry, names
<1> USE DEF IInv
<1>2. Typed'
  BY <1>1 DEF Typed, IsMap
<1>3. CallsInv'
  BY <1>1
  DEF CallsInv, CallInv, Unsent, OnItsWay, Saving, Told, Files, IsMedia, Agrees, Request, Answer
<1>4. conn' = {} \/ \E k : conn' = {k}
  <2> DEFINE Old(k) == [k EXCEPT !.expired = TRUE]
  <2>1. conn' = conn \/ conn' = {Old(k) : k \in conn}
    BY <1>1
  <2>2. CASE conn = {}
    BY <2>1, <2>2
  <2>3. ASSUME NEW k, conn = {k} PROVE conn' = {k} \/ conn' = {Old(k)}
    <3> HIDE DEF Old
    <3> QED BY <2>1, <2>3
  <2> HIDE DEF Old
  <2> QED BY <2>2, <2>3 DEF LockInv
<1>5. LockInv'
  BY <1>1, <1>4 DEF LockInv, HasLock, IsMedia
<1>6. NameInv'
  BY <1>1 DEF NameInv, OnlyNaming, Naming
<1> QED BY <1>2, <1>3, <1>5, <1>6

LEMMA ActsKeepIInv == ASSUME IInv, NEW c \in Calls, Acts(c) PROVE IInv'
<1>1. Typed' /\ app' = app /\ \A d \in Calls \ {c} : Alone(d)
  BY ActsAlone DEF IInv
<1>2. \A d \in Calls : CallInv(d)'
  BY <1>1, AloneKeeps, ActsKeep DEF IInv, CallsInv
<1> QED BY <1>1, <1>2, ActsLock, ActsName DEF IInv, CallsInv

(* The invariant behind the theorems below, for every application.         *)
THEOREM Invariance == Spec => []IInv
<1>1. IInv /\ [Next]_vars => IInv'
  BY ActsKeepIInv, DisconnectKeeps, OthersKeep DEF Next, Acts
<1> QED BY InitIInv, <1>1, PTL DEF Spec

(* TypeOK: among others, the lock of get_connection has one holder, which  *)
(* is about to send, waits for, or has, the answer for the connection.     *)
THEOREM TypeCorrect == Spec => []TypeOK
<1>1. ASSUME IInv PROVE TypeOK
  <2> USE <1>1 DEF IInv
  <2>1. ASSUME NEW S, S = {} \/ \E x : S = {x} PROVE Cardinality(S) <= 1
    <3>1. CASE S = {}
      BY <3>1, FS_EmptySet
    <3>2. ASSUME NEW x, S = {x} PROVE Cardinality(S) <= 1
      <4>1. Cardinality({x}) = 1
        BY FS_Singleton
      <4> QED BY <3>2, <4>1
    <3> QED BY <2>1, <3>1, <3>2
  <2>2. RequestsTypeOK
    BY DEF RequestsTypeOK, Typed, CallsInv, CallInv, Asked, Saving, Told, Says
  <2>3. \A c \in holder : IsMedia(c) /\ pc[c] \notin {"idle", "ready", "queued", "done"}
    BY DEF LockInv, HasLock
  <2>4. Cardinality(holder) <= 1 /\ Cardinality(conn) <= 1
    BY <2>1 DEF LockInv
  <2> QED BY <2>2, <2>3, <2>4 DEF TypeOK, Typed, LockInv, CallsInv, CallInv, Files
<1> QED BY Invariance, <1>1, PTL

(* Answered: whichever of the operations of core/builders a call asks for, *)
(* what its callback makes of the answer is what the server did.           *)
THEOREM AnsweredAlways == Spec => []Answered
<1>1. ASSUME IInv PROVE Answered
  BY <1>1 DEF IInv, CallsInv, CallInv, Told, Says, Answered, Did
<1> QED BY Invariance, <1>1, PTL

(* NameSaved: a name that a call has been told is set is the server's and  *)
(* the one in the profile on disk, whatever became of the connection and   *)
(* whenever the profile was written.                                       *)
THEOREM NameSavedAlways == Spec => []NameSaved
<1>1. ASSUME IInv PROVE NameSaved
  <2> SUFFICES ASSUME NEW c \in Calls, NEW r \in result[c], pc[c] = "done", Naming(c),
                      r.kind = "ok", \A d \in Calls : Naming(d) => d = c
               PROVE  saved = server /\ server = ask[c].iq.value
    BY DEF NameSaved
  <2>1. ~IsMedia(c)
    BY DEF Naming, IsMedia, MediaConn, Op
  <2>2. r \in future[c]
    BY <1>1, <2>1 DEF IInv, CallsInv, CallInv, Told
  <2> QED BY <1>1, <2>2 DEF IInv, NameInv, OnlyNaming
<1> QED BY Invariance, <1>1, PTL

(* OneMediaRequest: get_connection keeps its lock over the request, so     *)
(* that the uploads that come meanwhile find the connection.               *)
THEOREM OneMediaRequestAlways == Spec => []OneMediaRequest
<1>1. ASSUME IInv PROVE OneMediaRequest
  BY <1>1 DEF IInv, LockInv, HasLock, OneMediaRequest
<1> QED BY Invariance, <1>1, PTL

(* TempRemoved: the finally clause of the upload removes what it           *)
(* encrypted, and the file of a picture is removed by every way out.       *)
THEOREM TempRemovedAlways == Spec => []TempRemoved
<1>1. ASSUME IInv PROVE TempRemoved
  BY <1>1 DEF IInv, CallsInv, CallInv, Files, TempRemoved
<1> QED BY Invariance, <1>1, PTL
===============================================================================
