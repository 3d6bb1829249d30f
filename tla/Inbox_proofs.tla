----------------------------- MODULE Inbox_proofs -----------------------------
(***************************************************************************)
(* For any number of workers, messages, contacts and calls for keys: a     *)
(* disconnect() frees the calls that wait, and the messages of a contact   *)
(* whose session row is used by one at a time reach the application.       *)
(***************************************************************************)
EXTENDS Inbox, FiniteSetTheorems, TLAPS

AtMostOne(S) == S = {} \/ \E x : S = {x}

Records == [bases : SUBSET (Bases \cup Calls), read : SUBSET Messages]

RequestsTyped ==
    /\ row \in [Jids -> SUBSET Records] /\ \A j \in Jids : AtMostOne(row[j])
    /\ pc \in [Calls -> {"idle", "asked", "wait", "done", "cancelled"}]
    /\ future \in [Calls -> {"none", "pending", "result", "cancelled"}]
    /\ had = [c \in Calls |-> had[c]] /\ asked = [c \in Calls |-> asked[c]]
    /\ running = [c \in Calls |-> running[c]] /\ \A c \in Calls : AtMostOne(running[c])
    /\ callbacks \subseteq Calls /\ net \subseteq Calls
    /\ closing \in {"no", "cancelling", "closed"}
    /\ \A c \in Calls : /\ pc[c] \in {"asked", "wait"} => asked[c] # {}
                        /\ pc[c] = "wait" => future[c] # "none"

(* A job of thread t; what it is going to store reads with the session.    *)
JobTyped(t, j) ==
    /\ j \in [m : Messages \ arriving, round : {"first", "route"},
              at : {"look", "delete", "insert"}, new : SUBSET Records]
    /\ j.round = "first" => t \notin Workers
    /\ AtMostOne(j.new) /\ (j.at = "look" <=> j.new = {})
    /\ \A r \in j.new : base \in r.bases

InboxTyped ==
    /\ thread = [t \in Threads |-> thread[t]]
    /\ \A t \in Threads : AtMostOne(thread[t]) /\ \A j \in thread[t] : JobTyped(t, j)
    /\ arriving \subseteq Messages
    /\ pending \subseteq Messages \ arriving /\ IsFiniteSet(pending)
    /\ spawned \subseteq Calls /\ runs \subseteq spawned
    /\ keyUsed \in BOOLEAN /\ emitted \subseteq plain

Typed == RequestsTyped /\ InboxTyped

(* A call that waits is in the dictionary, unless another has replaced it. *)
Entered ==
    \A c \in Calls \ replaced :
        pc[c] = "wait" /\ future[c] = "pending" => \E k \in DOMAIN entries : entries[k] = c

(* One task at a time works on the row.                                    *)
OneActive == \A t, u \in Threads : ~Idle(t) /\ ~Idle(u) => t = u

Unread == {m \in Messages : \A r \in row[peer] : m \notin r.read}

(* What has not arrived is in no record, neither stored nor about to be.   *)
ArrivingIsUnread ==
    /\ arriving \subseteq Unread
    /\ \A t \in Threads : \A j \in thread[t] : \A r \in j.new : r.read \cap arriving = {}

(* Once the pre-key is used the row has the session, but between the two   *)
(* commits of store_session, when there is no row.                         *)
Inserting == \E t \in Threads : \E j \in thread[t] : j.at = "insert"

RowHasSession ==
    /\ keyUsed => Inserting \/ \E r \in row[peer] : base \in r.bases
    /\ Inserting => row[peer] = {}

(* A message that had to be read has been given to the application, or a   *)
(* worker is reading it, and can.                                          *)
Reading(m) ==
    \E t \in Threads : \E j \in thread[t] :
        /\ j.m = m /\ j.round = "route"
        /\ j.at = "look" => m \in Unread /\ (keyUsed \/ m \in pkmsgs)

Alone ==
    ~disturbed /\ closing = "no" =>
        /\ OneActive /\ ArrivingIsUnread /\ RowHasSession
        /\ \A m \in due : m \in emitted \/ Reading(m)

IInv == Typed /\ Entered /\ Alone
-----------------------------------------------------------------------------
(* Steps of a call, of the server's answers and of the callbacks.          *)
Requests(c) == Request(c) \/ RequestFails(c)
Continues(c) ==
    \/ \E J \in SUBSET Jids : Start(c, J)
    \/ Resume(c) \/ Timeout(c) \/ Cancelled(c)
    \/ CallerCancels(c) \/ Expire(c) \/ AnswerStep(c) \/ CallbackStep(c)
CallStep(c) == Requests(c) \/ Continues(c)

(* With replaced, the calls whose entry one that is entered takes over.    *)
Replacing(c) ==
    \/ Requests(c) /\ replaced' = replaced \cup {entries[k] : k \in DOMAIN entries \cap {asked[c]}}
    \/ Continues(c) /\ UNCHANGED replaced

(* Whatever a callback creates keeps the sessions a record has.            *)
LEMMA CreatedKeeps ==
    ASSUME RequestsTyped, NEW c \in Calls, NEW j \in Jids
    PROVE  /\ Created(j, c) \subseteq Records /\ \E r : Created(j, c) = {r}
           /\ \A b : (\E r \in row[j] : b \in r.bases) => \E r \in Created(j, c) : b \in r.bases
           /\ \A m : (\A r \in row[j] : m \notin r.read) => \A r \in Created(j, c) : m \notin r.read
<1>1. CASE row[j] = {}
  <2>1. Created(j, c) = {Record({c}, {})}
    BY <1>1 DEF Created
  <2>2. Record({c}, {}) \in Records /\ Record({c}, {}).read = {}
    BY DEF Record, Records
  <2> QED BY <1>1, <2>1, <2>2
<1>2. ASSUME NEW r, row[j] = {r}
      PROVE  /\ Created(j, c) \subseteq Records /\ \E s : Created(j, c) = {s}
             /\ \A b : (\E s \in row[j] : b \in s.bases) => \E s \in Created(j, c) : b \in s.bases
             /\ \A m : (\A s \in row[j] : m \notin s.read) => \A s \in Created(j, c) : m \notin s.read
  <2> DEFINE with == [r EXCEPT !.bases = r.bases \cup {c}]
  <2>1. r \in Records
    BY <1>2 DEF RequestsTyped
  <2>2. with \in Records /\ with.bases = r.bases \cup {c} /\ with.read = r.read
    BY <2>1 DEF Records
  <2>3. Created(j, c) = {with}
    BY <1>2 DEF Created
  <2> HIDE DEF with
  <2> QED BY <1>2, <2>2, <2>3
<1> QED BY <1>1, <1>2 DEF RequestsTyped, AtMostOne

LEMMA CallTyped == ASSUME RequestsTyped, NEW c \in Calls, CallStep(c) PROVE RequestsTyped'
<1> USE DEF RequestsTyped
<1>1. ASSUME NEW J \in SUBSET Jids, Start(c, J) PROVE RequestsTyped'
  <2>1. UNCHANGED <<row, future, running, callbacks, net, closing>>
    BY <1>1 DEF Start
  <2>2. /\ pc' \in [Calls -> {"idle", "asked", "wait", "done", "cancelled"}]
        /\ had' = [d \in Calls |-> had'[d]] /\ asked' = [d \in Calls |-> asked'[d]]
        /\ \A d \in Calls \ {c} : pc'[d] = pc[d] /\ asked'[d] = asked[d]
        /\ pc'[c] = "done" \/ (pc'[c] = "asked" /\ asked'[c] # {})
    BY <1>1 DEF Start, Return
  <2> QED BY <2>1, <2>2
<1>2. CASE Request(c)
  BY <1>2 DEF Request
<1>3. CASE RequestFails(c)
  BY <1>3 DEF RequestFails, Return
<1>4. CASE Resume(c) \/ Timeout(c) \/ Cancelled(c) \/ CallerCancels(c) \/ Expire(c)
  BY <1>4 DEF Resume, Timeout, Cancelled, CallerCancels, Expire, Return
<1>5. CASE AnswerStep(c)
  <2>1. running' = [d \in Calls |-> running'[d]] /\ \A d \in Calls : AtMostOne(running'[d])
    BY <1>5 DEF AnswerStep, Answer, AnswerRefused, AnswerIgnored, AtMostOne
  <2> QED BY <1>5, <2>1 DEF AnswerStep, Answer, AnswerRefused, AnswerIgnored
<1>6. CASE CallbackStep(c)
  <2>1. running' = [d \in Calls |-> running'[d]] /\ \A d \in Calls : AtMostOne(running'[d])
    <3>1. \E R : running' = [running EXCEPT ![c] = R] /\ AtMostOne(R)
      <4>1. ASSUME NEW j \in Jids, Contact(c, j)
            PROVE  \E q : running' = [running EXCEPT ![c] = {q}]
        BY <4>1, Zenon DEF Contact
      <4>2. ASSUME NEW j \in Jids, Create(c, j) \/ CreateFails(c, j)
            PROVE  \E q : running' = [running EXCEPT ![c] = {q}]
        BY <4>2, Zenon DEF Create, CreateFails
      <4>3. CallbackEnds(c) => running' = [running EXCEPT ![c] = {}]
        BY DEF CallbackEnds
      <4> QED BY <1>6, <4>1, <4>2, <4>3 DEF CallbackStep, AtMostOne
    <3> QED BY <3>1
  <2>2. CASE CallbackEnds(c)
    BY <2>1, <2>2 DEF CallbackEnds
  <2>3. ASSUME NEW j \in Jids, Contact(c, j) \/ CreateFails(c, j) PROVE RequestsTyped'
    BY <2>1, <2>3 DEF Contact, CreateFails
  <2>4. ASSUME NEW j \in Jids, Create(c, j) PROVE RequestsTyped'
    <3>1. row' \in [Jids -> SUBSET Records] /\ \A k \in Jids : AtMostOne(row'[k])
      BY <2>4, CreatedKeeps DEF Create, AtMostOne
    <3> QED BY <2>1, <2>4, <3>1 DEF Create
  <2> QED BY <1>6, <2>2, <2>3, <2>4 DEF CallbackStep
<1> QED BY <1>1, <1>2, <1>3, <1>4, <1>5, <1>6 DEF CallStep, Requests, Continues
-----------------------------------------------------------------------------
LEMMA OwnersKept ==
    ASSUME NEW c, NEW k \in DOMAIN entries, entries[k] # c
    PROVE  /\ k \in DOMAIN Without(entries, c) /\ Without(entries, c)[k] = entries[k]
           /\ k # asked[c] =>
                 /\ k \in DOMAIN Enter(c) /\ Enter(c)[k] = entries[k]
                 /\ k \in DOMAIN Without(Enter(c), c) /\ Without(Enter(c), c)[k] = entries[k]
<1>1. k \in DOMAIN Without(entries, c) /\ Without(entries, c)[k] = entries[k]
  BY DEF Without
<1>2. ASSUME k # asked[c]
      PROVE  /\ k \in DOMAIN Enter(c) /\ Enter(c)[k] = entries[k]
             /\ k \in DOMAIN Without(Enter(c), c) /\ Without(Enter(c), c)[k] = entries[k]
  <2>1. k \in DOMAIN Enter(c) /\ Enter(c)[k] = entries[k]
    BY <1>2 DEF Enter
  <2> QED BY <2>1 DEF Without
<1> QED BY <1>1, <1>2

LEMMA EnteredKept ==
    ASSUME RequestsTyped, Entered, NEW c \in Calls, Replacing(c)
    PROVE  Entered'
<1> SUFFICES ASSUME NEW d \in Calls \ replaced', pc'[d] = "wait", future'[d] = "pending"
             PROVE  \E k \in DOMAIN entries' : entries'[k] = d
  BY DEF Entered
<1> USE DEF RequestsTyped
<1>1. d \notin replaced
  BY DEF Replacing
<1>2. ASSUME Requests(c), \A k \in DOMAIN entries \cap {asked[c]} : entries[k] \in replaced',
             d # c
      PROVE  \E k \in DOMAIN entries' : entries'[k] = d
  <2>1. pc[d] = "wait" /\ future[d] = "pending"
    BY <1>2 DEF Requests, Request, RequestFails, Return
  <2>2. PICK k \in DOMAIN entries : entries[k] = d
    BY <1>1, <2>1 DEF Entered
  <2>3. /\ k \in DOMAIN Enter(c) /\ Enter(c)[k] = d
        /\ k \in DOMAIN Without(Enter(c), c) /\ Without(Enter(c), c)[k] = d
    BY <1>2, <2>2, OwnersKept
  <2>4. entries' = Enter(c) \/ entries' = Without(Enter(c), c)
    BY <1>2 DEF Requests, Request, RequestFails
  <2> QED BY <2>3, <2>4
<1>3. ASSUME Requests(c), d = c PROVE \E k \in DOMAIN entries' : entries'[k] = d
  <2>1. entries' = Enter(c)
    BY <1>3 DEF Requests, Request, RequestFails, Return
  <2>2. asked[c] \in DOMAIN Enter(c) /\ Enter(c)[asked[c]] = c
    BY DEF Enter
  <2> QED BY <1>3, <2>1, <2>2
<1>4. CASE Resume(c) \/ Timeout(c)
  <2>1. d # c /\ pc[d] = "wait" /\ future[d] = "pending" /\ entries' = Without(entries, c)
    BY <1>4 DEF Resume, Timeout, Return
  <2>2. PICK k \in DOMAIN entries : entries[k] = d
    BY <1>1, <2>1 DEF Entered
  <2> QED BY <2>1, <2>2, OwnersKept
<1>5. ASSUME \/ \E J \in SUBSET Jids : Start(c, J)
             \/ Cancelled(c) \/ CallerCancels(c) \/ Expire(c) \/ AnswerStep(c) \/ CallbackStep(c)
      PROVE  \E k \in DOMAIN entries' : entries'[k] = d
  <2>1. CASE \E J \in SUBSET Jids : Start(c, J)
    BY <1>1, <2>1 DEF Start, Return, Entered
  <2>2. CASE Cancelled(c) \/ CallerCancels(c) \/ Expire(c)
    BY <1>1, <2>2 DEF Cancelled, CallerCancels, Expire, Entered
  <2>3. CASE AnswerStep(c)
    BY <1>1, <2>3 DEF AnswerStep, Answer, AnswerRefused, AnswerIgnored, Entered
  <2>4. CASE CallbackStep(c)
    <3>1. UNCHANGED <<pc, entries>> /\ (future'[d] = "pending" => future[d] = "pending")
      BY <2>4 DEF CallbackStep, Contact, Create, CreateFails, CallbackEnds
    <3> QED BY <1>1, <3>1 DEF Entered
  <2> QED BY <1>5, <2>1, <2>2, <2>3, <2>4
<1>6. CASE Requests(c) /\ replaced' = replaced \cup {entries[k] : k \in DOMAIN entries \cap {asked[c]}}
  BY <1>2, <1>3, <1>6
<1> QED BY <1>4, <1>5, <1>6 DEF Replacing, Continues
-----------------------------------------------------------------------------
(* The steps of calls for keys that Next allows.                           *)
KeysStep(c) ==
    \/ StartSpawned(c) \/ \E J \in SUBSET Jids \ {{}} : Asks(c, J)
    \/ RequestEntered(c) \/ Returns(c) \/ OfRequest(c) \/ OfCallback(c)

LEMMA KeysKeepRest ==
    ASSUME NEW c \in Calls, KeysStep(c)
    PROVE  /\ CallStep(c) /\ Replacing(c) /\ UNCHANGED <<inbox, emitted, plain, due>>
           /\ ~disturbed' => ~disturbed /\ (row' = row \/ Active = {})
           /\ row' = row \/ \E j \in Jids : Create(c, j)
<1>1. UNCHANGED <<inbox, emitted, plain, due>>
  BY DEF KeysStep, StartSpawned, Asks, RequestEntered, Returns, OfRequest, OfCallback, ghosts
<1> USE DEF CallStep, Replacing
<1>2. CASE RequestEntered(c)
  <2>1. Requests(c) /\ row' = row
    BY <1>2 DEF RequestEntered, Requests, Request, RequestFails
  <2> QED BY <1>1, <1>2, <2>1 DEF RequestEntered
<1>3. ASSUME NEW J \in SUBSET Jids, Start(c, J), UNCHANGED <<replaced, disturbed>>
      PROVE  /\ CallStep(c) /\ Replacing(c) /\ row' = row
             /\ disturbed' = disturbed
  BY <1>3 DEF Continues, Start
<1>4. CASE StartSpawned(c)
  <2>1. {peer} \in SUBSET Jids
    BY InboxAssumption
  <2> QED BY <1>1, <1>3, <1>4, <2>1 DEF StartSpawned, ghosts
<1>5. CASE \E J \in SUBSET Jids \ {{}} : Asks(c, J)
  BY <1>1, <1>3, <1>5 DEF Asks, ghosts
<1>6. CASE Returns(c) \/ OfRequest(c)
  <2>1. Continues(c) /\ UNCHANGED <<replaced, disturbed>>
    BY <1>6 DEF Returns, OfRequest, Continues, ghosts
  <2>2. row' = row
    BY <1>6 DEF Returns, OfRequest, Resume, Timeout, Cancelled, CallerCancels, Expire,
                AnswerStep, Answer, AnswerRefused, AnswerIgnored
  <2> QED BY <1>1, <2>1, <2>2
<1>7. CASE OfCallback(c)
  <2>1. CallbackStep(c) /\ Continues(c)
    BY <1>7 DEF OfCallback, Continues
  <2>2. row' = row \/ \E j \in Jids : Create(c, j)
    BY <2>1 DEF CallbackStep, Contact, CreateFails, CallbackEnds
  <2> QED BY <1>1, <1>7, <2>1, <2>2 DEF OfCallback
<1> QED BY <1>1, <1>2, <1>4, <1>5, <1>6, <1>7 DEF KeysStep
-----------------------------------------------------------------------------
(* What decrypting a message makes of the record.                          *)
LEMMA StoredTyped ==
    ASSUME RequestsTyped, NEW m \in Messages
    PROVE  /\ Old(m) \in Records /\ \A r \in row[peer] : Old(m) = r
           /\ row[peer] = {} => Old(m).bases = {} /\ Old(m).read = {}
           /\ Stored(m) \in Records /\ base \in Stored(m).bases
           /\ Stored(m).read = Old(m).read \cup {m}
<1>1. row[peer] \subseteq Records /\ AtMostOne(row[peer]) /\ base \in Bases
  BY InboxAssumption DEF RequestsTyped
<1>2. Record({}, {}) \in Records /\ Record({}, {}).bases = {} /\ Record({}, {}).read = {}
  BY DEF Record, Records
<1>3. Old(m) \in Records /\ \A r \in row[peer] : Old(m) = r
  <2>1. CASE row[peer] = {}
    BY <1>2, <2>1 DEF Old
  <2>2. ASSUME NEW r, row[peer] = {r} PROVE Old(m) = r
    BY <2>2 DEF Old
  <2> QED BY <1>1, <2>1, <2>2 DEF AtMostOne
<1>4. row[peer] = {} => Old(m).bases = {} /\ Old(m).read = {}
  BY <1>2 DEF Old
<1>5. /\ Stored(m) \in Records /\ base \in Stored(m).bases
      /\ Stored(m).read = Old(m).read \cup {m}
  BY <1>1, <1>3 DEF Stored, Record, Records
<1> QED BY <1>3, <1>4, <1>5

LEMMA JobKept ==
    ASSUME NEW t, NEW j, JobTyped(t, j), arriving' = arriving \/ j.m \notin arriving'
    PROVE  JobTyped(t, j)'
BY DEF JobTyped

LEMMA SetJobTyped ==
    ASSUME InboxTyped, NEW t \in Threads, NEW J, SetJob(t, J), UNCHANGED arriving,
           AtMostOne(J), \A j \in J : JobTyped(t, j)
    PROVE  /\ thread' = [u \in Threads |-> thread'[u]]
           /\ thread'[t] = J /\ \A u \in Threads \ {t} : thread'[u] = thread[u]
           /\ \A u \in Threads : AtMostOne(thread'[u]) /\ \A j \in thread'[u] : JobTyped(u, j)'
<1>1. /\ thread' = [u \in Threads |-> thread'[u]]
      /\ thread'[t] = J /\ \A u \in Threads \ {t} : thread'[u] = thread[u]
  BY DEF InboxTyped, SetJob
<1>2. \A u \in Threads : AtMostOne(thread'[u]) /\ \A j \in thread'[u] : JobTyped(u, j)
  BY <1>1 DEF InboxTyped
<1> QED BY <1>1, <1>2, JobKept

(* What a step of a task leaves of its job.                                *)
LEMMA ThreadTyped ==
    ASSUME Typed, NEW t \in Threads, ThreadStep(t)
    PROVE  /\ RequestsTyped' /\ InboxTyped'
           /\ \E j \in thread[t] :
                 /\ thread[t] = {j} /\ JobTyped(t, j)
                 /\ \A u \in Threads \ {t} : thread'[u] = thread[u]
                 /\ \/ /\ j.at = "look" /\ CanRead(j.m) /\ UNCHANGED <<row, keyUsed, emitted>>
                       /\ \E k : /\ thread'[t] = {k} /\ k.m = j.m /\ k.round = j.round
                                 /\ k.at = "delete" /\ k.new = {Stored(j.m)}
                    \/ /\ j.at = "look" /\ thread'[t] = {} /\ UNCHANGED <<row, keyUsed, emitted>>
                       /\ (HasSession(peer) \/ j.m \in pkmsgs) => ~CanRead(j.m)
                    \/ /\ j.at = "delete" /\ row'[peer] = {} /\ UNCHANGED <<keyUsed, emitted>>
                       /\ \E k : /\ thread'[t] = {k} /\ k.m = j.m /\ k.round = j.round
                                 /\ k.at = "insert" /\ k.new = j.new
                    \/ /\ j.at = "insert" /\ row[peer] = {} /\ row'[peer] = j.new
                       /\ emitted' = emitted \cup Deliverable(j)
                       /\ \A k \in thread'[t] : k.at = "look" /\ k.new = {} /\ k.m = j.m
                    \/ /\ j.at = "insert" /\ row[peer] # {} /\ thread'[t] = {}
                       /\ UNCHANGED <<row, keyUsed, emitted>>
<1>1. PICK j \in thread[t] : thread[t] = {j} /\ JobTyped(t, j)
  BY DEF ThreadStep, Decrypt, DecryptFails, NoSession, Delete, Insert, InsertFails,
         Typed, InboxTyped, AtMostOne
<1>2. j.m \in Messages \ arriving /\ RequestsTyped /\ peer \in Jids /\ closing' = closing
  BY <1>1, InboxAssumption DEF JobTyped, Typed, ThreadStep, Decrypt, DecryptFails, NoSession, Delete,
                               Insert, InsertFails, requests
<1>3. arriving' = arriving /\ runs' = runs
  BY DEF ThreadStep, Decrypt, DecryptFails, NoSession, Delete, Insert, InsertFails
<1>4. InboxTyped
  BY DEF Typed
<1>5. CASE Decrypt(t)
  <2>0. PICK k : k = [j EXCEPT !.at = "delete", !.new = {Stored(j.m)}]
    OBVIOUS
  <2>1. /\ j.at = "look" /\ CanRead(j.m) /\ SetJob(t, {k})
        /\ UNCHANGED <<row, requests, pending, spawned, keyUsed, emitted, plain>>
    BY <1>1, <1>5, <2>0 DEF Decrypt, ghosts
  <2>2. k.m = j.m /\ k.round = j.round /\ k.at = "delete" /\ k.new = {Stored(j.m)}
    BY <1>1, <2>0 DEF JobTyped
  <2>3. JobTyped(t, k)
    <3>1. Stored(j.m) \in Records /\ base \in Stored(j.m).bases
      BY <1>2, StoredTyped
    <3>2. {Stored(j.m)} \in SUBSET Records
      BY <3>1
    <3>3. k \in [m : Messages \ arriving, round : {"first", "route"},
                 at : {"look", "delete", "insert"}, new : SUBSET Records]
      BY <1>1, <2>0, <3>2 DEF JobTyped
    <3> QED BY <1>1, <2>2, <3>1, <3>3 DEF JobTyped, AtMostOne
  <2>4. /\ thread' = [u \in Threads |-> thread'[u]]
        /\ thread'[t] = {k} /\ \A u \in Threads \ {t} : thread'[u] = thread[u]
        /\ \A u \in Threads : AtMostOne(thread'[u]) /\ \A l \in thread'[u] : JobTyped(u, l)'
    <3>1. AtMostOne({k}) /\ SetJob(t, {k}) /\ \A l \in {k} : JobTyped(t, l)
      BY <2>1, <2>3 DEF AtMostOne
    <3> QED BY <1>3, <1>4, <3>1, SetJobTyped
  <2>5. InboxTyped'
    BY <1>3, <1>4, <2>1, <2>4 DEF InboxTyped
  <2>6. RequestsTyped'
    BY <1>2, <2>1 DEF RequestsTyped, requests
  <2> QED BY <1>1, <2>1, <2>2, <2>4, <2>5, <2>6
<1>6. CASE DecryptFails(t) \/ NoSession(t) \/ InsertFails(t)
  <2>1. /\ SetJob(t, {}) /\ UNCHANGED <<row, requests, keyUsed, emitted, plain>>
        /\ \/ j.at = "look" /\ ((HasSession(peer) \/ j.m \in pkmsgs) => ~CanRead(j.m))
           \/ j.at = "insert" /\ row[peer] # {}
        /\ pending' \in {pending, pending \cup {j.m}} /\ spawned' \subseteq Calls /\ spawned \subseteq spawned'
    <3>1. CASE DecryptFails(t)
      BY <1>1, <1>4, <3>1 DEF DecryptFails, ghosts, InboxTyped
    <3>2. CASE NoSession(t)
      BY <1>1, <1>4, <3>2 DEF NoSession, ghosts, InboxTyped
    <3>3. CASE InsertFails(t)
      BY <1>1, <1>4, <3>3 DEF InsertFails, ghosts, InboxTyped
    <3> QED BY <1>6, <3>1, <3>2, <3>3
  <2>2. /\ thread' = [u \in Threads |-> thread'[u]]
        /\ thread'[t] = {} /\ \A u \in Threads \ {t} : thread'[u] = thread[u]
        /\ \A u \in Threads : AtMostOne(thread'[u]) /\ \A l \in thread'[u] : JobTyped(u, l)'
    <3>1. AtMostOne({}) /\ SetJob(t, {}) /\ \A l \in {} : JobTyped(t, l)
      BY <2>1 DEF AtMostOne
    <3> QED BY <1>3, <1>4, <3>1, SetJobTyped
  <2>3. InboxTyped'
    <3>1. IsFiniteSet(pending')
      BY <1>4, <2>1, FS_AddElement DEF InboxTyped
    <3>2. pending' \subseteq Messages \ arriving
      BY <1>2, <1>4, <2>1 DEF InboxTyped
    <3> QED BY <1>3, <1>4, <2>1, <2>2, <3>1, <3>2 DEF InboxTyped
  <2>4. RequestsTyped'
    BY <1>2, <2>1 DEF RequestsTyped, requests
  <2> QED BY <1>1, <2>1, <2>2, <2>3, <2>4
<1>7. CASE Delete(t)
  <2> DEFINE k == [j EXCEPT !.at = "insert"]
  <2>1. /\ j.at = "delete" /\ SetJob(t, {k}) /\ row' = [row EXCEPT ![peer] = {}]
        /\ UNCHANGED <<requests, pending, spawned, keyUsed, emitted, plain>>
    BY <1>1, <1>7 DEF Delete, ghosts
  <2>2. k.m = j.m /\ k.round = j.round /\ k.at = "insert" /\ k.new = j.new
    BY <1>1 DEF JobTyped
  <2>3. JobTyped(t, k)
    BY <1>1, <2>1, <2>2 DEF JobTyped
  <2> HIDE DEF k
  <2>4. /\ thread' = [u \in Threads |-> thread'[u]]
        /\ thread'[t] = {k} /\ \A u \in Threads \ {t} : thread'[u] = thread[u]
        /\ \A u \in Threads : AtMostOne(thread'[u]) /\ \A l \in thread'[u] : JobTyped(u, l)'
    BY <1>3, <1>4, <2>1, <2>3, SetJobTyped DEF AtMostOne
  <2>5. InboxTyped'
    BY <1>3, <1>4, <2>1, <2>4 DEF InboxTyped
  <2>6. RequestsTyped' /\ row'[peer] = {}
    BY <1>2, <2>1 DEF RequestsTyped, requests, AtMostOne
  <2> QED BY <1>1, <2>1, <2>2, <2>4, <2>5, <2>6
<1>8. CASE Insert(t)
  <2>1. /\ j.at = "insert" /\ SetJob(t, Again(j)) /\ row[peer] = {}
        /\ row' = [row EXCEPT ![peer] = j.new] /\ keyUsed' = (keyUsed \/ j.m \in pkmsgs)
        /\ emitted' = emitted \cup Deliverable(j) /\ plain' = plain \cup {j.m}
        /\ UNCHANGED <<requests, pending, spawned>>
    BY <1>1, <1>8 DEF Insert
  <2>2. AtMostOne(Again(j)) /\ \A k \in Again(j) :
            k.at = "look" /\ k.new = {} /\ k.m = j.m /\ k.round = "route" /\ JobTyped(t, k)
    BY <1>2 DEF Again, Job, JobTyped, AtMostOne
  <2>3. /\ thread' = [u \in Threads |-> thread'[u]]
        /\ thread'[t] = Again(j) /\ \A u \in Threads \ {t} : thread'[u] = thread[u]
        /\ \A u \in Threads : AtMostOne(thread'[u]) /\ \A l \in thread'[u] : JobTyped(u, l)'
    BY <1>3, <1>4, <2>1, <2>2, SetJobTyped
  <2>4. InboxTyped'
    BY <1>3, <1>4, <2>1, <2>3 DEF InboxTyped, Deliverable
  <2>5. RequestsTyped' /\ row'[peer] = j.new
    BY <1>1, <1>2, <2>1 DEF RequestsTyped, requests, JobTyped
  <2> QED BY <1>1, <2>1, <2>2, <2>3, <2>4, <2>5
<1> QED BY <1>5, <1>6, <1>7, <1>8 DEF ThreadStep
-----------------------------------------------------------------------------
LEMMA JobOf ==
    ASSUME NEW m \in Messages \ arriving', NEW round \in {"first", "route"}, NEW t,
           round = "first" => t \notin Workers
    PROVE  JobTyped(t, Job(m, round))'
BY DEF Job, JobTyped, AtMostOne

LEMMA DeliverTyped ==
    ASSUME Typed, NEW w \in Workers, NEW m \in arriving, Deliver(w, m)
    PROVE  /\ Typed'
           /\ thread'[w] = {Job(m, "route")} /\ \A u \in Threads \ {w} : thread'[u] = thread[u]
<1>1. /\ Idle(w) /\ arriving' = arriving \ {m} /\ SetJob(w, {Job(m, "route")})
      /\ UNCHANGED <<row, requests, pending, spawned, runs, keyUsed, emitted, plain>>
      /\ w \in Threads /\ m \in Messages /\ InboxTyped
  BY DEF Deliver, Threads, Typed, InboxTyped
<1>2. JobTyped(w, Job(m, "route"))'
  BY <1>1, JobOf
<1>3. /\ thread' = [u \in Threads |-> thread'[u]]
      /\ thread'[w] = {Job(m, "route")} /\ \A u \in Threads \ {w} : thread'[u] = thread[u]
  BY <1>1 DEF SetJob, InboxTyped
<1>4. ASSUME NEW u \in Threads \ {w}, NEW j \in thread[u] PROVE JobTyped(u, j)'
  <2>1. JobTyped(u, j) /\ j.m \notin arriving
    BY <1>1, <1>4 DEF InboxTyped, JobTyped
  <2> QED BY <1>1, <2>1, JobKept
<1>5. \A u \in Threads : AtMostOne(thread'[u]) /\ \A j \in thread'[u] : JobTyped(u, j)'
  BY <1>1, <1>2, <1>3, <1>4 DEF InboxTyped, AtMostOne
<1>6. InboxTyped'
  BY <1>1, <1>3, <1>5 DEF InboxTyped
<1>7. RequestsTyped'
  BY <1>1 DEF Typed, RequestsTyped, requests
<1> QED BY <1>3, <1>6, <1>7 DEF Typed

LEMMA RunTyped ==
    ASSUME Typed, NEW c \in Calls, RunPending(c)
    PROVE  /\ Typed'
           /\ \A t \in Threads : IF t \in {c} \X pending THEN thread'[t] = {Job(t[2], "first")}
                                 ELSE thread'[t] = thread[t]
<1>1. /\ UNCHANGED <<row, requests, arriving, pending, spawned, keyUsed, emitted, plain>>
      /\ runs' = runs \cup {c} /\ c \in spawned /\ InboxTyped
  BY DEF RunPending, Typed
<1>2. /\ thread' = [t \in Threads |-> thread'[t]]
      /\ \A t \in Threads : IF t \in {c} \X pending THEN thread'[t] = {Job(t[2], "first")}
                            ELSE thread'[t] = thread[t]
  BY DEF RunPending
<1>3. ASSUME NEW t \in Threads, t \in {c} \X pending PROVE JobTyped(t, Job(t[2], "first"))'
  <2>1. t \notin Workers /\ t[2] \in Messages \ arriving'
    BY <1>1, <1>3, InboxAssumption DEF InboxTyped
  <2> QED BY <2>1, JobOf
<1>4. ASSUME NEW t \in Threads, NEW j \in thread[t] PROVE JobTyped(t, j)'
  BY <1>1, <1>4, JobKept DEF InboxTyped
<1>5. ASSUME NEW t \in Threads
      PROVE  AtMostOne(thread'[t]) /\ \A j \in thread'[t] : JobTyped(t, j)'
  <2>1. CASE t \in {c} \X pending
    <3>1. thread'[t] = {Job(t[2], "first")}
      BY <1>2, <2>1
    <3> QED BY <1>3, <2>1, <3>1 DEF AtMostOne
  <2>2. CASE t \notin {c} \X pending
    <3>1. thread'[t] = thread[t]
      BY <1>2, <2>2
    <3> QED BY <1>1, <1>4, <3>1 DEF InboxTyped
  <2> QED BY <2>1, <2>2
<1>6. InboxTyped'
  BY <1>1, <1>2, <1>5 DEF InboxTyped
<1>7. RequestsTyped'
  BY <1>1 DEF Typed, RequestsTyped, requests
<1> QED BY <1>2, <1>6, <1>7 DEF Typed

(* The steps that start or resume no task of the inbox.                    *)
LEMMA RestTyped ==
    ASSUME Typed, \/ \E c \in Calls : RunEnds(c) \/ KeysStep(c)
                  \/ DisconnectBegins \/ DisconnectClears \/ UNCHANGED vars
    PROVE  Typed'
<1> USE DEF Typed
<1>1. arriving' = arriving /\ \A t, j : JobTyped(t, j) => JobTyped(t, j)'
  <2>1. arriving' = arriving
    BY KeysKeepRest DEF RunEnds, DisconnectBegins, DisconnectClears, vars, inbox
  <2> QED BY <2>1 DEF JobTyped
<1>2. ASSUME NEW c \in Calls, RunEnds(c) PROVE Typed'
  <2>1. InboxTyped'
    BY <1>1, <1>2, FS_EmptySet DEF RunEnds, InboxTyped, ghosts
  <2>2. RequestsTyped'
    BY <1>2 DEF RunEnds, RequestsTyped, requests
  <2> QED BY <2>1, <2>2
<1>3. ASSUME NEW c \in Calls, KeysStep(c) PROVE Typed'
  <2>1. InboxTyped'
    BY <1>1, <1>3, KeysKeepRest DEF inbox, InboxTyped
  <2> QED BY <1>3, <2>1, CallTyped, KeysKeepRest
<1>4. CASE DisconnectBegins
  <2>1. InboxTyped'
    BY <1>1, <1>4 DEF DisconnectBegins, inbox, ghosts, InboxTyped
  <2>2. RequestsTyped'
    BY <1>4 DEF DisconnectBegins, DisconnectCancels, RequestsTyped
  <2> QED BY <2>1, <2>2
<1>5. CASE DisconnectClears
  <2>1. /\ thread' = [t \in Threads |-> thread'[t]]
        /\ \A t \in Threads : thread'[t] \in {{}, thread[t]}
    BY <1>5 DEF DisconnectClears
  <2>2. InboxTyped'
    BY <1>1, <1>5, <2>1 DEF DisconnectClears, ghosts, InboxTyped, AtMostOne
  <2>3. RequestsTyped'
    BY <1>5 DEF DisconnectClears, RequestsTyped, AtMostOne
  <2> QED BY <2>2, <2>3
<1>6. CASE UNCHANGED vars
  <2>1. RequestsTyped'
    BY <1>6 DEF vars, requests, RequestsTyped
  <2>2. InboxTyped'
    BY <1>1, <1>6 DEF vars, inbox, ghosts, InboxTyped
  <2> QED BY <2>1, <2>2
<1> QED BY <1>2, <1>3, <1>4, <1>5, <1>6
-----------------------------------------------------------------------------
(* A message that had to be read can be read.                              *)
LEMMA DueIsReadable ==
    ASSUME Typed, RowHasSession, ~Inserting, NEW m \in Unread, keyUsed \/ m \in pkmsgs
    PROVE  (HasSession(peer) \/ m \in pkmsgs) /\ CanRead(m)
<1>1. m \in Messages
  BY DEF Unread
<1>2. m \notin Old(m).read
  <2>1. CASE row[peer] = {}
    BY <1>1, <2>1, StoredTyped DEF Typed
  <2>2. ASSUME NEW r \in row[peer] PROVE m \notin Old(m).read
    BY <1>1, <2>2, StoredTyped DEF Typed, Unread
  <2> QED BY <2>1, <2>2
<1>3. keyUsed => HasSession(peer) /\ base \in Old(m).bases
  BY <1>1, StoredTyped DEF Typed, RowHasSession, HasSession
<1> QED BY <1>2, <1>3 DEF CanRead, Builds

LEMMA ThreadAlone == ASSUME Typed, Alone, NEW t \in Threads, ThreadStep(t) PROVE Alone'
<1> SUFFICES ASSUME ~disturbed', closing' = "no"
             PROVE  /\ OneActive' /\ ArrivingIsUnread' /\ RowHasSession'
                    /\ \A m \in due' : m \in emitted' \/ Reading(m)'
  BY DEF Alone
<1>1. UNCHANGED <<arriving, pkmsgs, due, disturbed, closing>>
  BY DEF ThreadStep, Decrypt, DecryptFails, NoSession, Delete, Insert, InsertFails, requests, ghosts
<1>2. /\ OneActive /\ ArrivingIsUnread /\ RowHasSession
      /\ \A m \in due : m \in emitted \/ Reading(m)
  BY <1>1 DEF Alone
<1>3. PICK j \in thread[t] :
          /\ thread[t] = {j} /\ JobTyped(t, j)
          /\ \A u \in Threads \ {t} : thread'[u] = thread[u]
          /\ \/ /\ j.at = "look" /\ CanRead(j.m) /\ UNCHANGED <<row, keyUsed, emitted>>
                /\ \E k : /\ thread'[t] = {k} /\ k.m = j.m /\ k.round = j.round
                          /\ k.at = "delete" /\ k.new = {Stored(j.m)}
             \/ /\ j.at = "look" /\ thread'[t] = {} /\ UNCHANGED <<row, keyUsed, emitted>>
                /\ (HasSession(peer) \/ j.m \in pkmsgs) => ~CanRead(j.m)
             \/ /\ j.at = "delete" /\ row'[peer] = {} /\ UNCHANGED <<keyUsed, emitted>>
                /\ \E k : /\ thread'[t] = {k} /\ k.m = j.m /\ k.round = j.round
                          /\ k.at = "insert" /\ k.new = j.new
             \/ /\ j.at = "insert" /\ row[peer] = {} /\ row'[peer] = j.new
                /\ emitted' = emitted \cup Deliverable(j)
                /\ \A k \in thread'[t] : k.at = "look" /\ k.new = {} /\ k.m = j.m
             \/ /\ j.at = "insert" /\ row[peer] # {} /\ thread'[t] = {}
                /\ UNCHANGED <<row, keyUsed, emitted>>
  BY ThreadTyped
<1>4. \A u \in Threads \ {t} : thread[u] = {} /\ thread'[u] = {}
  BY <1>2, <1>3 DEF OneActive, Idle
<1>5. OneActive'
  BY <1>4 DEF OneActive, Idle
<1>6. /\ Inserting <=> j.at = "insert"
      /\ Inserting' <=> \E k \in thread'[t] : k.at = "insert"
      /\ ArrivingIsUnread <=> arriving \subseteq Unread /\ \A r \in j.new : r.read \cap arriving = {}
      /\ ArrivingIsUnread' <=> /\ arriving' \subseteq Unread'
                               /\ \A k \in thread'[t] : \A r \in k.new : r.read \cap arriving' = {}
  BY <1>3, <1>4 DEF Inserting, ArrivingIsUnread
<1>7. \A m : /\ Reading(m) <=> /\ j.m = m /\ j.round = "route"
                               /\ j.at = "look" => m \in Unread /\ (keyUsed \/ m \in pkmsgs)
             /\ Reading(m)' <=> \E k \in thread'[t] :
                                   /\ k.m = m /\ k.round = "route"
                                   /\ k.at = "look" => m \in Unread' /\ (keyUsed' \/ m \in pkmsgs')
  BY <1>3, <1>4 DEF Reading
<1>8. /\ j.m \in Messages \ arriving /\ arriving \subseteq Messages
      /\ (j.at = "look" <=> j.new = {}) /\ \A r \in j.new : base \in r.bases
  BY <1>3 DEF JobTyped, Typed, InboxTyped
<1>9. CASE j.at = "look" /\ UNCHANGED <<row, keyUsed, emitted>>
  <2>1. Unread' = Unread /\ ~Inserting
    BY <1>6, <1>9 DEF Unread
  <2>2. CASE thread'[t] = {} /\ ((HasSession(peer) \/ j.m \in pkmsgs) => ~CanRead(j.m))
    <3>1. ArrivingIsUnread' /\ RowHasSession'
      BY <1>1, <1>2, <1>6, <1>9, <2>1, <2>2 DEF RowHasSession
    <3>2. \A m \in due : m \in emitted
      BY <1>2, <1>7, <1>9, <2>1, <2>2, DueIsReadable
    <3> QED BY <1>1, <1>5, <1>9, <3>1, <3>2
  <2>3. ASSUME NEW k, thread'[t] = {k}, k.m = j.m, k.round = j.round, k.at = "delete",
               k.new = {Stored(j.m)}
        PROVE  /\ ArrivingIsUnread' /\ RowHasSession'
               /\ \A m \in due' : m \in emitted' \/ Reading(m)'
    <3>1. RowHasSession'
      BY <1>1, <1>2, <1>6, <1>9, <2>1, <2>3 DEF RowHasSession
    <3>2. Stored(j.m).read \cap arriving = {}
      <4>1. Stored(j.m).read = Old(j.m).read \cup {j.m} /\ j.m \notin arriving
        BY <1>8, StoredTyped DEF Typed
      <4>2. Old(j.m).read \cap arriving = {}
        <5>1. CASE row[peer] = {}
          BY <1>8, <5>1, StoredTyped DEF Typed
        <5>2. ASSUME NEW r \in row[peer] PROVE Old(j.m).read \cap arriving = {}
          BY <1>2, <1>8, <5>2, StoredTyped DEF Typed, ArrivingIsUnread, Unread
        <5> QED BY <5>1, <5>2
      <4> QED BY <4>1, <4>2
    <3>3. ArrivingIsUnread'
      BY <1>1, <1>2, <1>6, <2>1, <2>3, <3>2
    <3>4. \A m \in due' : m \in emitted' \/ Reading(m)'
      BY <1>1, <1>2, <1>7, <1>9, <2>3
    <3> QED BY <3>1, <3>3, <3>4
  <2> QED BY <1>3, <1>5, <1>9, <2>2, <2>3
<1>10. CASE j.at = "delete"
  <2>1. PICK k : thread'[t] = {k} /\ k.m = j.m /\ k.round = j.round /\ k.at = "insert" /\ k.new = j.new
    BY <1>3, <1>10
  <2>2. row'[peer] = {} /\ UNCHANGED <<keyUsed, emitted>>
    BY <1>3, <1>10
  <2>3. RowHasSession'
    BY <1>6, <2>1, <2>2 DEF RowHasSession
  <2>4. ArrivingIsUnread'
    <3>1. Unread' = Messages
      BY <2>2 DEF Unread
    <3> QED BY <1>1, <1>2, <1>6, <1>8, <2>1, <3>1
  <2>5. \A m \in due' : m \in emitted' \/ Reading(m)'
    BY <1>1, <1>2, <1>7, <1>10, <2>1, <2>2
  <2> QED BY <1>5, <2>3, <2>4, <2>5
<1>11. CASE j.at = "insert"
  <2>1. row[peer] = {}
    BY <1>2, <1>6, <1>11 DEF RowHasSession
  <2>2. /\ row'[peer] = j.new /\ emitted' = emitted \cup Deliverable(j)
        /\ \A k \in thread'[t] : k.at = "look" /\ k.new = {}
    BY <1>3, <1>11, <2>1
  <2>3. RowHasSession'
    BY <1>6, <1>8, <1>11, <2>2 DEF RowHasSession
  <2>4. ArrivingIsUnread'
    <3>1. \A m \in arriving : \A r \in row'[peer] : m \notin r.read
      BY <1>2, <1>6, <2>2
    <3>2. arriving' \subseteq Unread'
      BY <1>1, <1>8, <3>1 DEF Unread
    <3> QED BY <1>6, <2>2, <3>2
  <2>5. \A m \in due' : m \in emitted'
    BY <1>1, <1>2, <1>7, <2>2 DEF Deliverable
  <2> QED BY <1>5, <2>3, <2>4, <2>5
<1> QED BY <1>3, <1>9, <1>10, <1>11

LEMMA DeliverAlone ==
    ASSUME Typed, Alone, NEW w \in Workers, NEW m \in arriving, Deliver(w, m)
    PROVE  Alone'
<1> SUFFICES ASSUME ~disturbed', closing' = "no"
             PROVE  /\ OneActive' /\ ArrivingIsUnread' /\ RowHasSession'
                    /\ \A d \in due' : d \in emitted' \/ Reading(d)'
  BY DEF Alone
<1>1. /\ ~disturbed /\ Active = {} /\ UNCHANGED <<row, closing, keyUsed, pkmsgs, emitted>>
      /\ arriving' = arriving \ {m}
      /\ due' = IF keyUsed \/ m \in pkmsgs THEN due \cup {m} ELSE due
  BY DEF Deliver, requests
<1>2. \A t \in Threads : thread[t] = {}
  BY <1>1 DEF Active, Idle
<1>3. /\ ArrivingIsUnread /\ RowHasSession /\ ~Inserting /\ \A d \in due : d \in emitted
  BY <1>1, <1>2 DEF Alone, Reading, Inserting
<1>4. w \in Threads /\ thread'[w] = {Job(m, "route")} /\ \A u \in Threads \ {w} : thread'[u] = {}
  BY <1>2, DeliverTyped DEF Threads
<1>5. Job(m, "route").m = m /\ Job(m, "route").round = "route"
      /\ Job(m, "route").at = "look" /\ Job(m, "route").new = {}
  BY DEF Job
<1>6. OneActive' /\ ~Inserting'
  BY <1>4, <1>5 DEF OneActive, Idle, Inserting
<1>7. RowHasSession'
  BY <1>1, <1>3, <1>6 DEF RowHasSession
<1>8. Unread' = Unread
  BY <1>1 DEF Unread
<1>9. ArrivingIsUnread'
  BY <1>1, <1>3, <1>4, <1>5, <1>8 DEF ArrivingIsUnread
<1>10. m \in due' => Reading(m)' \/ m \in emitted'
  BY <1>1, <1>3, <1>4, <1>5, <1>8 DEF Reading, ArrivingIsUnread
<1> QED BY <1>1, <1>3, <1>6, <1>7, <1>9, <1>10

LEMMA RunAlone == ASSUME Typed, Alone, NEW c \in Calls, RunPending(c) PROVE Alone'
<1> SUFFICES ASSUME ~disturbed', closing' = "no"
             PROVE  /\ OneActive' /\ ArrivingIsUnread' /\ RowHasSession'
                    /\ \A d \in due' : d \in emitted' \/ Reading(d)'
  BY DEF Alone
<1>1. /\ ~disturbed /\ Active = {} /\ ~(Cardinality(pending) > 1) /\ pending # {}
      /\ UNCHANGED <<row, closing, keyUsed, pkmsgs, emitted, arriving, due>>
  BY DEF RunPending, requests
<1>2. \A t \in Threads : thread[t] = {}
  BY <1>1 DEF Active, Idle
<1>3. ArrivingIsUnread /\ RowHasSession /\ ~Inserting /\ \A d \in due : d \in emitted
  BY <1>1, <1>2 DEF Alone, Reading, Inserting
<1>4. \A t \in Threads : \A j \in thread'[t] : t \in {c} \X pending /\ j = Job(t[2], "first")
  BY <1>2, RunTyped
<1>5. \A m : Job(m, "first").at = "look" /\ Job(m, "first").new = {}
  BY DEF Job
<1>6. \A m, n \in pending : m = n
  <2>1. IsFiniteSet(pending) /\ Cardinality(pending) \in Nat
    BY FS_CardinalityType DEF Typed, InboxTyped
  <2>2. Cardinality(pending) = 1
    BY <1>1, <2>1, FS_EmptySet
  <2> QED BY <2>1, <2>2, FS_Singleton
<1>7. OneActive'
  BY <1>4, <1>6 DEF OneActive, Idle
<1>8. ~Inserting'
  BY <1>4, <1>5 DEF Inserting
<1>9. RowHasSession'
  BY <1>1, <1>3, <1>8 DEF RowHasSession
<1>10. Unread' = Unread
  BY <1>1 DEF Unread
<1>11. ArrivingIsUnread'
  BY <1>1, <1>3, <1>4, <1>5, <1>10 DEF ArrivingIsUnread
<1> QED BY <1>1, <1>3, <1>7, <1>9, <1>11

(* A callback may create a session while no task uses the row.             *)
LEMMA KeysAlone == ASSUME Typed, Alone, NEW c \in Calls, KeysStep(c) PROVE Alone'
<1> SUFFICES ASSUME ~disturbed', closing' = "no"
             PROVE  /\ OneActive' /\ ArrivingIsUnread' /\ RowHasSession'
                    /\ \A d \in due' : d \in emitted' \/ Reading(d)'
  BY DEF Alone
<1>1. /\ UNCHANGED <<thread, arriving, keyUsed, pkmsgs, due, emitted>>
      /\ ~disturbed /\ (row' = row \/ Active = {}) /\ (row' = row \/ \E j \in Jids : Create(c, j))
  BY KeysKeepRest DEF inbox
<1>2. closing = "no"
  BY KeysKeepRest DEF CallStep, Requests, Continues, Start, Request, RequestFails, Resume, Timeout,
      Cancelled, CallerCancels, Expire, AnswerStep, Answer, AnswerRefused, AnswerIgnored,
      CallbackStep, Contact, Create, CreateFails, CallbackEnds
<1>3. /\ OneActive /\ ArrivingIsUnread /\ RowHasSession
      /\ \A d \in due : d \in emitted \/ Reading(d)
  BY <1>1, <1>2 DEF Alone
<1>4. OneActive'
  BY <1>1, <1>3 DEF OneActive, Idle
<1>5. CASE row' = row
  BY <1>1, <1>3, <1>4, <1>5 DEF ArrivingIsUnread, RowHasSession, Inserting, Unread, Reading
<1>6. ASSUME Active = {}, NEW j \in Jids, Create(c, j)
      PROVE  ArrivingIsUnread' /\ RowHasSession' /\ \A d \in due' : d \in emitted'
  <2>1. \A t \in Threads : thread[t] = {} /\ thread'[t] = {}
    BY <1>1, <1>6 DEF Active, Idle
  <2>2. ~Inserting /\ ~Inserting'
    BY <2>1 DEF Inserting
  <2>3. /\ row'[peer] = row[peer] \/ row'[peer] = Created(peer, c)
        /\ peer \in Jids /\ RequestsTyped
    BY <1>6, InboxAssumption DEF Create, Typed, RequestsTyped
  <2>4. /\ \A b : (\E r \in row[peer] : b \in r.bases) => \E r \in row'[peer] : b \in r.bases
        /\ \A m : (\A r \in row[peer] : m \notin r.read) => \A r \in row'[peer] : m \notin r.read
    BY <2>3, CreatedKeeps
  <2>5. RowHasSession'
    BY <1>1, <1>3, <2>2, <2>4 DEF RowHasSession
  <2>6. ArrivingIsUnread'
    BY <1>1, <1>3, <2>1, <2>4 DEF ArrivingIsUnread, Unread
  <2>7. \A d \in due' : d \in emitted'
    BY <1>1, <1>3, <2>1 DEF Reading
  <2> QED BY <2>5, <2>6, <2>7
<1> QED BY <1>1, <1>4, <1>5, <1>6
-----------------------------------------------------------------------------
LEMMA InitIInv == Init => IInv
<1> SUFFICES ASSUME Init PROVE IInv
  OBVIOUS
<1> USE DEF Init, RequestsInit
<1>1. row \in [Jids -> SUBSET Records] /\ \A j \in Jids : AtMostOne(row[j])
  <2>1. Record({base}, {}) \in Records
    BY InboxAssumption DEF Record, Records
  <2> QED BY <2>1 DEF AtMostOne
<1>2. RequestsTyped
  BY <1>1 DEF RequestsTyped, AtMostOne
<1>3. InboxTyped
  BY FS_EmptySet DEF InboxTyped, AtMostOne
<1>4. Entered
  BY DEF Entered
<1>5. \A r \in row[peer] : r.read = {} /\ base \in r.bases
  BY InboxAssumption DEF Record
<1>6. keyUsed => \E r \in row[peer] : base \in r.bases
  BY InboxAssumption, <1>5
<1>7. ~Inserting
  BY DEF Inserting
<1>8. RowHasSession
  BY <1>6, <1>7 DEF RowHasSession
<1>9. ArrivingIsUnread
  BY <1>5 DEF ArrivingIsUnread, Unread
<1>10. OneActive
  BY DEF OneActive, Idle
<1> QED BY <1>2, <1>3, <1>4, <1>8, <1>9, <1>10 DEF IInv, Typed, Alone

LEMMA ThreadKeeps == ASSUME IInv, NEW t \in Threads, ThreadStep(t) PROVE IInv'
<1>1. Entered'
  <2>1. UNCHANGED <<requests, replaced>>
    BY DEF ThreadStep, Decrypt, DecryptFails, NoSession, Delete, Insert, InsertFails, ghosts
  <2> QED BY <2>1 DEF IInv, Entered, requests
<1> QED BY <1>1, ThreadTyped, ThreadAlone DEF IInv, Typed

LEMMA MessagesKeep ==
    ASSUME IInv, \/ \E w \in Workers, m \in arriving : Deliver(w, m)
                 \/ \E c \in Calls : RunPending(c)
    PROVE  IInv'
<1>1. Entered'
  <2>1. UNCHANGED <<requests, replaced>>
    BY DEF Deliver, RunPending
  <2> QED BY <2>1 DEF IInv, Entered, requests
<1> QED BY <1>1, DeliverTyped, DeliverAlone, RunTyped, RunAlone DEF IInv

LEMMA KeysKeep == ASSUME IInv, NEW c \in Calls, KeysStep(c) PROVE IInv'
<1>1. Entered'
  BY KeysKeepRest, EnteredKept DEF IInv, Typed
<1> QED BY <1>1, RestTyped, KeysAlone DEF IInv

(* disconnect() cancels the futures of the entries it clears.              *)
LEMMA OthersKeep ==
    ASSUME IInv, \/ \E c \in Calls : RunEnds(c)
                 \/ DisconnectBegins \/ DisconnectClears \/ UNCHANGED vars
    PROVE  IInv'
<1> USE DEF IInv
<1>1. Typed'
  BY RestTyped
<1>2. CASE DisconnectBegins \/ DisconnectClears
  <2>1. closing' # "no"
    BY <1>2 DEF DisconnectBegins, DisconnectCancels, DisconnectClears
  <2>2. Alone'
    BY <2>1 DEF Alone
  <2>3. CASE DisconnectClears
    <3>1. UNCHANGED <<pc, future, entries, replaced>>
      BY <2>3 DEF DisconnectClears, ghosts
    <3> QED BY <1>1, <2>2, <3>1 DEF Entered
  <2>4. ASSUME DisconnectBegins PROVE Entered'
    <3>1. /\ UNCHANGED <<pc, replaced>>
          /\ future' = [c \in Calls |-> IF c \in Owners /\ future[c] = "pending"
                                        THEN "cancelled" ELSE future[c]]
      BY <2>4 DEF DisconnectBegins, DisconnectCancels, ghosts
    <3>2. \A c \in Calls : future'[c] = "pending" => future[c] = "pending" /\ c \notin Owners
      BY <3>1
    <3> QED BY <3>1, <3>2 DEF Entered, Owners
  <2> QED BY <1>1, <1>2, <2>2, <2>3, <2>4
<1>3. CASE (\E c \in Calls : RunEnds(c)) \/ UNCHANGED vars
  <2>1. UNCHANGED <<row, requests, pkmsgs, arriving, thread, keyUsed, ghosts>>
    BY <1>3 DEF RunEnds, vars, inbox
  <2>2. Entered'
    BY <2>1 DEF Entered, requests, ghosts
  <2>3. Alone'
    BY <2>1 DEF Alone, OneActive, Idle, ArrivingIsUnread, RowHasSession, Inserting, Unread, Reading,
                requests, ghosts
  <2> QED BY <1>1, <2>2, <2>3
<1> QED BY <1>2, <1>3

(* The invariant behind the theorems below.                                *)
THEOREM Invariance == Spec => []IInv
<1>1. IInv /\ [Next]_vars => IInv'
  BY ThreadKeeps, MessagesKeep, KeysKeep, OthersKeep DEF Next, KeysStep
<1> QED BY InitIInv, <1>1, PTL DEF Spec

(* TypeOK: among others, the row of each contact holds one record, and a   *)
(* call that waits has asked for someone's keys.                           *)
THEOREM TypeCorrect == Spec => []TypeOK
<1>1. ASSUME IInv PROVE TypeOK
  <2> USE <1>1 DEF IInv, Typed
  <2>1. ASSUME NEW S, AtMostOne(S) PROVE Cardinality(S) <= 1
    <3>1. CASE S = {}
      BY <3>1, FS_EmptySet
    <3>2. ASSUME NEW x, S = {x} PROVE Cardinality(S) <= 1
      <4>1. Cardinality({x}) = 1
        BY FS_Singleton
      <4> QED BY <3>2, <4>1
    <3> QED BY <2>1, <3>1, <3>2 DEF AtMostOne
  <2>2. RequestsTypeOK
    BY <2>1 DEF RequestsTyped, Records, RequestsTypeOK
  <2>3. \A t \in Threads : /\ Cardinality(thread[t]) <= 1
                          /\ \A j \in thread[t] : /\ j.round = "first" => t \notin Workers
                                                  /\ j.at = "look" <=> j.new = {}
    BY <2>1 DEF InboxTyped, JobTyped
  <2> QED BY <2>2, <2>3 DEF InboxTyped, TypeOK
<1> QED BY Invariance, <1>1, PTL

(* AloneIsEmitted: requests for keys, the sessions their callbacks create, *)
(* their timeouts and cancellations leave a row with which decrypt_message *)
(* reads every message of the contact's session, as long as one task at a  *)
(* time works on the row.                                                  *)
THEOREM AloneIsEmittedAlways == Spec => []AloneIsEmitted
<1>1. ASSUME IInv PROVE AloneIsEmitted
  BY <1>1 DEF IInv, Alone, AloneIsEmitted, Quiet, Active, Idle, Reading
<1> QED BY Invariance, <1>1, PTL

(* Freed: after disconnect() no call is left waiting on a future that is   *)
(* in no entry of _pending_keys_requests, but those another has replaced.  *)
THEOREM FreedAlways == Spec => []Freed
<1>1. ASSUME IInv PROVE Freed
  BY <1>1 DEF IInv, Entered, Freed
<1> QED BY Invariance, <1>1, PTL
===============================================================================
