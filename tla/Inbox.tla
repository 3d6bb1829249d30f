-------------------------------- MODULE Inbox --------------------------------
(***************************************************************************)
(* Receiving encrypted messages of one contact: MessageProcessor on the    *)
(* workers of the message loop, decrypt_message of core/encryption/        *)
(* receiver.py, the messages it keeps pending when there is no session,    *)
(* the request for keys it starts for them, and _process_pending_messages  *)
(* of core/client.py, which runs when the request has succeeded.           *)
(*                                                                         *)
(* All of them work on the session row of the contact.  store_session      *)
(* deletes it, commits, and inserts it again (see SessionTasks): between   *)
(* the two the others find no session.  Here a decryption loads the row    *)
(* in the step that asks whether there is one, and removes the one-time    *)
(* pre-key in the step that inserts.                                       *)
(***************************************************************************)
EXTENDS KeyRequests

CONSTANTS
    Workers,    \* workers of the message loop
    peer,       \* the contact
    base        \* the session it uses

ASSUME InboxAssumption ==
    peer \in Jids /\ base \in Bases /\ Workers \cap (Calls \X Messages) = {}

VARIABLES
    pkmsgs,     \* messages the contact has sent as pkmsg, at most one here
    arriving,   \* messages the server has not delivered
    thread,     \* what each task decrypts, as a set of 0 or 1
    pending,    \* _pending_messages of the conversation
    spawned,    \* calls for keys that decrypt_message has started
    runs,       \* those whose task is in _process_pending_messages
    keyUsed,    \* the one-time pre-key of the session is removed
    emitted,    \* messages given to the application
    plain,      \* messages that have been decrypted
    due,        \* messages there was a session or a pre-key for on arrival
    disturbed,  \* two of those who use the row have met
    replaced    \* calls whose entry a later request has taken over

inbox == <<pkmsgs, arriving, thread, pending, spawned, runs, keyUsed>>
ghosts == <<emitted, plain, due, disturbed, replaced>>
vars == <<row, requests, inbox, ghosts>>

(* Workers route stanzas; a run of _process_pending_messages has a task    *)
(* for each pending message, which decrypts it first and routes it then.   *)
Threads == Workers \cup (Calls \X Messages)
Job(m, round) == [m |-> m, round |-> round, at |-> "look", new |-> {}]
Idle(t) == thread[t] = {}
SetJob(t, J) == thread' = [thread EXCEPT ![t] = J]

TypeOK ==
    /\ RequestsTypeOK
    /\ \A t \in Threads : Cardinality(thread[t]) <= 1
    /\ \A t \in Threads : \A j \in thread[t] :
          /\ j.round = "first" => t \notin Workers
          /\ j.at = "look" <=> j.new = {}
    /\ pending \subseteq Messages \ arriving /\ runs \subseteq spawned
    /\ emitted \subseteq plain

Init ==
    /\ RequestsInit
    /\ keyUsed \in BOOLEAN
    /\ pkmsgs \in SUBSET Messages /\ Cardinality(pkmsgs) <= 1
    /\ row = [j \in Jids |-> IF j = peer /\ keyUsed THEN {Record({base}, {})} ELSE {}]
    /\ arriving = Messages
    /\ thread = [t \in Threads |-> {}]
    /\ pending = {} /\ spawned = {} /\ runs = {}
    /\ emitted = {} /\ plain = {} /\ due = {}
    /\ disturbed = FALSE /\ replaced = {}
-----------------------------------------------------------------------------
(* MessageProcessor.process: the receipt is sent before anything is read. *)
Active == {t \in Threads : ~Idle(t)}

Deliver(w, m) ==
    /\ Idle(w) /\ m \in arriving /\ closing # "closed"
    /\ arriving' = arriving \ {m}
    /\ SetJob(w, {Job(m, "route")})
    /\ due' = IF keyUsed \/ m \in pkmsgs THEN due \cup {m} ELSE due
    /\ disturbed' = (disturbed \/ Active # {})
    /\ UNCHANGED <<row, requests, pkmsgs, pending, spawned, runs, keyUsed, emitted, plain, replaced>>

(* decrypt_message, up to the record it is going to store.  A pkmsg of a   *)
(* session the record does not hold needs the one-time pre-key.            *)
Old(m) == IF row[peer] = {} THEN Record({}, {}) ELSE CHOOSE r \in row[peer] : TRUE
Builds(m) == m \in pkmsgs /\ base \notin Old(m).bases
CanRead(m) ==
    /\ m \notin Old(m).read
    /\ IF Builds(m) THEN ~keyUsed ELSE base \in Old(m).bases
Stored(m) == Record(Old(m).bases \cup {base}, Old(m).read \cup {m})

Decrypt(t) ==
    /\ \E j \in thread[t] :
          /\ j.at = "look" /\ (HasSession(peer) \/ j.m \in pkmsgs) /\ CanRead(j.m)
          /\ SetJob(t, {[j EXCEPT !.at = "delete", !.new = {Stored(j.m)}]})
    /\ UNCHANGED <<row, requests, pkmsgs, arriving, pending, spawned, runs, keyUsed, ghosts>>

(* A duplicate, an unknown key id or an invalid message is given up. *)
DecryptFails(t) ==
    /\ \E j \in thread[t] :
          j.at = "look" /\ (HasSession(peer) \/ j.m \in pkmsgs) /\ ~CanRead(j.m)
    /\ SetJob(t, {})
    /\ UNCHANGED <<row, requests, pkmsgs, arriving, pending, spawned, runs, keyUsed, ghosts>>

(* Without a session the message is kept and a task asks for keys.  Calls  *)
(* bounds the tasks.                                                       *)
NoSession(t) ==
    /\ \E j \in thread[t] :
          /\ j.at = "look" /\ ~HasSession(peer) /\ j.m \notin pkmsgs
          /\ pending' = pending \cup {j.m}
    /\ \E c \in Calls \ spawned : pc[c] = "idle" /\ spawned' = spawned \cup {c}
    /\ SetJob(t, {})
    /\ UNCHANGED <<row, requests, pkmsgs, arriving, runs, keyUsed, ghosts>>
-----------------------------------------------------------------------------
(* store_session *)
Delete(t) ==
    /\ \E j \in thread[t] :
          j.at = "delete" /\ SetJob(t, {[j EXCEPT !.at = "insert"]})
    /\ row' = [row EXCEPT ![peer] = {}]
    /\ UNCHANGED <<requests, pkmsgs, arriving, pending, spawned, runs, keyUsed, ghosts>>

(* The plaintext is returned: process() emits it, a run of                 *)
(* _process_pending_messages routes the stanza once more.                  *)
Deliverable(j) == IF j.round = "route" THEN {j.m} ELSE {}
Again(j) == IF j.round = "first" THEN {Job(j.m, "route")} ELSE {}

Insert(t) ==
    /\ row[peer] = {}
    /\ \E j \in thread[t] :
          /\ j.at = "insert"
          /\ row' = [row EXCEPT ![peer] = j.new]
          /\ keyUsed' = (keyUsed \/ j.m \in pkmsgs)
          /\ plain' = plain \cup {j.m}
          /\ emitted' = emitted \cup Deliverable(j)
          /\ SetJob(t, Again(j))
    /\ UNCHANGED <<requests, pkmsgs, arriving, pending, spawned, runs, due, disturbed, replaced>>

(* Another task has inserted the row: the unique index refuses this one.   *)
InsertFails(t) ==
    /\ row[peer] # {}
    /\ \E j \in thread[t] : j.at = "insert"
    /\ SetJob(t, {})
    /\ UNCHANGED <<row, requests, pkmsgs, arriving, pending, spawned, runs, keyUsed, ghosts>>
-----------------------------------------------------------------------------
(* The task that decrypt_message started: with a contact in the result it  *)
(* goes through the messages that are pending now.                         *)
StartSpawned(c) ==
    /\ c \in spawned /\ Start(c, {peer})
    /\ UNCHANGED <<inbox, ghosts>>

RunPending(c) ==
    /\ c \in spawned \ runs /\ pc[c] = "done"
    /\ result[c].ok # {} /\ pending # {}
    /\ runs' = runs \cup {c}
    /\ thread' = [t \in Threads |->
                    IF t \in {c} \X pending THEN {Job(t[2], "first")} ELSE thread[t]]
    /\ disturbed' = (disturbed \/ Active # {} \/ Cardinality(pending) > 1)
    /\ UNCHANGED <<row, requests, pkmsgs, arriving, pending, spawned, keyUsed,
                   emitted, plain, due, replaced>>

Tasks(c) == {c} \X Messages

RunEnds(c) ==
    /\ c \in runs /\ \A t \in Tasks(c) : Idle(t)
    /\ pending' = {}
    /\ runs' = runs \ {c} /\ spawned' = spawned \ {c}
    /\ UNCHANGED <<row, requests, pkmsgs, arriving, thread, keyUsed, ghosts>>
-----------------------------------------------------------------------------
(* The application asks for keys of any contacts, as every send does. *)
Asks(c, J) ==
    /\ c \notin spawned /\ Start(c, J)
    /\ UNCHANGED <<inbox, ghosts>>

RequestEntered(c) ==
    /\ Request(c) \/ RequestFails(c)
    /\ replaced' = replaced \cup {entries[k] : k \in DOMAIN entries \cap {asked[c]}}
    /\ UNCHANGED <<inbox, emitted, plain, due, disturbed>>

Returns(c) ==
    /\ Resume(c) \/ Timeout(c) \/ Cancelled(c)
    /\ UNCHANGED <<inbox, ghosts>>

OfRequest(c) ==
    /\ CallerCancels(c) \/ Expire(c) \/ AnswerStep(c)
    /\ UNCHANGED <<inbox, ghosts>>

OfCallback(c) ==
    /\ CallbackStep(c)
    /\ disturbed' = (disturbed \/ (row' # row /\ Active # {}))
    /\ UNCHANGED <<inbox, emitted, plain, due, replaced>>

DisconnectBegins == DisconnectCancels /\ UNCHANGED <<inbox, ghosts>>

(* The message loop is cancelled with its workers and the callbacks they   *)
(* run, the callbacks registered are cleared.  Other tasks go on.          *)
DisconnectClears ==
    /\ closing = "cancelling" /\ closing' = "closed"
    /\ callbacks' = {} /\ net' = {} /\ running' = [c \in Calls |-> {}]
    /\ thread' = [t \in Threads |-> IF t \in Workers THEN {} ELSE thread[t]]
    /\ UNCHANGED <<row, pc, had, asked, future, result, entries, pkmsgs, arriving, pending,
                   spawned, runs, keyUsed, ghosts>>

ThreadStep(t) ==
    Decrypt(t) \/ DecryptFails(t) \/ NoSession(t) \/ Delete(t) \/ Insert(t) \/ InsertFails(t)

Next ==
    \/ \E w \in Workers, m \in arriving : Deliver(w, m)
    \/ \E t \in Threads : ThreadStep(t)
    \/ \E c \in Calls :
          \/ StartSpawned(c) \/ RunPending(c) \/ RunEnds(c)
          \/ \E J \in SUBSET Jids \ {{}} : Asks(c, J)
          \/ RequestEntered(c) \/ Returns(c) \/ OfRequest(c) \/ OfCallback(c)
    \/ DisconnectBegins \/ DisconnectClears

Spec == Init /\ [][Next]_vars
-----------------------------------------------------------------------------
Quiet == Active = {} /\ runs = {} /\ closing = "no"

(* As long as no two of those who use the session row have met, every      *)
(* message of the contact's session reaches the application: requests for  *)
(* keys, the sessions they create, timeouts and cancellations leave a row  *)
(* the contact's messages can be read with.                                *)
AloneIsEmitted == Quiet /\ ~disturbed => due \subseteq emitted

(* disconnect() cancels every future a call waits on ("Cancela futures     *)
(* pendentes (evita deadlocks)"), but for the calls whose entry another    *)
(* has taken over and those that were entered after it.                    *)
Freed ==
    closing # "no" =>
        \A c \in Calls \ replaced :
            pc[c] = "wait" /\ future[c] = "pending" => \E k \in DOMAIN entries : entries[k] = c

-----------------------------------------------------------------------------
(* What a comment of the code says and TLC refutes; the README tells how.  *)

(* A message that has been decrypted is given to the application           *)
(* (_process_pending_messages: "Processa mensagens pendentes após obter    *)
(* sessão", and each is routed to be processed).                           *)
PlainIsEmitted == Quiet => plain \subseteq emitted
=============================================================================
