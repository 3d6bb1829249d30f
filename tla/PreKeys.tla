------------------------------ MODULE PreKeys ------------------------------
(***************************************************************************)
(* One-time pre-keys, from generation to use: AxolotlManager (db/manager), *)
(* the prekeys table (db/models/prekey), the upload by WhatsAppClient      *)
(* (_check_and_flush_prekeys and the IQ callback) and their consumption by *)
(* the first messages of a session (axolotl/sessionbuilder, sessioncipher).*)
(*                                                                         *)
(* A key is a pair <<id, batch>>: the id that travels in messages and the  *)
(* batch its key material was generated in.  Ids are reused, material is   *)
(* not.  The rows of the account are durable; the connection, the calls of *)
(* _check_and_flush_prekeys and the workers that decrypt are lost when the *)
(* client disconnects or its process ends.  Every database statement is an *)
(* await, so the tasks of one client interleave between them.              *)
(***************************************************************************)
EXTENDS Integers, FiniteSets

CONSTANTS
    MaxId,      \* number of pre-key ids (Medium.MAX_VALUE - 1)
    CountGen,   \* COUNT_GEN_PREKEYS
    Threshold,  \* THRESHOLD_REGEN
    Calls,      \* concurrent runs of _check_and_flush_prekeys
    Workers,    \* workers that can be decrypting a first message
    MaxBatch,   \* bound: batches ever generated
    MaxDrops    \* bound: connections lost or closed

ASSUME PreKeysAssumption ==
    /\ MaxId \in Nat \ {0}
    /\ CountGen \in 1..MaxId
    /\ {Threshold, MaxBatch, MaxDrops} \subseteq Nat

VARIABLES
    store,      \* the rows of prekeys
    marked,     \* the rows with sent_to_server = True
    batch,      \* batches generated so far
    link,       \* connect(): "down", "levelled" (pre-keys loaded) or "up"
    drops,      \* connections that ended
    unsent,     \* WhatsAppClient._unsent_prekeys
    pc,         \* where each call of _check_and_flush_prekeys is
    req,        \* the keys of the upload of each call
    offered,    \* server: keys it can still give away
    handed,     \* server: keys it gave to some peer
    accepted,   \* server: keys of every upload it accepted
    refused,    \* server: keys of every upload it answered with an error
    wpc,        \* where each worker is in decryptPkmsg
    wkey,       \* the key the sender of its message used
    wrow,       \* the row the worker read for it
    opened,     \* keys with which a session was built and stored
    missed      \* keys whose row was not there when a worker read it

db     == <<store, marked>>
calls  == <<pc, req, unsent>>
server == <<offered, handed, accepted, refused>>
work   == <<wpc, wkey, wrow, opened, missed>>
vars   == <<db, batch, link, drops, calls, server, work>>

Key == (1..MaxId) \X (1..MaxBatch)
NoKey == <<0, 0>>     \* of an idle worker

Rows(id) == {r \in store : r[1] = id}

TypeOK ==
    /\ store \subseteq Key /\ marked \subseteq store
    /\ batch \in 0..MaxBatch /\ drops \in 0..MaxDrops
    /\ link \in {"down", "levelled", "up"}
    /\ unsent \subseteq Key
    /\ pc \in [Calls -> {"idle", "load", "sign", "wait", "late", "cut",
                         "result", "error"}]
    /\ req \in [Calls -> SUBSET Key]
    /\ offered \subseteq Key /\ handed \subseteq Key
    /\ accepted \subseteq Key /\ refused \subseteq Key
    /\ wpc \in [Workers -> {"idle", "load", "open", "remove"}]
    /\ wkey \in [Workers -> Key \cup {NoKey}]
    /\ wrow \in [Workers -> Key \cup {NoKey}]
    /\ \A w \in Workers : wpc[w] # "idle" => wkey[w] \in Key
    /\ opened \subseteq Key /\ missed \subseteq Key

Init ==
    /\ store = {} /\ marked = {} /\ batch = 0
    /\ link = "down" /\ drops = 0 /\ unsent = {}
    /\ pc = [c \in Calls |-> "idle"] /\ req = [c \in Calls |-> {}]
    /\ offered = {} /\ handed = {} /\ accepted = {} /\ refused = {}
    /\ wpc = [w \in Workers |-> "idle"]
    /\ wkey = [w \in Workers |-> NoKey] /\ wrow = wkey
    /\ opened = {} /\ missed = {}
-----------------------------------------------------------------------------
(* connect(), step 2: level_prekeys. *)

(* loadMaxPreKeyId: the largest id of the rows that are left *)
IsMaxPreKeyId(n) ==
    /\ \A r \in store : r[1] <= n
    /\ (store = {} /\ n = 0) \/ (\E r \in store : r[1] = n)

(* generatePreKeys(max + 1, COUNT_GEN_PREKEYS): the ids wrap around *)
NewIds_ZeroBased(max) == {(max + i) % MaxId : i \in 0..(CountGen - 1)} \* variant
NewIds(max) == {((max + i) % MaxId) + 1 : i \in 0..(CountGen - 1)}

(* The batch is one INSERT: an id that is taken undoes all of it, and      *)
(* _load_prekeys goes on without new keys.                                 *)
Taken_Never(ids) == FALSE                   \* variant: rows are overwritten
Taken(ids) == \E r \in store : r[1] \in ids

LevelPreKeys ==
    /\ link = "down"
    /\ link' = "levelled"
    /\ \/ /\ Cardinality(store) >= Threshold
          /\ UNCHANGED <<store, batch>>
       \/ /\ Cardinality(store) < Threshold
          /\ batch < MaxBatch
          /\ \E max \in 0..MaxId :
                /\ IsMaxPreKeyId(max)
                /\ IF Taken(NewIds(max))
                   THEN UNCHANGED <<store, batch>>
                   ELSE /\ batch' = batch + 1
                        /\ store' = store \cup (NewIds(max) \X {batch + 1})
    /\ unsent' = store' \ marked
    /\ UNCHANGED <<marked, drops, pc, req, server, work>>

(* Authentication succeeded: step 9.5 checks for unsent keys.              *)
Authenticated(c) ==
    /\ link = "levelled" /\ pc[c] = "idle"
    /\ link' = "up"
    /\ pc' = [pc EXCEPT ![c] = "load"]
    /\ UNCHANGED <<db, batch, drops, unsent, req, server, work>>

(* The connection ends: workers are cancelled where they are suspended,    *)
(* and so is the call a worker makes; the one connect() makes goes on when *)
(* only the connection is gone.  An upload already written may still reach *)
(* the server.                                                             *)
CancelWorkers_Not == UNCHANGED <<wpc, wkey, wrow>>  \* variant: they go on
CancelWorkers ==
    /\ wpc' = [w \in Workers |-> "idle"]
    /\ wkey' = [w \in Workers |-> NoKey] /\ wrow' = wkey'

Drop ==
    /\ link # "down" /\ drops < MaxDrops
    /\ link' = "down" /\ drops' = drops + 1
    /\ \E goesOn \in SUBSET {c \in Calls : pc[c] \in {"load", "sign"}} :
          pc' = [c \in Calls |->
                    CASE pc[c] \in {"wait", "late", "cut"} -> "cut"
                      [] c \in goesOn -> pc[c]
                      [] OTHER -> "idle"]
    /\ CancelWorkers
    /\ unsent' = {}
    /\ UNCHANGED <<db, batch, req, server, opened, missed>>
-----------------------------------------------------------------------------
(* _check_and_flush_prekeys, _flush_prekeys and _on_keys_flushed *)

(* NotificationProcessor: <notification type="encrypt"> with a <count> *)
KeysRequested(c) ==
    /\ link = "up" /\ offered = {} /\ pc[c] = "idle"
    /\ pc' = [pc EXCEPT ![c] = "load"]
    /\ UNCHANGED <<db, batch, link, drops, unsent, req, server, work>>

Ends(c) == pc' = [pc EXCEPT ![c] = "idle"] /\ req' = [req EXCEPT ![c] = {}]

LoadUnsent(c) ==
    /\ pc[c] = "load"
    /\ unsent' = store \ marked
    /\ pc' = [pc EXCEPT ![c] = IF unsent' = {} THEN "idle" ELSE "sign"]
    /\ UNCHANGED <<db, batch, link, drops, req, server, work>>

(* After the signed pre-key was loaded: what is sent is the attribute,     *)
(* which another call may have replaced or emptied meanwhile, and a stream *)
(* that was cancelled swallows it.                                         *)
Flush_MarksSent(c) ==                       \* variant: marked when sent
    /\ pc[c] = "sign"
    /\ req' = [req EXCEPT ![c] = unsent]
    /\ unsent' = {}
    /\ pc' = [pc EXCEPT ![c] = IF link = "up" THEN "wait" ELSE "cut"]
    /\ marked' = marked \cup (unsent \cap store)
    /\ UNCHANGED <<store, batch, link, drops, server, work>>

Flush(c) ==
    /\ pc[c] = "sign"
    /\ req' = [req EXCEPT ![c] = unsent]
    /\ unsent' = {}
    /\ pc' = [pc EXCEPT ![c] = IF link = "up" THEN "wait" ELSE "cut"]
    /\ UNCHANGED <<db, batch, link, drops, server, work>>

(* The IQ callback expires after 30 s; the answer is then ignored. *)
CallbackExpires(c) ==
    /\ pc[c] = "wait"
    /\ pc' = [pc EXCEPT ![c] = "late"]
    /\ UNCHANGED <<db, batch, link, drops, unsent, req, server, work>>

(* The callback runs for every answer, whatever its type, and marks the    *)
(* rows that still exist under the ids that were sent.                     *)
OnKeysFlushed(c) ==
    /\ pc[c] \in {"result", "error"}
    /\ marked' = marked \cup {r \in store : \E k \in req[c] : k[1] = r[1]}
    /\ Ends(c)
    /\ UNCHANGED <<store, batch, link, drops, unsent, server, work>>
-----------------------------------------------------------------------------
(* The server (not in the repository): it adds what is uploaded, gives     *)
(* each key to at most one peer, and may answer an upload with an error.   *)

Answered(c, answer) ==
    \/ pc[c] = "wait" /\ pc' = [pc EXCEPT ![c] = answer] /\ UNCHANGED req
    \/ pc[c] \in {"late", "cut"} /\ Ends(c)

Accept(c) ==
    /\ Answered(c, "result")
    /\ offered' = offered \cup (req[c] \ handed)
    /\ accepted' = accepted \cup req[c]
    /\ UNCHANGED <<db, batch, link, drops, unsent, handed, refused, work>>

Refuse(c) ==
    /\ Answered(c, "error")
    /\ refused' = refused \cup req[c]
    /\ UNCHANGED <<db, batch, link, drops, unsent, offered, handed,
                   accepted, work>>

(* What was written to a connection that ended may never arrive. *)
UploadLost(c) ==
    /\ pc[c] = "cut" /\ Ends(c)
    /\ UNCHANGED <<db, batch, link, drops, unsent, server, work>>

HandOut(k) ==
    /\ k \in offered
    /\ offered' = offered \ {k} /\ handed' = handed \cup {k}
    /\ UNCHANGED <<db, batch, link, drops, calls, accepted, refused, work>>
-----------------------------------------------------------------------------
(* SessionCipher.decryptPkmsg, for messages of peers that were given a     *)
(* key.  A peer sends every message up to our first answer with the same   *)
(* key, and the server may deliver a message again.                        *)

(* With the session already stored processV3 touches no pre-key; that is   *)
(* looked up here, before the row is read.                                 *)
Receive(w, k) ==
    /\ link = "up" /\ wpc[w] = "idle"
    /\ k \in handed \ opened
    /\ wpc' = [wpc EXCEPT ![w] = "load"]
    /\ wkey' = [wkey EXCEPT ![w] = k]
    /\ UNCHANGED <<db, batch, link, drops, calls, server, wrow, opened, missed>>

Done(w) ==
    /\ wpc' = [wpc EXCEPT ![w] = "idle"]
    /\ wkey' = [wkey EXCEPT ![w] = NoKey]
    /\ wrow' = [wrow EXCEPT ![w] = NoKey]

Remove(rows, k) == {r \in rows : r[1] # k[1]}

LoadPreKey_Removes(w) ==        \* variant: the row goes when it is read
    /\ wpc[w] = "load"
    /\ \/ /\ Rows(wkey[w][1]) = {}
          /\ missed' = missed \cup {wkey[w]}
          /\ Done(w) /\ UNCHANGED db
       \/ \E r \in Rows(wkey[w][1]) :
             /\ wrow' = [wrow EXCEPT ![w] = r]
             /\ wpc' = [wpc EXCEPT ![w] = "open"]
             /\ store' = Remove(store, r) /\ marked' = Remove(marked, r)
             /\ UNCHANGED <<wkey, missed>>
    /\ UNCHANGED <<batch, link, drops, calls, server, opened>>

LoadPreKey(w) ==
    /\ wpc[w] = "load"
    /\ \/ /\ Rows(wkey[w][1]) = {}
          /\ missed' = missed \cup {wkey[w]}
          /\ Done(w)
       \/ \E r \in Rows(wkey[w][1]) :
             /\ wrow' = [wrow EXCEPT ![w] = r]
             /\ wpc' = [wpc EXCEPT ![w] = "open"]
             /\ UNCHANGED <<wkey, missed>>
    /\ UNCHANGED <<db, batch, link, drops, calls, server, opened>>

(* Other key material than the sender's yields a bad MAC before the store. *)
StoreSession(w) ==
    /\ wpc[w] = "open"
    /\ IF wrow[w] = wkey[w]
       THEN /\ opened' = opened \cup {wkey[w]}
            /\ wpc' = [wpc EXCEPT ![w] = "remove"]
            /\ UNCHANGED <<wkey, wrow>>
       ELSE Done(w) /\ UNCHANGED opened
    /\ UNCHANGED <<db, batch, link, drops, calls, server, missed>>

(* A transaction of its own: the connection may end before it. *)
RemovePreKey(w) ==
    /\ wpc[w] = "remove"
    /\ store' = Remove(store, wkey[w]) /\ marked' = Remove(marked, wkey[w])
    /\ Done(w)
    /\ UNCHANGED <<batch, link, drops, calls, server, opened, missed>>
-----------------------------------------------------------------------------
ClientStep(c) == LoadUnsent(c) \/ Flush(c) \/ OnKeysFlushed(c)
ServerStep(c) == Accept(c) \/ Refuse(c) \/ UploadLost(c)
WorkerStep(w) == LoadPreKey(w) \/ StoreSession(w) \/ RemovePreKey(w)

Next ==
    \/ LevelPreKeys \/ Drop
    \/ \E c \in Calls : \/ Authenticated(c) \/ KeysRequested(c)
                        \/ ClientStep(c) \/ CallbackExpires(c) \/ ServerStep(c)
    \/ \E k \in Key : HandOut(k)
    \/ \E w \in Workers : WorkerStep(w) \/ \E k \in Key : Receive(w, k)

(* The application connects again after a loss, the event loop runs every  *)
(* task, the server answers what it receives and says when it runs out.    *)
Fairness ==
    /\ WF_vars(LevelPreKeys)
    /\ WF_vars(\E c \in Calls : Authenticated(c))
    /\ WF_vars(\E c \in Calls : KeysRequested(c))
    /\ \A c \in Calls : WF_vars(ClientStep(c)) /\ WF_vars(ServerStep(c))
    /\ \A w \in Workers : WF_vars(WorkerStep(w))

Spec == Init /\ [][Next]_vars /\ Fairness
-----------------------------------------------------------------------------
(* A key the server can still give away, and a key some peer holds and has *)
(* not opened a session with, is the key the account has under that id:    *)
(* generation never reuses such an id, consumption never removes the row   *)
(* of another key, uploads and their answers never lose one.               *)
KeyKept == \A k \in offered \cup (handed \ opened) : Rows(k[1]) = {k}

(* The row a worker reads for a first message holds the very key the       *)
(* sender used, although the message names only its id (loadPreKey).       *)
ReadsSendersKey == \A w \in Workers : wpc[w] = "open" => wrow[w] = wkey[w]

(* A first message finds no row only when a session was already built with *)
(* its key, by another message of the same sender: never because of a lost *)
(* connection between reading, storing and removing (decryptPkmsg).        *)
MissOnlyAfterOpen == missed \subseteq opened

(* Every key that was generated gets an answer from the server, over all   *)
(* lost connections, expired callbacks and overlapping flushes.            *)
KeysReachServer ==
    \A k \in Key : (k \in store) ~> (k \in accepted \cup refused)

-----------------------------------------------------------------------------
(* What a comment of the code says and TLC refutes; the README tells how.  *)

(* A row is marked as sent when the server took the key                    *)
(* (_on_keys_flushed: "Callback quando prekeys sao enviadas com sucesso"). *)
MarkedWasAccepted == marked \subseteq accepted

(* When the server runs out of keys the client gives it new ones           *)
(* (generatePreKeys: "any time the list of PreKeys stored on the server    *)
(* runs low").                                                             *)
ServerRefilled ==
    [](refused = {}) =>
        ((link = "up" /\ offered = {}) ~> (link # "up" \/ offered # {}))
=============================================================================
