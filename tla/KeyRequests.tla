----------------------------- MODULE KeyRequests -----------------------------
(***************************************************************************)
(* _get_keys_for_recipient of core/client.py: a task that has no session   *)
(* with some contacts asks the server for their pre-key bundles and waits  *)
(* on a future; the callback of the answer, on a worker of the message     *)
(* loop, creates the sessions and sets the future.  Every await between is *)
(* a step: the wait may time out while the callback runs, the caller may   *)
(* be cancelled, disconnect() may run.                                     *)
(*                                                                         *)
(* A session row is what decryption needs of it: the sessions its record   *)
(* holds, by their base, and the messages they have read.                  *)
(***************************************************************************)
EXTENDS Naturals, Sequences, FiniteSets

CONSTANTS
    Calls,      \* calls of _get_keys_for_recipient
    Jids,       \* contacts
    Bases,      \* sessions contacts have created with this account
    Messages    \* messages in them

VARIABLES
    row,        \* the session row of each contact, as a set of 0 or 1 record
    pc,         \* where each call is suspended
    had, asked, \* contacts it found with a session, and those without
    future,     \* its future
    result,     \* what it has returned
    entries,    \* _pending_keys_requests: whose future each key maps to
    callbacks,  \* calls with a callback registered
    net,        \* calls the server has not answered
    running,    \* the progress of the callback of each call, 0 or 1
    closing     \* how far disconnect() has come

requests == <<pc, had, asked, future, result, entries, callbacks, net, running, closing>>

Record(bases, read) == [bases |-> bases, read |-> read]
HasSession(j) == row[j] # {}

Outcome(ok, err) == [ok |-> ok, err |-> err]
Nothing == Outcome({}, {})

RequestsTypeOK ==
    /\ \A j \in Jids : /\ Cardinality(row[j]) <= 1
                       /\ \A r \in row[j] : r.bases \subseteq Bases \cup Calls
                                            /\ r.read \subseteq Messages
    /\ pc \in [Calls -> {"idle", "asked", "wait", "done", "cancelled"}]
    /\ future \in [Calls -> {"none", "pending", "result", "cancelled"}]
    /\ \A c \in Calls : (pc[c] = "wait") => (asked[c] # {} /\ future[c] # "none")
    /\ callbacks \subseteq Calls /\ net \subseteq Calls
    /\ \A c \in Calls : Cardinality(running[c]) <= 1
    /\ closing \in {"no", "cancelling", "closed"}

RequestsInit ==
    /\ pc = [c \in Calls |-> "idle"] /\ future = [c \in Calls |-> "none"]
    /\ had = [c \in Calls |-> {}] /\ asked = had
    /\ result = [c \in Calls |-> Nothing]
    /\ entries = <<>> /\ callbacks = {} /\ net = {}
    /\ running = [c \in Calls |-> {}]
    /\ closing = "no"
-----------------------------------------------------------------------------
(* The dictionary of pending requests: a later request for the same        *)
(* contacts takes the place of an earlier one.                             *)
Enter(c) ==
    [k \in DOMAIN entries \cup {asked[c]} |-> IF k = asked[c] THEN c ELSE entries[k]]

Without_Any(d, c) ==                \* variant: whoever owns the entry, it is deleted
    [k \in DOMAIN d \ {asked[c]} |-> d[k]]
Without(d, c) == [k \in {x \in DOMAIN d : d[x] # c} |-> d[k]]

Return(c, r) ==
    /\ pc' = [pc EXCEPT ![c] = "done"]
    /\ result' = [result EXCEPT ![c] = r]

(* session_exists_bulk: with a session for each contact nothing is asked *)
Start(c, J) ==
    /\ pc[c] = "idle"
    /\ had' = [had EXCEPT ![c] = {j \in J : HasSession(j)}]
    /\ asked' = [asked EXCEPT ![c] = J \ had'[c]]
    /\ IF asked'[c] = {} THEN Return(c, Outcome(J, {}))
       ELSE pc' = [pc EXCEPT ![c] = "asked"] /\ UNCHANGED result
    /\ UNCHANGED <<row, future, entries, callbacks, net, running, closing>>

(* The future is entered, the callback registered, and the request sent. *)
Request(c) ==
    /\ pc[c] = "asked" /\ closing # "closed"
    /\ pc' = [pc EXCEPT ![c] = "wait"]
    /\ future' = [future EXCEPT ![c] = "pending"]
    /\ entries' = Enter(c)
    /\ callbacks' = callbacks \cup {c} /\ net' = net \cup {c}
    /\ UNCHANGED <<row, had, asked, result, running, closing>>

(* Sending raises: the callback and the entry are taken back. *)
RequestFails(c) ==
    /\ pc[c] = "asked"
    /\ entries' = Without(Enter(c), c)
    /\ future' = [future EXCEPT ![c] = "result"]
    /\ Return(c, Outcome(had[c], asked[c]))
    /\ UNCHANGED <<row, had, asked, callbacks, net, running, closing>>
-----------------------------------------------------------------------------
(* A worker has the answer; without a callback no processor takes it. *)
AnswerIgnored(c) ==
    /\ c \in net \ callbacks
    /\ net' = net \ {c}
    /\ UNCHANGED <<row, pc, had, asked, future, result, entries, callbacks, running, closing>>

(* An answer without <list>, as the refusal of the request: what is left   *)
(* are the sessions there were.                                            *)
Progress(todo, ok, err, creating) ==
    [todo |-> todo, ok |-> ok, err |-> err, creating |-> creating]

AnswerRefused(c) ==
    /\ c \in net \cap callbacks
    /\ net' = net \ {c}
    /\ running' = [running EXCEPT ![c] = {Progress({}, {}, {}, {})}]
    /\ UNCHANGED <<row, pc, had, asked, future, result, entries, callbacks, closing>>

Answer(c) ==
    /\ c \in net \cap callbacks
    /\ net' = net \ {c}
    /\ running' = [running EXCEPT ![c] = {Progress(asked[c], {}, {}, {})}]
    /\ UNCHANGED <<row, pc, had, asked, future, result, entries, callbacks, closing>>

(* One contact of the list: it does not parse, has a session by now, has   *)
(* no bundle, or gets a session.                                           *)
At(c, j, p) == p.todo # {} /\ j \in p.todo /\ p.creating = {}

Contact(c, j) ==
    /\ \E p \in running[c] :
          /\ At(c, j, p)
          /\ \E q \in {[p EXCEPT !.err = @ \cup {j}]}
                 \cup (IF HasSession(j) THEN {[p EXCEPT !.ok = @ \cup {j}]}
                       ELSE {p, [p EXCEPT !.creating = {j}]}) :
                running' = [running EXCEPT ![c] = {[q EXCEPT !.todo = @ \ {j}]}]
    /\ UNCHANGED <<row, pc, had, asked, future, result, entries, callbacks, net, closing>>

(* create_session makes a session of this account's own the current one;   *)
(* the identity may not be trusted.                                        *)
Created_Fresh(j, c) ==              \* variant: the record is not loaded first
    {Record({c}, {})}
Created(j, c) ==
    IF row[j] = {} THEN {Record({c}, {})}
    ELSE {[r EXCEPT !.bases = @ \cup {c}] : r \in row[j]}

Create(c, j) ==
    /\ \E p \in running[c] :
          /\ p.creating = {j}
          /\ running' = [running EXCEPT
                ![c] = {[p EXCEPT !.creating = {}, !.ok = @ \cup {j}]}]
    /\ row' = [row EXCEPT ![j] = Created(j, c)]
    /\ UNCHANGED <<pc, had, asked, future, result, entries, callbacks, net, closing>>

CreateFails(c, j) ==
    /\ \E p \in running[c] :
          /\ p.creating = {j}
          /\ running' = [running EXCEPT
                ![c] = {[p EXCEPT !.creating = {}, !.err = @ \cup {j}]}]
    /\ UNCHANGED <<row, pc, had, asked, future, result, entries, callbacks, net, closing>>

(* The callback sets the future unless the call has stopped waiting. *)
CallbackEnds(c) ==
    /\ \E p \in running[c] :
          /\ p.todo = {} /\ p.creating = {}
          /\ IF future[c] = "pending"
             THEN /\ future' = [future EXCEPT ![c] = "result"]
                  /\ result' = [result EXCEPT ![c] = Outcome(had[c] \cup p.ok, p.err)]
             ELSE UNCHANGED <<future, result>>
    /\ running' = [running EXCEPT ![c] = {}]
    /\ callbacks' = callbacks \ {c}
    /\ UNCHANGED <<row, pc, had, asked, entries, net, closing>>
-----------------------------------------------------------------------------
Resume(c) ==
    /\ pc[c] = "wait" /\ future[c] = "result"
    /\ pc' = [pc EXCEPT ![c] = "done"]
    /\ entries' = Without(entries, c)
    /\ UNCHANGED <<row, had, asked, future, result, callbacks, net, running, closing>>

Timeout(c) ==
    /\ pc[c] = "wait" /\ future[c] = "pending"
    /\ future' = [future EXCEPT ![c] = "cancelled"]
    /\ callbacks' = callbacks \ {c}
    /\ entries' = Without(entries, c)
    /\ Return(c, Outcome(had[c], asked[c]))
    /\ UNCHANGED <<row, had, asked, net, running, closing>>

(* CancelledError passes every handler of the function: disconnect() has   *)
(* cancelled the future, or the caller has been cancelled.                 *)
Cancelled(c) ==
    /\ pc[c] = "wait" /\ future[c] = "cancelled"
    /\ pc' = [pc EXCEPT ![c] = "cancelled"]
    /\ UNCHANGED <<row, had, asked, future, result, entries, callbacks, net, running, closing>>

CallerCancels(c) ==
    /\ pc[c] = "wait" /\ future[c] = "pending"
    /\ pc' = [pc EXCEPT ![c] = "cancelled"]
    /\ future' = [future EXCEPT ![c] = "cancelled"]
    /\ UNCHANGED <<row, had, asked, result, entries, callbacks, net, running, closing>>

(* _cleanup_expired_callbacks *)
Expire(c) ==
    /\ c \in callbacks
    /\ callbacks' = callbacks \ {c}
    /\ UNCHANGED <<row, pc, had, asked, future, result, entries, net, running, closing>>

(* disconnect(): the futures entered are cancelled; later the workers with *)
(* the callbacks they run.                                                 *)
Owners == {entries[k] : k \in DOMAIN entries}

DisconnectCancels ==
    /\ closing = "no" /\ closing' = "cancelling"
    /\ future' = [c \in Calls |-> IF c \in Owners /\ future[c] = "pending"
                                  THEN "cancelled" ELSE future[c]]
    /\ entries' = <<>>
    /\ UNCHANGED <<row, pc, had, asked, result, callbacks, net, running>>
-----------------------------------------------------------------------------
CallbackStep(c) ==
    \/ \E j \in Jids : Contact(c, j) \/ Create(c, j) \/ CreateFails(c, j)
    \/ CallbackEnds(c)
AnswerStep(c) == Answer(c) \/ AnswerRefused(c) \/ AnswerIgnored(c)
=============================================================================
