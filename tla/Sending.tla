------------------------------- MODULE Sending -------------------------------
(***************************************************************************)
(* How core/client.py sends a message that is composed: a contact's        *)
(* devices or a group's participants are asked for, keys are requested for *)
(* those without a session, the message is encrypted for one after the     *)
(* other and written.  A group has two further attempts.                   *)
(* Besides, send_empty_message makes a contact start a new session: it     *)
(* deletes the session and must put it back when it fails.                 *)
(*                                                                         *)
(* Tasks of one event loop take turns at every await; each step here is    *)
(* what a task does from one await to the next.  Requests (the module of   *)
(* that name) and requests for keys (KeyRequests) appear by their result.  *)
(***************************************************************************)
EXTENDS Naturals, FiniteSets

CONSTANTS
    Contacts,       \* users with an account of their own
    Devices,        \* how the list of a user's devices names each of them
    Account,        \* the member of Devices that is the bare account
    Sends,          \* messages
    Members,        \* the participants of each group or list
    Lists,          \* the ones that are kept in the database: status, broadcasts
    Empties, For,   \* calls of send_empty_message, and the contact of each
    Known           \* contacts there is a session with at first

Groups == DOMAIN Members

ASSUME SendingAssumption ==
    /\ Account \in Devices
    /\ Contacts \cap Groups = {}
    /\ Members \in [Groups -> SUBSET Contacts] /\ Lists \subseteq Groups
    /\ For \in [Empties -> Contacts] /\ Known \subseteq Contacts
    /\ Sends \cap Empties = {}     \* ids of stanzas are unique

VARIABLES
    sessions,   \* contacts with a row in the session table
    send,       \* the progress of each message
    wire,       \* what has reached the transport
    empty,      \* the progress of each call of send_empty_message
    entries     \* _pending_pkmsg_sync_requests: the call that each contact's future is of

vars == <<sessions, send, wire, empty, entries>>

To(s) == send[s].to
ToGroup(s) == To(s) \in Groups
ToList(s) == To(s) \in Lists

(* A jid is <<user, device>>. WATools.jidDecode finds a device only in      *)
(* user.type:device; in user:device, the form the list of devices has, it  *)
(* reads the type, and the session is the one of the account.              *)
Jids == Contacts \X Devices
Bare(U) == U \X {Account}
UsersOf(J) == {j[1] : j \in J}

Stages == {"new", "devices", "participants", "check", "keys", "trust", "encrypt", "write"}
Ends == {"returned", "failed"}

Messages == [to : Contacts \cup Groups, at : Stages \cup Ends, try : 1..3, proto : BOOLEAN,
             jids : SUBSET Jids, todo : SUBSET Jids, done : SUBSET Jids,
             lacking : SUBSET Contacts, refused : SUBSET Contacts]
Stanzas == [id : Sends \cup Empties, to : SUBSET Jids, refused : SUBSET Contacts, try : 1..3]
EmptyStages == {"new", "look", "delete", "keys", "encrypt", "write",
                "restore", "done", "stuck", "cancelled", "unrestored"}

TypeOK ==
    /\ sessions \subseteq Contacts
    /\ send \in [Sends -> Messages]
    /\ wire \subseteq Stanzas
    /\ empty \in [Empties -> [at : EmptyStages, backup : BOOLEAN]]
    /\ DOMAIN entries \subseteq Contacts /\ \A c \in DOMAIN entries : entries[c] \in Empties

Init ==
    /\ sessions = Known
    /\ \E to \in [Sends -> Contacts \cup Groups] :
          send = [s \in Sends |-> [to |-> to[s], at |-> "new", try |-> 1, proto |-> TRUE,
                                   jids |-> {}, todo |-> {}, done |-> {},
                                   lacking |-> {}, refused |-> {}]]
    /\ wire = {}
    /\ empty = [e \in Empties |-> [at |-> "new", backup |-> FALSE]]
    /\ entries = <<>>
-----------------------------------------------------------------------------
At(s, stage) == send[s].at = stage
Go(s, next) == send' = [send EXCEPT ![s] = next]
Check(s, J) == [send[s] EXCEPT !.at = "check", !.jids = J, !.done = {}]

(* A list's members are read from the database; a group's are asked for,   *)
(* after its sender key is made; a contact's devices are.                  *)
Begin(s) ==
    /\ At(s, "new")
    /\ Go(s, IF ToList(s) THEN Check(s, Bare(Members[To(s)]))
             ELSE [send[s] EXCEPT !.at = IF ToGroup(s) THEN "participants" ELSE "devices"])
    /\ UNCHANGED <<sessions, wire, empty, entries>>

(* What an exception leads to: a second attempt for a group and a third    *)
(* one without participants; one without participants for a list.          *)
Attempts(s) == IF ~ToGroup(s) THEN 1 ELSE IF ToList(s) THEN 2 ELSE 3

Raised(s) ==
    LET m == [send[s] EXCEPT !.jids = {}, !.todo = {}, !.done = {}, !.refused = {}]
    IN  IF m.try = Attempts(s) THEN [m EXCEPT !.at = "failed"]
        ELSE [m EXCEPT !.try = m.try + 1,
                       !.at = CASE ToList(s) -> "check"
                                [] m.try = 1 -> "participants"
                                [] OTHER -> "encrypt"]

(* sync_devices answers with the devices of the contact, or with none; if  *)
(* it raises, the contact itself is what there is.                         *)
DevicesKnown(s) ==
    /\ At(s, "devices")
    /\ \E J \in {{To(s)} \X Devices, Bare({To(s)}), {}} : Go(s, Check(s, J))
    /\ UNCHANGED <<sessions, wire, empty, entries>>

ParticipantsKnown(s) ==
    /\ At(s, "participants")
    /\ Go(s, Check(s, Bare(Members[To(s)])))
    /\ UNCHANGED <<sessions, wire, empty, entries>>

ParticipantsUnknown(s) ==
    /\ At(s, "participants")
    /\ Go(s, Raised(s))
    /\ UNCHANGED <<sessions, wire, empty, entries>>

WithSession(J) == Bare(UsersOf(J) \cap sessions)
Lacking(J) == UsersOf(J) \ sessions

(* session_exists_bulk. A contact with a session is sent to by its account, *)
(* whatever devices were listed; to a group all of whose members have one, *)
(* by the jids as they came.                                               *)
SessionsChecked(s) ==
    /\ At(s, "check")
    /\ LET J == send[s].jids
           lacking == Lacking(J)
       IN  Go(s, [send[s] EXCEPT !.at = IF lacking # {} THEN "keys" ELSE "encrypt",
                                 !.jids = {},
                                 !.todo = IF ToGroup(s) /\ lacking = {} THEN J ELSE WithSession(J),
                                 !.lacking = lacking])
    /\ UNCHANGED <<sessions, wire, empty, entries>>

(* The server has keys for some; sessions that have come to be meanwhile   *)
(* count as well.                                                          *)
WithKeys_NewOnly(s, ok) ==          \* variant: the ones there was a session with are left out
    [send[s] EXCEPT !.at = IF ToGroup(s) THEN "encrypt" ELSE "trust",
                    !.todo = Bare(send[s].lacking \cap ok),
                    !.refused = send[s].lacking \ ok, !.lacking = {}]
WithKeys(s, ok) ==
    [send[s] EXCEPT !.at = IF ToGroup(s) THEN "encrypt" ELSE "trust",
                    !.todo = @ \cup Bare(send[s].lacking \cap ok),
                    !.refused = send[s].lacking \ ok, !.lacking = {}]

KeysAnswered(s) ==
    /\ At(s, "keys")
    /\ \E new \in SUBSET (send[s].lacking \ sessions) :
          /\ sessions' = sessions \cup new
          /\ Go(s, WithKeys(s, sessions'))
    /\ UNCHANGED <<wire, empty, entries>>

(* trust_contact is answered. Without a key there is nothing to send to:   *)
(* the call returns all the same.                                          *)
Trusted(s) ==
    /\ At(s, "trust")
    /\ Go(s, [send[s] EXCEPT !.at = IF send[s].todo = {} THEN "returned" ELSE "encrypt"])
    /\ UNCHANGED <<sessions, wire, empty, entries>>

TrustFails(s) ==
    /\ At(s, "trust")
    /\ Go(s, Raised(s))
    /\ UNCHANGED <<sessions, wire, empty, entries>>

(* A ciphertext for one jid; a session deleted meanwhile makes it raise.   *)
Encrypted(s) ==
    /\ At(s, "encrypt") /\ send[s].proto
    /\ \E j \in send[s].todo :
          Go(s, IF j[1] \in sessions
                THEN [send[s] EXCEPT !.todo = @ \ {j}, !.done = @ \cup {j}]
                ELSE Raised(s))
    /\ UNCHANGED <<sessions, wire, empty, entries>>

(* "Node de mensagem deve ter <proto>": an earlier attempt has taken it.   *)
WithoutProto(s) ==
    /\ At(s, "encrypt") /\ ~send[s].proto
    /\ Go(s, Raised(s))
    /\ UNCHANGED <<sessions, wire, empty, entries>>

(* The ciphertexts take the place of <proto>, in the caller's node. *)
Built_Copy(s) ==                    \* variant: they do so in a copy
    [send[s] EXCEPT !.at = "write"]
Built(s) == [send[s] EXCEPT !.at = "write", !.proto = FALSE]

Build(s) ==
    /\ At(s, "encrypt") /\ send[s].proto /\ send[s].todo = {}
    /\ Go(s, Built(s))
    /\ UNCHANGED <<sessions, wire, empty, entries>>

Stanza(id, to, refused, try) == [id |-> id, to |-> to, refused |-> refused, try |-> try]
Written(s) == wire' = wire \cup {Stanza(s, send[s].done, send[s].refused, send[s].try)}

Write(s) ==
    /\ At(s, "write")
    /\ Written(s)
    /\ Go(s, [send[s] EXCEPT !.at = "returned", !.done = {}, !.refused = {}])
    /\ UNCHANGED <<sessions, empty, entries>>

(* The connection is gone, before or after it has taken the bytes. *)
WriteFails(s) ==
    /\ At(s, "write")
    /\ Written(s) \/ UNCHANGED wire
    /\ Go(s, Raised(s))
    /\ UNCHANGED <<sessions, empty, entries>>
-----------------------------------------------------------------------------
(* _send_pkmsg_for_invalid_message *)
Is(e, stage) == empty[e].at = stage
Move(e, stage) == empty' = [empty EXCEPT ![e].at = stage]

Entered(e) == [c \in DOMAIN entries \cup {For[e]} |-> IF c = For[e] THEN e ELSE entries[c]]
Cleared(e) == [c \in {k \in DOMAIN entries : entries[k] # e} |-> entries[c]]

(* A call in progress for the contact makes this one return. *)
EmptyBegins(e) ==
    /\ Is(e, "new")
    /\ IF For[e] \in DOMAIN entries THEN Move(e, "done") /\ UNCHANGED entries
       ELSE Move(e, "look") /\ entries' = Entered(e)
    /\ UNCHANGED <<sessions, send, wire>>

(* The session is looked for, and loaded. *)
EmptyLooks(e) ==
    /\ Is(e, "look")
    /\ LET found == For[e] \in sessions
       IN  empty' = [empty EXCEPT ![e] = [at |-> IF found THEN "delete" ELSE "keys",
                                          backup |-> found]]
    /\ UNCHANGED <<sessions, send, wire, entries>>

(* A failure to delete it is only logged. *)
Deletes(e) == sessions' \in {sessions, sessions \ {For[e]}}
EmptyDeletes(e) ==
    /\ Is(e, "delete")
    /\ Deletes(e)
    /\ Move(e, "keys")
    /\ UNCHANGED <<send, wire, entries>>

EmptyHasKeys(e) ==
    /\ Is(e, "keys")
    /\ sessions' = sessions \cup {For[e]}
    /\ Move(e, "encrypt")
    /\ UNCHANGED <<send, wire, entries>>

(* restore_session is awaited first, if there was a session; then, in the  *)
(* finally clause, the entry is deleted.                                   *)
EmptyFails_Forgets(e) ==            \* variant: the session is not put back
    Move(e, "done") /\ entries' = Cleared(e)
EmptyFails(e) ==
    IF empty[e].backup THEN Move(e, "restore") /\ UNCHANGED entries
    ELSE Move(e, "done") /\ entries' = Cleared(e)

EmptyRefused(e) ==
    /\ Is(e, "keys") /\ For[e] \notin sessions
    /\ EmptyFails(e)
    /\ UNCHANGED <<sessions, send, wire>>

EmptyEncrypts(e) ==
    /\ Is(e, "encrypt")
    /\ IF For[e] \in sessions
       THEN Move(e, "write") /\ UNCHANGED entries
       ELSE EmptyFails(e)
    /\ UNCHANGED <<sessions, send, wire>>

EmptyWrites(e) ==
    /\ Is(e, "write")
    /\ wire' = wire \cup {Stanza(e, Bare({For[e]}), {}, 1)}
    /\ Move(e, "done") /\ entries' = Cleared(e)
    /\ UNCHANGED <<sessions, send>>

EmptyWriteFails(e) ==
    /\ Is(e, "write")
    /\ EmptyFails(e)
    /\ UNCHANGED <<sessions, send, wire>>

EmptyRestores_Entered(e) ==         \* variant: the entry stays
    Is(e, "restore") /\ sessions' = sessions \cup {For[e]} /\ Move(e, "done")
    /\ UNCHANGED <<send, wire, entries>>
EmptyRestores(e) ==
    /\ Is(e, "restore")
    /\ sessions' = sessions \cup {For[e]}
    /\ Move(e, "done") /\ entries' = Cleared(e)
    /\ UNCHANGED <<send, wire>>

(* restore_session only logs what storeSession raises, which has deleted   *)
(* the row before it inserts one; or it puts an empty record in its place, *)
(* the load of the session having failed.                                  *)
HalfRestored(e) == sessions' \in {sessions, sessions \ {For[e]}, sessions \cup {For[e]}}
EmptyRestoreFails(e) ==
    /\ Is(e, "restore")
    /\ HalfRestored(e)
    /\ Move(e, "unrestored") /\ entries' = Cleared(e)
    /\ UNCHANGED <<send, wire>>

(* CancelledError passes every "except Exception"; the finally clause is   *)
(* entered only once keys are asked for.  A delete may be done by then.    *)
EmptyCancelled(e) ==
    /\ \/ Is(e, "look") /\ Move(e, "stuck") /\ UNCHANGED <<sessions, entries>>
       \/ Is(e, "delete") /\ Move(e, "stuck") /\ Deletes(e) /\ UNCHANGED entries
       \/ /\ empty[e].at \in {"keys", "encrypt", "write", "restore"}
          /\ Move(e, "cancelled") /\ entries' = Cleared(e)
          /\ IF Is(e, "restore") THEN HalfRestored(e) ELSE UNCHANGED sessions
    /\ UNCHANGED <<send, wire>>

(* disconnect() empties the table; calls in progress go on. *)
Disconnect ==
    /\ entries # <<>>
    /\ entries' = <<>>
    /\ UNCHANGED <<sessions, send, wire, empty>>
-----------------------------------------------------------------------------
Steps(s) ==
    \/ Begin(s) \/ DevicesKnown(s) \/ ParticipantsKnown(s) \/ ParticipantsUnknown(s)
    \/ SessionsChecked(s) \/ KeysAnswered(s) \/ Trusted(s) \/ TrustFails(s)
    \/ Encrypted(s) \/ WithoutProto(s) \/ Build(s) \/ Write(s) \/ WriteFails(s)

EmptySteps(e) ==
    \/ EmptyBegins(e) \/ EmptyLooks(e) \/ EmptyDeletes(e) \/ EmptyHasKeys(e)
    \/ EmptyRefused(e) \/ EmptyEncrypts(e) \/ EmptyWrites(e) \/ EmptyWriteFails(e)
    \/ EmptyRestores(e) \/ EmptyRestoreFails(e)

Next ==
    \/ \E s \in Sends : Steps(s)
    \/ \E e \in Empties : EmptySteps(e) \/ EmptyCancelled(e)
    \/ Disconnect

Spec == Init /\ [][Next]_vars
-----------------------------------------------------------------------------
(* A message is written once, whatever attempts its failures lead to: even *)
(* one whose bytes went out before the write raised.                       *)
SentOnce == \A x, y \in wire : x.id = y.id => x = y

(* A message written to a group carries the group's key to every           *)
(* participant whose keys the server did not refuse, unless the last       *)
(* attempt wrote it, the one that gives the participants up.               *)
Distributed ==
    \A x \in wire :
        (x.id \in Sends /\ ToGroup(x.id) /\ x.try < Attempts(x.id))
            => UsersOf(x.to) \cup x.refused = Members[To(x.id)]

Busy(e) == empty[e].at \in {"look", "delete", "keys", "encrypt", "write", "restore"}

(* send_empty_message deletes a working session. Whatever fails of the     *)
(* request, the encryption and the write, there is a session again when it *)
(* is over, unless it was cancelled or the database failed to put it back. *)
SessionKept ==
    \A c \in Known \ sessions :
        \E e \in Empties : For[e] = c /\ (Busy(e) \/ empty[e].at \in {"stuck", "cancelled", "unrestored"})

(* A contact is not refused a further call by one that is over, but for    *)
(* one that was cancelled before it asked for keys.                        *)
Freed == \A c \in DOMAIN entries : Busy(entries[c]) \/ Is(entries[c], "stuck")
=============================================================================
