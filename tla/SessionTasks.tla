---------------------------- MODULE SessionTasks ----------------------------
(***************************************************************************)
(* Sessions as the client uses them: the workers of the message loop and   *)
(* the application's sends work on the same row of the sessions table,     *)
(* each loading, computing and storing on its own (SessionCipher,          *)
(* SessionBuilder over db/store and db/models/sessionkey).  No lock covers *)
(* an operation, every database call is an await, and store_session is a   *)
(* delete with its commit followed by an insert with its commit.           *)
(*                                                                         *)
(* One party is seen at that grain, on the variables of Ratchet (a party   *)
(* whose record is <<>> has no row); its peer works as in Ratchet, one     *)
(* whole operation at a time.                                              *)
(***************************************************************************)
EXTENDS Ratchet

CONSTANTS
    Me,         \* the party that runs several tasks
    Tasks       \* operations it may have in progress

ASSUME TasksAssumption == Me \in Parties

VARIABLES
    pc,         \* where each task is suspended
    job,        \* what it works on
    old, new,   \* the record it loaded and the one it stores
    again,      \* messages that were decrypted a second time
    overlapped, \* two tasks have been in progress at the same time
    torn        \* where tasks were cut off that had stored already

ghosts == <<again, overlapped, torn>>
taskVars == <<vars, pc, job, old, new, ghosts>>

(* A job is a message to decrypt, or one of the two kinds of sends; the    *)
(* message that encrypt() is going to return replaces the latter.          *)
Job(kind, m) == [kind |-> kind, m |-> m]
NoJob == Job("none", {})
Jobs  == {Job("establish", {}), Job("encrypt", {})}
            \cup {Job("decrypt", {m}) : m \in {x \in sent : x.to = Me}}

Row == store[Me]
SetRow(r) == store' = [store EXCEPT ![Me] = r]

TasksTypeOK ==
    /\ TypeOK
    /\ pc \in [Tasks -> {"idle", "load", "store", "insert", "remove"}]
    /\ \A t \in Tasks :
          /\ pc[t] = "idle" => job[t] = NoJob
          /\ pc[t] \in {"insert", "remove"} => Len(new[t]) \in 1..(MaxArchived + 1)
    /\ again \subseteq read /\ overlapped \in BOOLEAN
    /\ torn \subseteq {"insert", "remove"}

TasksInit ==
    /\ Init
    /\ pc = [t \in Tasks |-> "idle"] /\ job = [t \in Tasks |-> NoJob]
    /\ old = [t \in Tasks |-> <<>>] /\ new = old
    /\ again = {} /\ overlapped = FALSE /\ torn = {}
-----------------------------------------------------------------------------
End(t) ==
    /\ pc' = [pc EXCEPT ![t] = "idle"] /\ job' = [job EXCEPT ![t] = NoJob]
    /\ old' = [old EXCEPT ![t] = <<>>] /\ new' = [new EXCEPT ![t] = <<>>]

(* MaxSent bounds the messages sent and those about to be. *)
InBound ==
    Cardinality(sent) + Cardinality({t \in Tasks : job[t].kind = "encrypt"})
        <= MaxSent

(* An operation begins by loading the record, decryptMsg by asking whether *)
(* there is a session.                                                     *)
IsMsg(j) == j.kind = "decrypt" /\ \A m \in j.m : m.msg.pre = {}

Begin(t, j) ==
    /\ pc[t] = "idle"
    /\ IF IsMsg(j)
       THEN /\ Row # <<>>
            /\ pc' = [pc EXCEPT ![t] = "load"] /\ UNCHANGED old
       ELSE pc' = [pc EXCEPT ![t] = "store"] /\ old' = [old EXCEPT ![t] = Row]
    /\ job' = [job EXCEPT ![t] = j]
    /\ overlapped' = (overlapped \/ \E s \in Tasks : pc[s] # "idle")
    /\ UNCHANGED <<vars, new, again, torn>>
    /\ InBound'

Load(t) ==
    /\ pc[t] = "load"
    /\ pc' = [pc EXCEPT ![t] = "store"] /\ old' = [old EXCEPT ![t] = Row]
    /\ UNCHANGED <<vars, job, new, ghosts>>

(* Up to the first commit of store_session: what was loaded is worked on   *)
(* without another look at the row, and the row is deleted.                *)
DeleteRow(t, record) ==
    /\ pc' = [pc EXCEPT ![t] = "insert"] /\ new' = [new EXCEPT ![t] = record]
    /\ SetRow(<<>>)
    /\ UNCHANGED <<used, sent, read, lost, old, ghosts>>

Generate(n) == fresh' = [fresh EXCEPT ![Me] = @ + n] /\ fresh'[Me] <= MaxKeys

StoreEstablished(t) ==
    /\ pc[t] = "store" /\ job[t].kind = "establish"
    /\ \E once \in BOOLEAN :
          DeleteRow(t, Promote(AliceState(Generated(Me, 1), once,
                                          SignedPreKey(Peer(Me)),
                                          Generated(Me, 2)), old[t]))
    /\ Generate(2)
    /\ UNCHANGED job

StoreEncrypted(t) ==
    /\ pc[t] = "store" /\ job[t].kind = "encrypt" /\ old[t] # <<>>
    /\ DeleteRow(t, Encrypted(old[t]))
    /\ job' = [job EXCEPT ![t].m = {Message(old[t][1])}]
    /\ UNCHANGED fresh

(* encrypt() without a session raises *)
EncryptFails(t) ==
    /\ pc[t] = "store" /\ job[t].kind = "encrypt" /\ old[t] = <<>>
    /\ End(t)
    /\ UNCHANGED <<vars, ghosts>>

Outcome(t, m) ==
    IF NeedsPreKey(old[t], m.msg) \cap used # {}
    THEN [record |-> old[t], verdict |-> "nokey"]
    ELSE Decrypted(Built(old[t], m.msg, SignedPreKey(Me)), m.msg,
                   Generated(Me, 1))

StoreDecrypted(t) ==
    /\ pc[t] = "store" /\ job[t].kind = "decrypt"
    /\ \E m \in job[t].m :
          LET o == Outcome(t, m)
              ratcheted == Head(o.record).eph = Generated(Me, 1)
          IN /\ o.verdict = "read"
             /\ DeleteRow(t, o.record)
             /\ Generate(IF ratcheted THEN 1 ELSE 0)
    /\ UNCHANGED job

DecryptFails(t) ==
    /\ pc[t] = "store" /\ job[t].kind = "decrypt"
    /\ \A m \in job[t].m : Outcome(t, m).verdict # "read"
    /\ End(t)
    /\ UNCHANGED <<vars, ghosts>>

(* The second commit.  The unique index refuses the row when another task  *)
(* has inserted one since: the operation fails with its result.            *)
InsertRow(t) == Row = <<>>

Gone(t) == {Me} \X (Bases(old[t]) \ Bases(new[t]))

Insert(t) ==
    /\ pc[t] = "insert" /\ InsertRow(t)
    /\ SetRow(new[t])
    /\ lost' = lost \cup Gone(t)
    /\ IF job[t].kind = "decrypt"
       THEN /\ pc' = [pc EXCEPT ![t] = "remove"]
            /\ UNCHANGED <<sent, job, old, new>>
       ELSE sent' = sent \cup Sent(Me, job[t].m) /\ End(t)
    /\ UNCHANGED <<fresh, used, read, ghosts>>

InsertFails_Cleans(t) ==            \* variant: a failed store deletes the row
    /\ pc[t] = "insert" /\ ~InsertRow(t)
    /\ SetRow(<<>>) /\ End(t)
    /\ UNCHANGED <<fresh, used, sent, read, lost, ghosts>>

InsertFails(t) ==
    /\ pc[t] = "insert" /\ ~InsertRow(t)
    /\ End(t)
    /\ UNCHANGED <<vars, ghosts>>

Needed_None(t) == {}                \* variant: the pre-key is not removed
Needed(t) == UNION {NeedsPreKey(old[t], m.msg) : m \in job[t].m}

(* decryptPkmsg removes the one-time pre-key; the plaintext is returned *)
RemovePreKey(t) ==
    /\ pc[t] = "remove"
    /\ used' = used \cup Needed(t)
    /\ again' = again \cup (read \cap job[t].m)
    /\ read' = read \cup job[t].m
    /\ End(t)
    /\ UNCHANGED <<store, fresh, sent, lost, overlapped, torn>>

(* disconnect() cancels the workers where they are suspended, and the      *)
(* process may end: what is not committed does not happen.                 *)
Cut(t) ==
    /\ pc[t] # "idle"
    /\ End(t)
    /\ torn' = torn \cup ({pc[t]} \cap {"insert", "remove"})
    /\ UNCHANGED <<vars, again, overlapped>>
-----------------------------------------------------------------------------
PeerWorks(q) ==
    /\ Establish(q) \/ Encrypt(q)
          \/ \E m \in sent : m.to = q /\ Decrypt(m)
    /\ UNCHANGED <<pc, job, old, new, ghosts>>
    /\ InBound'

TaskStep(t) ==
    \/ Load(t) \/ StoreEstablished(t) \/ StoreEncrypted(t) \/ StoreDecrypted(t)
    \/ EncryptFails(t) \/ DecryptFails(t)
    \/ Insert(t) \/ InsertFails(t) \/ RemovePreKey(t) \/ Cut(t)

TasksNext ==
    \/ \E t \in Tasks : TaskStep(t) \/ \E j \in Jobs : Begin(t, j)
    \/ PeerWorks(Peer(Me))

TasksSpec == TasksInit /\ [][TasksNext]_taskVars
-----------------------------------------------------------------------------
(* The row is never lost: whenever no operation is in progress it is       *)
(* there, once there was a session, although every store deletes it first  *)
(* and any store may fail, unless an operation was cut off between the     *)
(* two commits of store_session.                                           *)
RowKept ==
    (\A t \in Tasks : pc[t] = "idle") /\ fresh[Me] > 0 /\ "insert" \notin torn
        => Row # <<>>

(* While no two operations overlapped and none was cut off after its first *)
(* commit, each takes effect at one moment, as in Ratchet: it is the one   *)
(* at which it deletes the row.                                            *)
Storing == {t \in Tasks : pc[t] = "insert"}
Pending == {t \in Tasks : pc[t] = "remove" \/ (t \in Storing /\ job[t].kind = "decrypt")}

A == INSTANCE Ratchet WITH
    store <- [store EXCEPT ![Me] =
                 IF Storing = {} THEN @ ELSE new[CHOOSE t \in Storing : TRUE]],
    used <- used \cup UNION {Needed(t) : t \in Pending},
    sent <- sent \cup UNION {Sent(Me, job[t].m) : t \in Storing \ Pending},
    read <- read \cup UNION {job[t].m : t \in Pending},
    lost <- lost \cup UNION {Gone(t) : t \in Storing}

AloneIsAtomic == A!Init /\ [][overlapped' \/ torn' # {} \/ [A!Next]_(A!vars)]_taskVars

-----------------------------------------------------------------------------
(* What a comment of the code says and TLC refutes; the README tells how.  *)

(* A message that was decrypted is found a duplicate when it comes again   *)
(* (decrypt_message: "DuplicateMessageException: Se mensagem duplicada").  *)
DuplicateRefused == again = {}
=============================================================================
