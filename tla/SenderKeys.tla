------------------------------ MODULE SenderKeys ------------------------------
(***************************************************************************)
(* Group messages: the sender key of one account in one group             *)
(* (GroupSessionBuilder, GroupCipher, SenderKeyRecord, the sender_keys     *)
(* table), its sends (_send_to_group_with_sessions of core/client.py), and *)
(* a member that reads them (_select_enc_node and group_decrypt).          *)
(*                                                                         *)
(* A send hands the key on in every stanza, encrypted for each member, and *)
(* with it the message encrypted with the key.  Several sends and several  *)
(* of the member's workers run at once; each loads the row, computes, and  *)
(* stores the whole record.  A chain is its key id and its iteration.      *)
(***************************************************************************)
EXTENDS Naturals, Sequences, FiniteSets

CONSTANTS
    Sends,      \* tasks of the sender
    Workers,    \* workers of the member
    MaxSent,    \* stanzas it sends
    MaxKeys,    \* sender keys it generates
    MaxFaults,  \* loads and stores that fail, and workers that are cancelled
    MaxAgain    \* stanzas delivered again

ASSUME GroupAssumption == {MaxSent, MaxKeys, MaxFaults, MaxAgain} \subseteq Nat

VARIABLES
    own,        \* the sender's row: its chain, as a set of 0 or 1
    keys,       \* how many keys it has generated
    at,         \* where each send is suspended
    dist, held, \* the chain it distributes, and the one it has loaded
    sent,       \* stanzas that are out
    record,     \* the member's row: a sequence of states
    todo,       \* stanzas not delivered to it
    job,        \* the stanza each worker works on, as a set of 0 or 1
    faults,     \* how many of these there have been
    resent,     \* how many stanzas have been delivered again
    known,      \* the first distribution of each key the member has stored
    expected,   \* messages it had to be able to read when they came
    read, again,\* messages it has read, and those it has read twice
    unsaved,    \* messages a worker gave up when it was to store the record
    forgot,     \* one of its own loads has failed
    sendsMet, workersMet  \* two of them have been in progress at once

sender == <<own, keys, at, dist, held, sent>>
member == <<record, todo, job, known, expected, read, again, unsaved, forgot, workersMet>>
vars == <<sender, member, faults, resent, sendsMet>>

Chain(k, i) == [key |-> k, iteration |-> i]
NoChain == Chain(0, 0)
Chains == [key : 0..MaxKeys, iteration : Nat]

TypeOK ==
    /\ own \subseteq Chains /\ Cardinality(own) <= 1 /\ keys \in 0..MaxKeys
    /\ at \in [Sends -> {"idle", "generate", "renew", "encrypt", "advance"}]
    /\ \A s \in Sends : at[s] = "advance" => held[s].key \in 1..keys
    /\ \A x \in sent : x.dist.key \in 1..keys /\ Cardinality(x.sk) <= 1
    /\ \A i \in DOMAIN record : record[i].key \in 1..keys
                                /\ \A n \in record[i].skipped : n < record[i].iteration
    /\ \A w \in Workers : Cardinality(job[w]) <= 1
    /\ todo \subseteq sent /\ again \subseteq read

Init ==
    /\ own = {} /\ keys = 0
    /\ at = [s \in Sends |-> "idle"] /\ dist = [s \in Sends |-> NoChain] /\ held = dist
    /\ sent = {} /\ todo = {}
    /\ record = <<>> /\ job = [w \in Workers |-> {}]
    /\ faults = 0 /\ resent = 0 /\ known = {} /\ expected = {}
    /\ read = {} /\ again = {} /\ unsaved = {}
    /\ sendsMet = FALSE /\ workersMet = FALSE /\ forgot = FALSE
-----------------------------------------------------------------------------
Fault(n) == faults' = faults + n /\ faults' <= MaxFaults

(* create(): a record that is empty, or cannot be loaded, is replaced by   *)
(* one with a new key; the distribution carries the chain as it stands.    *)
InBound == Cardinality(sent) + Cardinality({s \in Sends : at[s] # "idle"}) < MaxSent

Create(s) ==
    /\ at[s] = "idle" /\ InBound
    /\ \/ /\ own # {}
          /\ \E c \in own : dist' = [dist EXCEPT ![s] = c]
          /\ at' = [at EXCEPT ![s] = "encrypt"]
          /\ UNCHANGED faults
       \/ /\ Fault(IF own = {} THEN 0 ELSE 1)
          /\ at' = [at EXCEPT ![s] = "generate"]
          /\ UNCHANGED dist
    /\ sendsMet' = (sendsMet \/ \E r \in Sends : at[r] # "idle")
    /\ UNCHANGED <<own, keys, held, sent, member, resent>>

(* A key made while the message is encrypted is not the one distributed.   *)
Generate(s) ==
    /\ at[s] \in {"generate", "renew"} /\ keys < MaxKeys
    /\ keys' = keys + 1
    /\ own' = {Chain(keys', 0)}
    /\ dist' = [dist EXCEPT ![s] = IF at[s] = "renew" THEN @ ELSE Chain(keys', 0)]
    /\ at' = [at EXCEPT ![s] = "encrypt"]
    /\ UNCHANGED <<held, sent, member, faults, resent, sendsMet>>

(* Any step of the database may raise, as when another send has inserted   *)
(* the row since the select; outside the encryption that ends the send,    *)
(* and so does the second failure of the encryption after NoSession.       *)
SendFails(s) ==
    /\ at[s] # "idle" /\ at' = [at EXCEPT ![s] = "idle"]
    /\ dist' = [dist EXCEPT ![s] = NoChain] /\ held' = [held EXCEPT ![s] = NoChain]
    /\ Fault(1)
    /\ UNCHANGED <<own, keys, sent, member, resent, sendsMet>>

(* encrypt(): the key of the chain's iteration, and the chain moves on.    *)
Encrypt(s) ==
    /\ at[s] = "encrypt"
    /\ \E c \in own : held' = [held EXCEPT ![s] = c]
    /\ at' = [at EXCEPT ![s] = "advance"]
    /\ UNCHANGED <<own, keys, dist, sent, member, faults, resent, sendsMet>>

(* A load that fails is followed by create(), whose own load may fail, and *)
(* a second attempt.                                                       *)
EncryptFails(s) ==
    /\ at[s] = "encrypt"
    /\ \/ Fault(1) /\ UNCHANGED at
       \/ Fault(2) /\ at' = [at EXCEPT ![s] = "renew"]
    /\ UNCHANGED <<own, keys, dist, held, sent, member, resent, sendsMet>>

Moved_Same(c) == c                  \* variant: the chain is not moved on
Moved(c) == Chain(c.key, c.iteration + 1)

Send(s, sk) ==
    /\ sent' = sent \cup {[id |-> Cardinality(sent) + 1, dist |-> dist[s], sk |-> sk]}
    /\ todo' = todo \cup (sent' \ sent)
    /\ at' = [at EXCEPT ![s] = "idle"]
    /\ dist' = [dist EXCEPT ![s] = NoChain] /\ held' = [held EXCEPT ![s] = NoChain]
    /\ UNCHANGED <<keys, record, job, known, expected, read, again, unsaved, forgot, workersMet, resent, sendsMet>>

Advance(s) ==
    /\ at[s] = "advance"
    /\ own' = {Moved(held[s])}
    /\ Send(s, {held[s]})
    /\ UNCHANGED faults

(* A store that raises, though it may have written the row.  The message   *)
(* is encrypted once more; when that fails too the stanza goes out with    *)
(* the distributions alone.                                                *)
AdvanceFails(s) ==
    /\ at[s] = "advance"
    /\ own' \in {own, {Moved(held[s])}}
    /\ Fault(1)
    /\ \/ Send(s, {})
       \/ /\ at' = [at EXCEPT ![s] = "encrypt"]
          /\ UNCHANGED <<keys, dist, held, sent, member, resent, sendsMet>>
-----------------------------------------------------------------------------
(* The member: of a stanza with both, only the message is decrypted; the   *)
(* distribution is stored when the stanza carries it alone.  A load that   *)
(* fails gives an empty record.                                            *)
State(c) == [key |-> c.key, iteration |-> c.iteration, skipped |-> {}]

Added_First(r, c) == <<State(c)>> \o r   \* variant: the newest state comes first
Added(r, c) == Append(r, State(c))

(* getSenderKeyState: the first state of the key. *)
Of(r, c) == {i \in DOMAIN r : r[i].key = c.key /\ \A j \in 1..(i - 1) : r[j].key # c.key}

CanRead(r, c) ==
    \E i \in Of(r, c) : c.iteration >= r[i].iteration \/ c.iteration \in r[i].skipped

(* getSenderKey: keys that are passed over are kept. *)
Used_Keeps(q, n) ==                 \* variant: a kept key stays
    IF n < q.iteration THEN q
    ELSE [q EXCEPT !.iteration = n + 1, !.skipped = @ \cup q.iteration..(n - 1)]

Used(q, n) ==
    IF n < q.iteration THEN [q EXCEPT !.skipped = @ \ {n}]
    ELSE [q EXCEPT !.iteration = n + 1, !.skipped = @ \cup q.iteration..(n - 1)]

After(r, c) ==
    [i \in DOMAIN r |-> IF i \in Of(r, c) THEN Used(r[i], c.iteration) ELSE r[i]]

(* What the first distribution of the key lets it read. *)
Promised(c) == \E d \in known : d.key = c.key /\ d.iteration <= c.iteration

Deliver(w, x) ==
    /\ job[w] = {} /\ x \in todo
    /\ todo' = todo \ {x}
    /\ job' = [job EXCEPT ![w] = {[x |-> x, loaded |-> FALSE, new |-> <<>>]}]
    /\ expected' = expected \cup {c \in x.sk : Promised(c)}
    /\ workersMet' = (workersMet \/ \E v \in Workers : job[v] # {})
    /\ UNCHANGED <<sender, record, known, read, again, unsaved, forgot, faults, resent, sendsMet>>

(* The server delivers a stanza again whose receipt it has not seen. *)
Redeliver(x) ==
    /\ x \in sent \ todo /\ resent < MaxAgain
    /\ todo' = todo \cup {x} /\ resent' = resent + 1
    /\ UNCHANGED <<sender, record, job, known, expected, read, again, unsaved, forgot, workersMet, faults, sendsMet>>

Load(w) ==
    /\ \E j \in job[w], r \in {record, <<>>} :
          /\ ~j.loaded
          /\ Fault(IF r = record THEN 0 ELSE 1) /\ forgot' = (forgot \/ r # record)
          /\ IF j.x.sk = {}
             THEN job' = [job EXCEPT ![w] = {[j EXCEPT !.loaded = TRUE, !.new = Added(r, j.x.dist)]}]
             ELSE \E c \in j.x.sk :
                    job' = [job EXCEPT ![w] =
                        IF CanRead(r, c)
                        THEN {[j EXCEPT !.loaded = TRUE, !.new = After(r, c)]}
                        ELSE {}]
    /\ UNCHANGED <<sender, record, todo, known, expected, read, again, unsaved, workersMet, resent, sendsMet>>

(* storeSenderKey updates or inserts the row. *)
Write(j) ==
    /\ j.loaded /\ record' = j.new
    /\ known' = IF j.x.sk = {} /\ \A d \in known : d.key # j.x.dist.key
                THEN known \cup {j.x.dist} ELSE known

Store(w) ==
    /\ \E j \in job[w] :
          /\ Write(j)
          /\ read' = read \cup j.x.sk
          /\ again' = again \cup (read \cap j.x.sk)
    /\ job' = [job EXCEPT ![w] = {}]
    /\ UNCHANGED <<sender, todo, expected, unsaved, forgot, workersMet, faults, resent, sendsMet>>

(* A store that raises is rolled back; the plaintext goes with it, though  *)
(* the receipt is out.  So it does when disconnect() cancels the worker,   *)
(* at any await; then, or when only the answer to the commit is lost, the  *)
(* row may have been written.                                              *)
StoreFails(w) ==
    /\ \E j \in job[w] :
          /\ unsaved' = unsaved \cup j.x.sk
          /\ UNCHANGED <<record, known>> \/ Write(j)
    /\ job' = [job EXCEPT ![w] = {}] /\ Fault(1)
    /\ UNCHANGED <<sender, todo, expected, read, again, forgot, workersMet, resent, sendsMet>>
-----------------------------------------------------------------------------
SendStep(s) ==
    Create(s) \/ Generate(s) \/ SendFails(s) \/ Encrypt(s) \/ EncryptFails(s) \/ Advance(s) \/ AdvanceFails(s)

Next ==
    \/ \E s \in Sends : SendStep(s)
    \/ \E w \in Workers : Load(w) \/ Store(w) \/ StoreFails(w) \/ \E x \in todo : Deliver(w, x)
    \/ \E x \in sent : Redeliver(x)

Spec == Init /\ [][Next]_vars
-----------------------------------------------------------------------------
(* Two messages of the group are never encrypted with one key and          *)
(* iteration, unless two sends have overlapped.                            *)
KeyPerMessage ==
    ~sendsMet => \A x, y \in sent : x.sk \cap y.sk # {} => x = y

(* A message that comes after a distribution of its key, and is not before *)
(* the first of them, is read: in whatever order messages and further      *)
(* distributions come, unless two of the workers have met or a load has    *)
(* failed.  A store that fails, or a worker that is cancelled, costs the   *)
(* message in its hands, for which the receipt is out, and no other.       *)
PromisedIsRead ==
    ~workersMet /\ ~forgot /\ (\A w \in Workers : job[w] = {})
        => expected \subseteq read \cup unsaved

(* A key is used once to read, however often and late its message comes,   *)
(* unless two of the workers have met or a load of theirs has failed.      *)
ReadOnce == ~workersMet /\ ~forgot => again = {}
=============================================================================
