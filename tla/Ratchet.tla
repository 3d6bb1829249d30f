------------------------------ MODULE Ratchet -------------------------------
(***************************************************************************)
(* Two parties that use SessionCipher and SessionBuilder on both ends, one *)
(* operation of a party at a time (SessionTasks has them interleave).  The *)
(* network keeps every message ever sent and delivers any of them at any   *)
(* time: messages are lost, reordered and delivered again.  Both parties   *)
(* may start sessions, also at once.                                       *)
(***************************************************************************)
EXTENDS SessionState, FiniteSets

CONSTANTS
    Parties,        \* the two ends
    MaxKeys,        \* bound: key pairs a party generates
    MaxSent         \* bound: messages ever sent

ASSUME RatchetAssumption ==
    /\ IsFiniteSet(Parties) /\ Cardinality(Parties) = 2
    /\ {MaxKeys, MaxSent} \subseteq Nat

VARIABLES
    store,      \* the record each party has for the other
    fresh,      \* key pairs each party has generated
    used,       \* base keys whose one-time pre-key was removed
    sent,       \* messages sent so far, with their receiver
    read,       \* messages that were decrypted
    lost        \* sessions each party archived out of its record

vars == <<store, fresh, used, sent, read, lost>>

Peer(p) == CHOOSE q \in Parties : q # p

Key == Parties \X (0..MaxKeys)

TypeOK ==
    /\ \A p \in Parties : \A i \in DOMAIN store[p] :
          LET st == store[p][i]
          IN /\ st.base \in Key /\ st.eph \in Key /\ Cardinality(st.pending) <= 1
             /\ st.n \in 0..MaxSent /\ Len(st.chains) <= MaxChains
             /\ \A c \in ToSet(st.chains) :
                   c.index <= MaxSent /\ c.skipped \subseteq 0..(c.index - 1)
    /\ \A p \in Parties : Len(store[p]) <= MaxArchived + 1
    /\ fresh \in [Parties -> 0..MaxKeys]
    /\ used \subseteq Key /\ read \subseteq sent
    /\ lost \subseteq Parties \X Key

Init ==
    /\ store = [p \in Parties |-> <<>>] /\ fresh = [p \in Parties |-> 0]
    /\ used = {} /\ sent = {} /\ read = {} /\ lost = {}
-----------------------------------------------------------------------------
Generated(p, k) == <<p, fresh[p] + k>>

Bases(record) == {st.base : st \in ToSet(record)}
Archive(p) == lost' = lost \cup ({p} \X (Bases(store[p]) \ Bases(store'[p])))

(* processPreKeyBundle: a base key and a ratchet key are generated; the    *)
(* server leaves the one-time pre-key out when it has none left.           *)
Establish(p) ==
    /\ fresh[p] + 2 <= MaxKeys
    /\ fresh' = [fresh EXCEPT ![p] = @ + 2]
    /\ \E once \in BOOLEAN :
          LET st == AliceState(Generated(p, 1), once, SignedPreKey(Peer(p)),
                               Generated(p, 2))
          IN store' = [store EXCEPT ![p] = Promote(st, @)]
    /\ Archive(p)
    /\ UNCHANGED <<used, sent, read>>

(* copy tells apart messages that were made with the same key *)
Sent(p, messages) ==
    {[to |-> Peer(p), msg |-> m,
      copy |-> Cardinality({x \in sent : x.msg = m})] : m \in messages}

Encrypt(p) ==
    /\ store[p] # <<>> /\ Cardinality(sent) < MaxSent
    /\ sent' = sent \cup Sent(p, {Message(store[p][1])})
    /\ store' = [store EXCEPT ![p] = Encrypted(@)]
    /\ UNCHANGED <<fresh, used, read, lost>>

(* decryptMsg and decryptPkmsg; what fails changes nothing *)
Result(m) ==
    LET p == m.to
    IN IF NeedsPreKey(store[p], m.msg) \cap used # {}
       THEN [record |-> store[p], verdict |-> "nokey"]
       ELSE Decrypted(Built(store[p], m.msg, SignedPreKey(p)), m.msg,
                      Generated(p, 1))

Decrypt(m) ==
    /\ Result(m).verdict = "read"
    /\ store' = [store EXCEPT ![m.to] = Result(m).record]
    /\ used' = used \cup NeedsPreKey(store[m.to], m.msg)
    /\ fresh' = IF Head(store'[m.to]).eph = Generated(m.to, 1)
                THEN [fresh EXCEPT ![m.to] = @ + 1] ELSE fresh
    /\ fresh'[m.to] <= MaxKeys
    /\ read' = read \cup {m}
    /\ Archive(m.to)
    /\ UNCHANGED sent

Next ==
    \/ \E p \in Parties : Establish(p) \/ Encrypt(p)
    \/ \E m \in sent : Decrypt(m)

Spec == Init /\ [][Next]_vars
-----------------------------------------------------------------------------
(* The state of the receiver's record a message belongs to, if it is there. *)
StateOf(m) == {st \in ToSet(store[m.to]) : {st.base} = m.msg.key[1]}

(* The three limits: its session was archived out of a record, as many     *)
(* newer chains as are kept exist, or the gap is too wide.  One end that   *)
(* forgot a session without a one-time pre-key can build it again from its *)
(* first message, and is then out of step with the other end.              *)
Forgotten(m) ==
    \E s \in lost : /\ {s[2]} = m.msg.key[1]
                    /\ Len(store[s[1]]) = MaxArchived + 1

Evicted(m) ==
    \E st \in StateOf(m) :
        /\ Len(st.chains) = MaxChains
        /\ \A c \in ToSet(st.chains) : Len(c.key) > Len(m.msg.key)

TooFar(m) ==
    LET known == {c \in UNION {ToSet(st.chains) : st \in StateOf(m)} :
                     c.eph = m.msg.eph}
    IN \A x \in IF known = {} THEN {0} ELSE {c.index : c \in known} :
          m.msg.n > x + MaxSkip

(* No message is decrypted twice, however late or often it comes again:    *)
(* not from a chain still kept, not from one that was evicted, and by      *)
(* building its session anew only when that session was forgotten and had  *)
(* no one-time pre-key.                                                    *)
NoReplay ==
    \A m \in read :
        Result(m).verdict = "read" =>
            Forgotten(m) /\ \E b \in m.msg.pre : ~b.once

(* A message nobody has read is never taken for a duplicate, by any of the *)
(* states that are tried before the one it belongs to.                     *)
UnreadIsNoDuplicate == \A m \in sent \ read : Result(m).verdict # "duplicate"

(* Every message that is still under way can be read when it comes, unless *)
(* it passed one of the three limits: no order of arrival, no loss and no  *)
(* pair of sessions started at once wedges a session.                      *)
Readable ==
    \A m \in sent \ read :
        \/ Result(m).verdict = "read"
        \/ Forgotten(m) \/ Evicted(m) \/ TooFar(m)
=============================================================================
